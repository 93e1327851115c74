--------------------------- MODULE TacticStreams ---------------------------
(***************************************************************************)
(* What the dialing policies of pkg/enginenetx emit, as whole sequences:   *)
(* reference definitions, independent of the goroutines and channels that  *)
(* TacticsPolicy models. A tactic is a record of its address and SNI; port *)
(* and VerifyHostname are those of the one endpoint being dialled.         *)
(***************************************************************************)
EXTENDS HappyEyeballs, SequencesExt

AtLeastOne(n) == IF n < 1 THEN 1 ELSE n
Smaller(a, b) == IF a < b THEN a ELSE b

\* mixPolicyInterleave documents: N from the primary, then N from the fallback,
\* and so on until both are drained. Item i of the primary is in round
\* (i - 1) \div N and follows the fallback items of the earlier rounds; item j of
\* the fallback follows the primary items of the rounds up to its own.
Interleaved(p, f, factor) ==
  LET n == AtLeastOne(factor)
      PosP(i) == i + Smaller(Len(f), ((i - 1) \div n) * n)
      PosF(j) == j + Smaller(Len(p), ((j - 1) \div n + 1) * n)
  IN  [k \in 1..Len(p) + Len(f) |->
         IF \E i \in DOMAIN p : PosP(i) = k
           THEN p[CHOOSE i \in DOMAIN p : PosP(i) = k]
           ELSE f[CHOOSE j \in DOMAIN f : PosF(j) = k]]

\* mixPolicyEitherOr documents: the fallback only if the primary had nothing.
EitherOr(p, f) == IF p # <<>> THEN p ELSE f

\* The tactics of child with the SNIs of their shuffles: those of the first k tactics.
Variants(child, snis) ==
  LET v[k \in 0..Len(child)] ==
        IF k = 0 THEN <<>>
        ELSE v[k - 1] \o [j \in 1..Len(snis[k]) |-> [child[k] EXCEPT !.sni = snis[k][j]]]
  IN  v

\* testHelpersPolicy: the original tactics first, then each with every SNI.
WithOtherSNIs(child, snis) == child \o Variants(child, snis)[Len(child)]

\* The first occurrence of each tactic among the first k, in order, with the delay of
\* its position.
FirstOccurrences(s) ==
  LET f[k \in 0..Len(s)] ==
        IF k = 0 THEN <<>>
        ELSE LET before == f[k - 1]
             IN  IF \E j \in 1..k - 1 : s[j] = s[k] THEN before
                 ELSE Append(before, [tactic |-> s[k], delay |-> HappyEyeballsDelay(Len(before))])
  IN  f

\* httpsDialerFilterTactics.
Filtered(s) == FirstOccurrences(s)[Len(s)]
=============================================================================
