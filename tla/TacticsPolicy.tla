--------------------------- MODULE TacticsPolicy ---------------------------
(***************************************************************************)
(* The goroutines between the policies and the workers of the HTTPS dialer *)
(* (pkg/enginenetx: network.go, mixpolicy.go, userpolicy.go, dnspolicy.go, *)
(* testhelperspolicy.go, bridgespolicy.go, statspolicy.go, stream.go,      *)
(* filter.go) during one LookupTactics:                                    *)
(*                                                                         *)
(*   user ------------------------------+                                  *)
(*   dns ---> th ----+                  v                                  *)
(*   stats --+       +--> outer ---> either ---> filter ---> workers       *)
(*           +-> inner                                                     *)
(*   bridges-+                                                             *)
(*                                                                         *)
(* All channels are unbuffered: slot[s] is the tactic that stage s is      *)
(* blocked sending. The three filter goroutines are one stage.             *)
(***************************************************************************)
EXTENDS TacticStreams

CONSTANTS
  Addrs, SNIs,
  Inputs,   \* the cases explored: what each source has to offer
  None      \* no tactic: nothing is being sent, or a nil entry of the user's file

Sources == {"user", "dns", "stats", "bridges"}
Mixers == {"inner", "outer"}
Stages == Sources \union Mixers \union {"th", "either", "filter"}

\* The goroutines started by LookupTactics of the composed policy.
Composed == {"dns", "th", "stats", "bridges", "inner", "outer"}

Tactic == [addr : Addrs, sni : SNIs]

ASSUME PolicyAssumption ==
  /\ None \notin Tactic
  /\ Inputs \subseteq [proxy : BOOLEAN, hasUser : BOOLEAN, isTH : BOOLEAN, factor : Nat,
                      snis : Seq(Seq(SNIs)), user : Seq(Tactic \union {None}), dns : Seq(Tactic),
                      stats : Seq(Tactic), bridges : Seq(Tactic)]
  /\ \A i \in Inputs : Len(i.dns) <= Len(i.snis)

VARIABLES
  in,       \* the inputs: a record of the proxy and user policy flags, the
            \* interleaving factor, the SNI shuffles and the source sequences
            \* (that of the user is empty when the file has no entry for the endpoint)
  spawned,  \* the goroutines started so far
  slot, closed,
  sent,     \* items that each stage has sent, or is blocked sending
  dnsDone,  \* the DNS lookup: "pending", "skipped" (context done) or "done"
  mix,      \* each mixer: whose turn it is, what it took, which side is drained
  todo,     \* the tactics testHelpersPolicy still has to extend, as SNI variants
  count,    \* tactics that mixPolicyEitherOr got from its primary
  either,   \* the side mixPolicyEitherOr reads
  ctxDone,
  out       \* what the workers have received

vars == <<in, spawned, slot, closed, sent, dnsDone, mix, todo, count, either, ctxDone, out>>

\* newHTTPSDialerPolicy: a plain DNS policy behind a proxy, otherwise the composed
\* policy, which a user policy that could be loaded takes precedence over.
Top == IF in.proxy THEN "dns" ELSE IF in.hasUser THEN "either" ELSE "outer"

Init ==
  /\ in \in Inputs
  /\ spawned = {"filter"} \union (IF Top = "dns" THEN {"dns"}
                                  ELSE IF Top = "either" THEN {"either", "user"}
                                  ELSE Composed)
  /\ slot = [s \in Stages |-> None] /\ closed = [s \in Stages |-> FALSE]
  /\ sent = [s \in Stages |-> 0] /\ dnsDone = "pending"
  /\ mix = [m \in Mixers |-> [side |-> "p", taken |-> 0, drained |-> {}]]
  /\ todo = <<>> /\ count = 0 /\ either = "user"
  /\ ctxDone = FALSE /\ out = <<>>

----------------------------------------------------------------------------
(* Channels.                                                               *)

\* Stage s is running and not blocked in a send.
Free(s) == s \in spawned /\ ~closed[s] /\ slot[s] = None
HasItem(s) == slot[s] # None
AtEOF(s) == closed[s] /\ slot[s] = None

\* Receive from stage s and block sending the same tactic downstream.
Forward(s, to) ==
  /\ slot' = [slot EXCEPT ![s] = None, ![to] = slot[s]]
  /\ sent' = [sent EXCEPT ![to] = @ + 1]

CloseOutput(s) == closed' = [closed EXCEPT ![s] = TRUE] /\ UNCHANGED slot

----------------------------------------------------------------------------
(* The sources: a loop over a slice, then close.                           *)

Ready(s) == Free(s) /\ (s = "dns" => dnsDone # "pending")

\* userPolicyRemoveNilEntries of the endpoint's entry.
UserTactics ==
  LET output[k \in 0..Len(in.user)] ==
        IF k = 0 THEN <<>>
        ELSE IF in.user[k] = None THEN output[k - 1]
        ELSE Append(output[k - 1], in.user[k])
  IN  output[Len(in.user)]

Items(s) == IF s = "user" THEN UserTactics
            ELSE IF s = "dns" /\ dnsDone = "skipped" THEN <<>> ELSE in[s]

SourceSend(s) ==
  /\ Ready(s) /\ sent[s] < Len(Items(s))
  /\ sent' = [sent EXCEPT ![s] = @ + 1]
  /\ slot' = [slot EXCEPT ![s] = Items(s)[sent[s] + 1]]
  /\ UNCHANGED <<in, spawned, closed, dnsDone, mix, todo, count, either, ctxDone, out>>

SourceClose(s) ==
  /\ Ready(s) /\ sent[s] = Len(Items(s))
  /\ CloseOutput(s)
  /\ UNCHANGED <<in, spawned, sent, dnsDone, mix, todo, count, either, ctxDone, out>>

\* dnsPolicy: no lookup, hence no tactic, once the context is done; a lookup that
\* fails (also because the context is done meanwhile) gives no tactic either.
DNSLookup ==
  /\ Free("dns") /\ dnsDone = "pending"
  /\ dnsDone' \in IF ctxDone THEN {"skipped"} ELSE {"done"}
  /\ UNCHANGED <<in, spawned, slot, closed, sent, mix, todo, count, either, ctxDone, out>>

----------------------------------------------------------------------------
(* mixPolicyInterleave.                                                    *)

Primary(m) == IF m = "outer" THEN "th" ELSE "stats"
Fallback(m) == IF m = "outer" THEN "inner" ELSE "bridges"
Upstream(m) == IF mix[m].side = "p" THEN Primary(m) ELSE Fallback(m)
Other(side) == IF side = "p" THEN "f" ELSE "p"

\* A mutant: the factor zero is not treated as one.
QuotaZero == in.factor

\* max(1, p.Factor)
Quota == AtLeastOne(in.factor)

\* maybeTakeN: take the next tactic of this side's batch.
MixTake(m) ==
  /\ Free(m) /\ mix[m].side \notin mix[m].drained /\ mix[m].taken < Quota
  /\ HasItem(Upstream(m))
  /\ Forward(Upstream(m), m)
  /\ mix' = [mix EXCEPT ![m].taken = @ + 1]
  /\ UNCHANGED <<in, spawned, closed, dnsDone, todo, count, either, ctxDone, out>>

\* The end of maybeTakeN: EOF drains the side; in any case it is the other's turn.
MixTurn(m) ==
  /\ Free(m) /\ mix[m].drained # {"p", "f"}
  /\ LET x == mix[m]
         eof == x.side \notin x.drained /\ x.taken < Quota /\ AtEOF(Upstream(m))
     IN  /\ eof \/ x.side \in x.drained \/ x.taken = Quota
         /\ mix' = [mix EXCEPT ![m] =
                      [side |-> Other(x.side), taken |-> 0,
                       drained |-> IF eof THEN x.drained \union {x.side} ELSE x.drained]]
  /\ UNCHANGED <<in, spawned, slot, closed, sent, dnsDone, todo, count, either, ctxDone, out>>

MixClose(m) ==
  /\ Free(m) /\ mix[m].drained = {"p", "f"}
  /\ CloseOutput(m)
  /\ UNCHANGED <<in, spawned, sent, dnsDone, mix, todo, count, either, ctxDone, out>>

----------------------------------------------------------------------------
(* testHelpersPolicy.                                                      *)

\* A mutant: the variants of a tactic are due before the next original.
VariantsDueAtOnce == TRUE

\* The variants are sent when the child policy has been drained.
VariantsDue == AtEOF("dns")

\* Forward an original; if the domain is that of a test helper, remember it.
THForward ==
  /\ Free("th") /\ HasItem("dns")
  /\ Forward("dns", "th")
  /\ LET t == slot["dns"]
         snis == in.snis[sent["dns"]]
     IN  todo' = IF in.isTH
                   THEN todo \o [j \in 1..Len(snis) |-> [t EXCEPT !.sni = snis[j]]]
                   ELSE todo
  /\ UNCHANGED <<in, spawned, closed, dnsDone, mix, count, either, ctxDone, out>>

THVariant ==
  /\ Free("th") /\ VariantsDue /\ todo # <<>>
  /\ slot' = [slot EXCEPT !["th"] = Head(todo)]
  /\ sent' = [sent EXCEPT !["th"] = @ + 1]
  /\ todo' = Tail(todo)
  /\ UNCHANGED <<in, spawned, closed, dnsDone, mix, count, either, ctxDone, out>>

THClose ==
  /\ Free("th") /\ AtEOF("dns") /\ todo = <<>>
  /\ CloseOutput("th")
  /\ UNCHANGED <<in, spawned, sent, dnsDone, mix, todo, count, either, ctxDone, out>>

----------------------------------------------------------------------------
(* mixPolicyEitherOr.                                                      *)

EitherForward ==
  /\ Free("either") /\ HasItem(either)
  /\ Forward(either, "either")
  /\ count' = IF either = "user" THEN count + 1 ELSE count
  /\ UNCHANGED <<in, spawned, closed, dnsDone, mix, todo, either, ctxDone, out>>

\* A mutant: the fallback runs whether or not the primary worked.
PrimaryWorkedNever == FALSE

PrimaryWorked == count > 0

\* The primary had no tactic: only now is the fallback started.
EitherFallback ==
  /\ Free("either") /\ either = "user" /\ AtEOF("user") /\ ~PrimaryWorked
  /\ either' = "outer" /\ spawned' = spawned \union Composed
  /\ UNCHANGED <<in, slot, closed, sent, dnsDone, mix, todo, count, ctxDone, out>>

EitherClose ==
  /\ Free("either") /\ AtEOF(either) /\ (either = "outer" \/ PrimaryWorked)
  /\ CloseOutput("either")
  /\ UNCHANGED <<in, spawned, sent, dnsDone, mix, todo, count, either, ctxDone, out>>

----------------------------------------------------------------------------
(* The filters and the workers, which read until EOF.                      *)

\* A mutant: duplicates are compared with the last tactic only.
SeenJustBefore(t) == out # <<>> /\ out[Len(out)].tactic = t

\* filterOnlyKeepUniqueTactics: the map of the summaries emitted so far.
Seen(t) == \E i \in DOMAIN out : out[i].tactic = t

\* Drop a duplicate, or pass the tactic on with the delay of its position.
FilterForward ==
  /\ Free("filter") /\ HasItem(Top)
  /\ slot' = [slot EXCEPT ![Top] = None]
  /\ LET t == slot[Top]
     IN  out' = IF Seen(t) THEN out
                ELSE Append(out, [tactic |-> t, delay |-> HappyEyeballsDelay(Len(out))])
  /\ UNCHANGED <<in, spawned, closed, sent, dnsDone, mix, todo, count, either, ctxDone>>

FilterClose ==
  /\ Free("filter") /\ AtEOF(Top)
  /\ CloseOutput("filter")
  /\ UNCHANGED <<in, spawned, sent, dnsDone, mix, todo, count, either, ctxDone, out>>

\* A worker's success, or the caller, cancels the context.
Cancel ==
  /\ ~ctxDone /\ ~closed["filter"]
  /\ ctxDone' = TRUE
  /\ UNCHANGED <<in, spawned, slot, closed, sent, dnsDone, mix, todo, count, either, out>>

----------------------------------------------------------------------------
Drained == \A s \in spawned : closed[s]

GoRoutines ==
  \/ \E s \in Sources : SourceSend(s) \/ SourceClose(s)
  \/ DNSLookup
  \/ \E m \in Mixers : MixTake(m) \/ MixTurn(m) \/ MixClose(m)
  \/ THForward \/ THVariant \/ THClose
  \/ EitherForward \/ EitherFallback \/ EitherClose
  \/ FilterForward \/ FilterClose

Next == GoRoutines \/ Cancel \/ (Drained /\ UNCHANGED vars)

\* Some goroutine that can run does run; each has finitely many steps to take.
Spec == Init /\ [][Next]_vars /\ WF_vars(GoRoutines)

----------------------------------------------------------------------------
(* Properties.                                                             *)

\* The type of the state of the pipeline.
TypeOK ==
  /\ in \in Inputs /\ spawned \subseteq Stages
  /\ slot \in [Stages -> Tactic \union {None}] /\ closed \in [Stages -> BOOLEAN]
  /\ sent \in [Stages -> Nat]
  /\ dnsDone \in {"pending", "skipped", "done"} /\ either \in {"user", "outer"}
  /\ mix \in [Mixers -> [side : {"p", "f"}, taken : 0..Quota, drained : SUBSET {"p", "f"}]]
  /\ todo \in Seq(Tactic)
  /\ count \in Nat /\ ctxDone \in BOOLEAN
  /\ out \in Seq([tactic : Tactic, delay : Nat])

\* The streams that the comments of the policies and the list in DESIGN.md (131-152),
\* which describe them one by one, promise for these inputs.
Extended ==
  IF in.isTH THEN WithOtherSNIs(Items("dns"), in.snis) ELSE Items("dns")
Mixed == Interleaved(in.stats, in.bridges, in.factor)
Stream(s) ==
  IF s \in Sources THEN Items(s)
  ELSE IF s = "th" THEN Extended
  ELSE IF s = "inner" THEN Mixed
  ELSE IF s = "outer" THEN Interleaved(Extended, Mixed, in.factor)
  ELSE EitherOr(UserTactics, Interleaved(Extended, Mixed, in.factor))

Reference == Filtered(Stream(Top))

\* However the goroutines interleave, the workers receive the composition of what each
\* policy documents: in its order, without duplicates, with the delay of each position,
\* and all of it, unless the context is done before the DNS lookup, which then has no
\* result.  This is not what DESIGN.md (539-541) says of the whole, that bridges come
\* after all that is based on the DNS: with more tactics of the DNS than the factor,
\* the interleaving has bridges before the last of them.
StreamIsReference ==
  /\ IsPrefix(out, Reference)
  /\ closed["filter"] => out = Reference

\* The user's tactics exclude all others: no goroutine of the composed policy is
\* started, and no DNS lookup made, for an endpoint that has user tactics, nil entries
\* aside.
UserPolicyExcludes ==
  ~in.proxy /\ in.hasUser /\ UserTactics # <<>> =>
    spawned \intersect Composed = {} /\ dnsDone = "pending"

\* Every goroutine that was started ends, also when the context is cancelled:
\* the pipeline never looks at the context once the DNS lookup is over, and relies
\* on the workers to drain it.
PipelineEnds == <>[]Drained
=============================================================================
