--------------------------- MODULE EngineResolver ---------------------------
(***************************************************************************)
(* The resolver of a session, pkg/engineresolver: concurrent calls of      *)
(* LookupHost (resolver.go) that share the scores in the key-value store   *)
(* (state.go) and the cache of child resolvers (resolvermaker.go), and     *)
(* CloseIdleConnections.                                                   *)
(*                                                                         *)
(* A score, a number between 0 and 1, is in units of 1/Scale. The moving   *)
(* average with factor 0.9 shifts its decimal digits by one and puts a 9   *)
(* (success) or a 0 (failure) in front of them.                            *)
(***************************************************************************)
EXTENDS Integers, Sequences, FiniteSets

CONSTANTS
  Lookups,     \* the calls of LookupHost
  URLs,        \* the URLs of resolvers, of this and of other versions
  AllMakers,   \* the cases for allmakers: sequences of entries (url and score)
  Files,       \* the cases for the file in the key-value store
  Proxiable,   \* the URLs that shouldSkipWithProxy lets through
  Broken,      \* the URLs for which newChildResolver fails (an unsupported scheme)
  Scale,       \* bound: the precision of scores
  MaxCloses    \* bound: calls of CloseIdleConnections

\* A resolverinfo.
ResolverInfo == [url : URLs, score : 0..Scale]

\* No URL is listed twice.
Distinct(s) == \A i, j \in DOMAIN s : s[i].url = s[j].url => i = j

\* The file is one that this or another version of the program has written.
ASSUME ResolverAssumption ==
  /\ Scale \in Nat \ {0} /\ Scale % 10 = 0 /\ MaxCloses \in Nat
  /\ AllMakers \union Files \subseteq Seq(ResolverInfo)
  /\ \A s \in AllMakers \union Files : Distinct(s)

VARIABLES
  allmakers, proxy,  \* fixed at startup: the makers; whether ProxyURL is set
  store,     \* the entries in the key-value store (<<>> when unreadable)
  call,      \* the state of each call of LookupHost
  res,       \* the URLs that have a cached child resolver
  once,      \* CloseIdleConnections has run
  closes

vars == <<allmakers, proxy, store, call, res, once, closes>>
cache == <<res, once, closes>>
config == <<allmakers, proxy>>

URLsOf(s) == {s[i].url : i \in DOMAIN s}
Supported == URLsOf(allmakers)

NewCall == [pc |-> "start", state |-> <<>>, i |-> 1, ctxDone |-> FALSE, result |-> "none",
            failed |-> {}, blamed |-> {}]

Init ==
  /\ allmakers \in AllMakers /\ proxy \in BOOLEAN /\ store \in Files
  /\ call = [l \in Lookups |-> NewCall]
  /\ res = {} /\ once = FALSE /\ closes = 0

----------------------------------------------------------------------------
(* Reading and writing the scores.                                         *)

\* readstateandprune: the entries of the file that are of a supported resolver.
Kept == {i \in DOMAIN store : store[i].url \in Supported}

\* A mutant: a file that could be read is used as it is.
AddedIfEmpty == IF Kept = {} THEN DOMAIN allmakers ELSE {}

\* The loop of readstatedefault that adds the makers that are not in the file.
Added == {j \in DOMAIN allmakers : allmakers[j].url \notin {store[i].url : i \in Kept}}

\* The list to sort: what was kept, then what was added.
Merged == store \o allmakers
Listed == Kept \union {Len(store) + j : j \in Added}

\* sortstate.  sort.SliceStable is an insertion sort on a list this short, and the
\* comparison holds of equal scores as well: the later of two such entries moves
\* ahead of the earlier one.
AheadOf(i, j) ==
  \/ Merged[i].score > Merged[j].score
  \/ Merged[i].score = Merged[j].score /\ i > j

\* Where the sort puts an entry.
Place(i) == Cardinality({j \in Listed : AheadOf(j, i)}) + 1

ReadStateDefault ==
  [k \in 1..Cardinality(Listed) |-> Merged[CHOOSE i \in Listed : Place(i) = k]]

\* maybeConfusion: with probability 0.3 the first entry trades places with the third,
\* or with the second if there are only two.
MaybeConfusion(s) ==
  {s} \union {[s EXCEPT ![1] = s[k], ![k] = s[1]] :
                k \in DOMAIN s \intersect (IF Len(s) = 2 THEN {2} ELSE {3})}

----------------------------------------------------------------------------
(* LookupHost.                                                             *)

Entry(l) == call[l].state[call[l].i]
Rescored(l, score) == [call[l].state EXCEPT ![call[l].i].score = score]

\* lookupHost returns an error: the score is changed, me.Add, and the next entry.
WithError(l, score, blamed) ==
  [call[l] EXCEPT !.state = Rescored(l, score), !.i = @ + 1, !.pc = "loop",
                  !.failed = @ \union {Entry(l).url}, !.blamed = @ \union blamed]

Trying(l) == call[l].pc = "loop" /\ call[l].i <= Len(call[l].state)

\* readstatedefault and maybeConfusion: from here on the call has its own copy.
ReadState(l) ==
  /\ call[l].pc = "start"
  /\ \E s \in MaybeConfusion(ReadStateDefault) :
       call' = [call EXCEPT ![l] = [@ EXCEPT !.state = s, !.pc = "loop"]]
  /\ UNCHANGED <<config, store, cache>>

SkippedByProxy(l) == proxy /\ Entry(l).url \notin Proxiable

\* A mutant: without the "hotfix", lookups go on under a context that is done.
SkippedByContextNever(l) == FALSE

\* The check of ctx.Err() before each lookup.
SkippedByContext(l) == call[l].ctxDone

\* A mutant: the loop does not advance.
SkipWithoutAdvancing(l) ==
  /\ Trying(l) /\ (SkippedByProxy(l) \/ SkippedByContext(l))
  /\ UNCHANGED vars

\* An entry that is not tried: behind a proxy, or because the context is done.
Skip(l) ==
  /\ Trying(l) /\ (SkippedByProxy(l) \/ SkippedByContext(l))
  /\ call' = [call EXCEPT ![l].i = @ + 1]
  /\ UNCHANGED <<config, store, cache>>

\* getresolver, under the mutex: the child from the cache, or a new one. When it
\* cannot be made, "this is a hard error" and the score is zero.
GetResolver(l) ==
  /\ Trying(l) /\ ~SkippedByProxy(l) /\ ~SkippedByContext(l)
  /\ LET u == Entry(l).url
     IN  IF u \in res \/ u \notin Broken
           THEN /\ res' = res \union {u}
                /\ call' = [call EXCEPT ![l].pc = "lookup"]
           ELSE /\ call' = [call EXCEPT ![l] = WithError(l, 0, {})]
                /\ UNCHANGED res
  /\ UNCHANGED <<config, store, once, closes>>

\* A mutant: a failure weighs as a success.
DecreaseUp(score) == 9 * (Scale \div 10) + score \div 10

Decrease(score) == score \div 10

Increase(score) == 9 * (Scale \div 10) + score \div 10

\* timeLimitedLookup returns addresses, also if the context is done meanwhile.
LookupSucceeds(l) ==
  /\ call[l].pc = "lookup"
  /\ call' = [call EXCEPT ![l] = [@ EXCEPT !.state = Rescored(l, Increase(Entry(l).score)),
                                           !.pc = "return", !.result = "addrs"]]
  /\ UNCHANGED <<config, store, cache>>

\* It fails, because of the network, of its timeout, or of the context.
LookupFails(l) ==
  /\ call[l].pc = "lookup"
  /\ \E blamed \in {{}} \union (IF call[l].ctxDone THEN {{Entry(l).url}} ELSE {}) :
       call' = [call EXCEPT ![l] = WithError(l, Decrease(Entry(l).score), blamed)]
  /\ UNCHANGED <<config, store, cache>>

\* A mutant: the last entry is not tried.
ExhaustedOffByOne(l) == call[l].pc = "loop" /\ call[l].i >= Len(call[l].state)

\* The end of the range loop.
Exhausted(l) == call[l].pc = "loop" /\ call[l].i > Len(call[l].state)

GiveUp(l) ==
  /\ Exhausted(l)
  /\ call' = [call EXCEPT ![l].pc = "return", ![l].result = "error"]
  /\ UNCHANGED <<config, store, cache>>

\* The deferred writestate, which may fail; then LookupHost returns.
WriteState(l) ==
  /\ call[l].pc = "return"
  /\ call' = [call EXCEPT ![l].pc = "returned"]
  /\ store' \in {store, call[l].state}
  /\ UNCHANGED <<config, cache>>

----------------------------------------------------------------------------
(* The caller.                                                             *)

CancelContext(l) ==
  /\ call[l].pc \in {"loop", "lookup"} /\ ~call[l].ctxDone
  /\ call' = [call EXCEPT ![l].ctxDone = TRUE]
  /\ UNCHANGED <<config, store, cache>>

\* closeall, which the sync.Once runs at the first call only.
CloseIdleConnections ==
  /\ closes < MaxCloses
  /\ closes' = closes + 1
  /\ once' = TRUE
  /\ res' = IF once THEN res ELSE {}
  /\ UNCHANGED <<config, store, call>>

----------------------------------------------------------------------------
LookupHost(l) ==
  \/ Skip(l) \/ GetResolver(l) \/ LookupSucceeds(l) \/ LookupFails(l)
  \/ GiveUp(l) \/ WriteState(l)

Next ==
  \/ \E l \in Lookups : ReadState(l) \/ LookupHost(l) \/ CancelContext(l)
  \/ CloseIdleConnections

Spec == Init /\ [][Next]_vars

\* A call that has started goes on; a child lookup ends because it has a timeout.
FairSpec == Spec /\ \A l \in Lookups : WF_vars(LookupHost(l))

----------------------------------------------------------------------------
(* Properties.                                                             *)

\* The type of the state of the resolver.
TypeOK ==
  /\ allmakers \in AllMakers /\ proxy \in BOOLEAN /\ store \in Seq(ResolverInfo)
  /\ call \in [Lookups -> [pc : {"start", "loop", "lookup", "return", "returned"},
                           state : Seq(ResolverInfo), i : Nat, ctxDone : BOOLEAN,
                           result : {"none", "addrs", "error"},
                           failed : SUBSET URLs, blamed : SUBSET URLs]]
  /\ \A l \in Lookups : call[l].i \in 1..Len(call[l].state) + 1
  /\ res \subseteq Supported /\ once \in BOOLEAN /\ closes \in 0..MaxCloses

\* Whatever this or another version of the program left in the file, a call works
\* on every supported resolver, once, and on nothing else: entries are never lost or
\* repeated by the merge, the sort and the swap, nor by calls that overwrite each
\* other's scores.
EachResolverOnce ==
  \A l \in Lookups : call[l].pc # "start" =>
    URLsOf(call[l].state) = Supported /\ Distinct(call[l].state)

\* LookupHost fails only after every resolver that it may use has failed, unless
\* the context is done.
ErrorMeansAllFailed ==
  \A l \in Lookups :
    call[l].result = "error" /\ ~call[l].ctxDone =>
      call[l].failed = {u \in Supported : proxy => u \in Proxiable}

\* A context that is done costs at most one resolver its score: the one that was
\* in use when it happened (see the comment that refers to ooni/probe#2544).
CancelBlamesAtMostOne ==
  \A l \in Lookups : \A u, v \in call[l].blamed : u = v

\* Scores adapt at once: when a call returns, the resolver that gave the answer is
\* ranked above all those that failed before it, whatever their past.
WinnerOutranksLosers ==
  \A l \in Lookups :
    call[l].result = "addrs" =>
      \A i \in DOMAIN call[l].state :
        call[l].state[i].url \in call[l].failed => Entry(l).score > call[l].state[i].score

\* Every call returns, whether or not the context is done and whatever is skipped.
LookupReturns ==
  \A l \in Lookups : (call[l].pc = "loop") ~> (call[l].pc = "returned")
=============================================================================
