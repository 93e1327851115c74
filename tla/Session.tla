------------------------------- MODULE Session -------------------------------
(***************************************************************************)
(* engine.Session as its concurrent users see it: the mutex, the memoised    *)
(* lookups of the probe services and of the location, and the calls that     *)
(* need an account, which register and log in through a state file in the    *)
(* key-value store (probeservices: MaybeRegister, MaybeLogin,                *)
(* GetCredsAndAuth).                                                        *)
(*                                                                         *)
(* The callers are goroutines of one process, which starts with the state     *)
(* file of processes that may have been killed at any step.  A request may    *)
(* fail; that the server may still have acted on it makes no difference:      *)
(* nobody learns of the account or the token.                                *)
(***************************************************************************)
EXTENDS Integers, Sequences, FiniteSets, BenchSelect

CONSTANTS
  Callers,      \* goroutines that use the session
  Operations,   \* what they may call: a subset of the operations below
  Services,     \* types of the available probe services
  Durations,    \* how long a service may take to answer
  MaxExpired,   \* bound: expired tokens
  None

\* The steps of each operation: FetchTorTargets, FetchOpenVPNConfig, CheckIn.
Steps == [tor     |-> <<"backends", "location", "register", "login", "fetch">>,
          vpn     |-> <<"backends", "location", "register", "login", "location",
                        "lockedrequest">>,
          checkin |-> <<"location", "backends", "location", "read", "read", "request">>]

ASSUME SessionAssumption ==
  /\ Operations \subseteq DOMAIN Steps
  /\ Services \in Seq(ServiceType)
  /\ Durations \subseteq Nat \ {0}
  /\ MaxExpired \in Nat
  /\ None \notin Nat \cup Operations

VARIABLES
  mu,         \* the caller that holds Session.mu
  selected,   \* selectedProbeService, and the availableTestHelpers it answered with
  location,   \* location is known
  op, step,   \* the operation of each caller, and how far it is
  pc,         \* where it is within the step
  state,      \* its copy of the state file, while it needs it
  stateFile,  \* ClientID, Password and Token in the key-value store
  accounts,   \* server: the password of each account
  tokens,     \* server: the account of each token
  expired,    \* the tokens too old for State.Auth
  undone      \* callers whose login may have been undone: a token has expired, or
              \* another caller wrote the state file, since they began to log in

memory == <<mu, selected, location>>
caller == <<op, step, pc, state>>
server == <<accounts, tokens>>
vars == <<memory, caller, stateFile, server, expired, undone>>

NoState == [id |-> None, password |-> None, token |-> None]

StateType == [id : Nat \cup {None}, password : Nat \cup {None}, token : Nat \cup {None}]

TypeOK ==
  /\ mu \in Callers \cup {None}
  /\ selected \in 0 .. Len(Services)
  /\ location \in BOOLEAN
  /\ op \in [Callers -> Operations \cup {None}]
  /\ \A c \in Callers : op[c] # None => step[c] \in 1 .. Len(Steps[op[c]]) + 1
  /\ pc \in [Callers -> {"idle", "enter", "locked", "asked", "write", "done", "error",
                         "not_logged_in"}]
  /\ state \in [Callers -> StateType] /\ stateFile \in StateType
  /\ accounts \in Seq(Nat) /\ tokens \in Seq(DOMAIN accounts)
  /\ expired \subseteq DOMAIN tokens
  /\ undone \subseteq Callers

\* What the processes before this one left: no file, an account (the process ended
\* before it had logged in), or also a token, which may have expired since.
LeftBehind ==
  { <<NoState, <<>>, <<>>, {}>>,
    <<[id |-> 1, password |-> 1, token |-> None], <<1>>, <<>>, {}>>,
    <<[id |-> 1, password |-> 1, token |-> 1], <<1>>, <<1>>, {}>>,
    <<[id |-> 1, password |-> 1, token |-> 1], <<1>>, <<1>>, {1}>> }

Nobody == [c \in Callers |-> None]

Init ==
  /\ mu = None /\ selected = 0 /\ location = FALSE
  /\ op = Nobody /\ step = [c \in Callers |-> 1]
  /\ pc = [c \in Callers |-> "idle"]
  /\ state = [c \in Callers |-> NoState]
  /\ \E files \in LeftBehind :
       /\ stateFile = files[1] /\ accounts = files[2] /\ tokens = files[3] /\ expired = files[4]
  /\ undone = {}

Step(c) == IF op[c] = None THEN "none" ELSE Steps[op[c]][step[c]]

\* Caller c is at the beginning of a step of kind k.
Enters(c, k) == pc[c] = "enter" /\ Step(c) = k

GoTo(c, where) == pc' = [pc EXCEPT ![c] = where] /\ UNCHANGED step

Advance(c) ==
  IF step[c] < Len(Steps[op[c]])
    THEN pc' = [pc EXCEPT ![c] = "enter"] /\ step' = [step EXCEPT ![c] = @ + 1]
    ELSE pc' = [pc EXCEPT ![c] = "done"] /\ UNCHANGED step

Fails(c) == GoTo(c, "error")

-----------------------------------------------------------------------------
Call(c) ==
  /\ pc[c] = "idle"
  /\ \E o \in Operations : op' = [op EXCEPT ![c] = o]
  /\ GoTo(c, "enter")
  /\ UNCHANGED <<memory, state, stateFile, server, expired, undone>>

\* Fewer than 30 seconds are left of a token.
Expire ==
  /\ Cardinality(expired) < MaxExpired
  /\ \E t \in DOMAIN tokens \ expired : expired' = expired \cup {t}
  /\ undone' = Callers
  /\ UNCHANGED <<memory, caller, stateFile, server>>

-----------------------------------------------------------------------------
\* The steps under the mutex.

Locks == {"backends", "location", "read", "lockedrequest"}

\* A cancelled context, which newProbeServicesClient and MaybeLookupLocationContext look
\* at before they take the mutex, and even if what they look up is known.
Cancelled(c) ==
  /\ pc[c] = "enter" /\ Step(c) \in {"backends", "location"}
  /\ Fails(c)
  /\ UNCHANGED <<memory, op, state, stateFile, server, expired, undone>>

Lock(c) ==
  /\ pc[c] = "enter" /\ Step(c) \in Locks
  /\ mu = None
  /\ mu' = c
  /\ GoTo(c, "locked")
  /\ UNCHANGED <<selected, location, op, state, stateFile, server, expired, undone>>

\* What it may be like to try the services.
Results == [DOMAIN Services -> Durations \cup {0}]

Locked(c, k) == mu = c /\ pc[c] = "locked" /\ Step(c) = k

Unlock(c) == mu' = None

AlreadySelected(c) ==
  /\ Locked(c, "backends") /\ selected # 0
  /\ Unlock(c) /\ Advance(c)
  /\ UNCHANGED <<selected, location, op, state, stateFile, server, expired, undone>>

\* A mutant: every call chooses the probe services anew.
M_LookupBackends(c) ==
  /\ Locked(c, "backends")
  /\ \E res \in Results : selected' = SelectBest(Services, res)
  /\ selected' # 0
  /\ Unlock(c) /\ Advance(c)
  /\ UNCHANGED <<location, op, state, stateFile, server, expired, undone>>

\* MaybeLookupBackendsContext tries the services.
LookupBackends(c) ==
  /\ Locked(c, "backends") /\ selected = 0
  /\ \E res \in Results : selected' = SelectBest(Services, res)
  /\ selected' # 0
  /\ Unlock(c) /\ Advance(c)
  /\ UNCHANGED <<location, op, state, stateFile, server, expired, undone>>

\* ErrAllProbeServicesFailed.
AllServicesFailed(c) ==
  /\ Locked(c, "backends") /\ selected = 0
  /\ Unlock(c) /\ Fails(c)
  /\ UNCHANGED <<selected, location, op, state, stateFile, server, expired, undone>>

LookupLocation(c) ==
  /\ Locked(c, "location")
  /\ location' = TRUE
  /\ Unlock(c) /\ Advance(c)
  /\ UNCHANGED <<selected, op, state, stateFile, server, expired, undone>>

LookupLocationFails(c) ==
  /\ Locked(c, "location") /\ ~location
  /\ Unlock(c) /\ Fails(c)
  /\ UNCHANGED <<selected, location, op, state, stateFile, server, expired, undone>>

\* CheckIn fills in ProbeASN, then ProbeCC; each getter takes the mutex.
ReadLocation(c) ==
  /\ Locked(c, "read")
  /\ Unlock(c) /\ Advance(c)
  /\ UNCHANGED <<selected, location, op, state, stateFile, server, expired, undone>>

\* ... unless the caller's config has it.
Configured(c) ==
  /\ Enters(c, "read")
  /\ Advance(c)
  /\ UNCHANGED <<memory, op, state, stateFile, server, expired, undone>>

-----------------------------------------------------------------------------
\* MaybeRegister and MaybeLogin: read the state file, ask the server, write it.

Credentials(s) == s.id # None /\ s.password # None
Auth(s) == s.token # None /\ s.token \notin expired

AlreadyRegistered(c) ==
  /\ Enters(c, "register") /\ Credentials(stateFile)
  /\ Advance(c)
  /\ UNCHANGED <<memory, op, state, stateFile, server, expired, undone>>

\* StateFile.Get: when the key-value store fails, the state is empty.
ReadForRegister(c) ==
  /\ Enters(c, "register")
  /\ \E s \in {stateFile, NoState} : ~Credentials(s) /\ state' = [state EXCEPT ![c] = s]
  /\ GoTo(c, "asked")
  /\ UNCHANGED <<memory, op, stateFile, server, expired, undone>>

Asked(c, k) == pc[c] = "asked" /\ Step(c) = k

\* The server creates an account with the password of the request; passwords are
\* random, so that each one is different.
Register(c) ==
  /\ Asked(c, "register")
  /\ accounts' = Append(accounts, Len(accounts) + 1)
  /\ state' = [state EXCEPT ![c].id = Len(accounts'), ![c].password = Len(accounts')]
  /\ GoTo(c, "write")
  /\ UNCHANGED <<memory, op, stateFile, tokens, expired, undone>>

RegisterFails(c) ==
  /\ Asked(c, "register")
  /\ state' = [state EXCEPT ![c] = NoState]
  /\ Fails(c)
  /\ UNCHANGED <<memory, op, stateFile, server, expired, undone>>

\* A mutant: the expiry of the token is not looked at.
M_AlreadyLoggedIn(c) ==
  /\ Enters(c, "login") /\ stateFile.token # None
  /\ undone' = undone \ {c}
  /\ Advance(c)
  /\ UNCHANGED <<memory, op, state, stateFile, server, expired>>

AlreadyLoggedIn(c) ==
  /\ Enters(c, "login") /\ Auth(stateFile)
  /\ undone' = undone \ {c}
  /\ Advance(c)
  /\ UNCHANGED <<memory, op, state, stateFile, server, expired>>

ReadForLogin(c) ==
  /\ Enters(c, "login") /\ ~Auth(stateFile) /\ Credentials(stateFile)
  /\ state' = [state EXCEPT ![c] = stateFile]
  /\ undone' = undone \ {c}
  /\ GoTo(c, "asked")
  /\ UNCHANGED <<memory, op, stateFile, server, expired>>

\* ErrNotRegistered: the file cannot be read.
NotRegistered(c) ==
  /\ Enters(c, "login")
  /\ Fails(c)
  /\ UNCHANGED <<memory, op, state, stateFile, server, expired, undone>>

Login(c) ==
  /\ Asked(c, "login")
  /\ tokens' = Append(tokens, state[c].id)
  /\ state' = [state EXCEPT ![c].token = Len(tokens')]
  /\ GoTo(c, "write")
  /\ UNCHANGED <<memory, op, stateFile, accounts, expired, undone>>

LoginFails(c) ==
  /\ Asked(c, "login")
  /\ state' = [state EXCEPT ![c] = NoState]
  /\ Fails(c)
  /\ UNCHANGED <<memory, op, stateFile, server, expired, undone>>

\* A mutant: a login writes its token into whatever the file has now.
M_WriteState(c) ==
  /\ pc[c] = "write"
  /\ stateFile' = IF Step(c) = "login" THEN [stateFile EXCEPT !.token = state[c].token]
                                        ELSE state[c]
  /\ state' = [state EXCEPT ![c] = NoState]
  /\ undone' = undone \cup (Callers \ {c})
  /\ Advance(c)
  /\ UNCHANGED <<memory, op, server, expired>>

\* What the caller read and the server's answer replace the whole state.
WriteState(c) ==
  /\ pc[c] = "write"
  /\ stateFile' = state[c]
  /\ state' = [state EXCEPT ![c] = NoState]
  /\ undone' = undone \cup (Callers \ {c})
  /\ Advance(c)
  /\ UNCHANGED <<memory, op, server, expired>>

WriteFails(c) ==
  /\ pc[c] = "write"
  /\ state' = [state EXCEPT ![c] = NoState]
  /\ Fails(c)
  /\ UNCHANGED <<memory, op, stateFile, server, expired, undone>>

-----------------------------------------------------------------------------
\* The requests.  That of FetchTorTargets needs the token: GetCredsAndAuth reads the
\* state file again, without the mutex.

LoggedIn == Credentials(stateFile) /\ Auth(stateFile)

Fetch(c) ==
  /\ Enters(c, "fetch")
  /\ \/ LoggedIn /\ Advance(c)
     \/ Fails(c)
  /\ UNCHANGED <<memory, op, state, stateFile, server, expired, undone>>

\* ErrNotRegistered or ErrNotLoggedIn, although the file could be read.
NotLoggedIn(c) ==
  /\ Enters(c, "fetch") /\ ~LoggedIn
  /\ GoTo(c, "not_logged_in")
  /\ UNCHANGED <<memory, op, state, stateFile, server, expired, undone>>

\* CheckIn.
Request(c) ==
  /\ Enters(c, "request")
  /\ Advance(c) \/ Fails(c)
  /\ UNCHANGED <<memory, op, state, stateFile, server, expired, undone>>

\* A mutant: the mutex is not released when the request fails.
M_LockedRequest(c) ==
  /\ Locked(c, "lockedrequest")
  /\ \/ Advance(c) /\ Unlock(c)
     \/ Fails(c) /\ UNCHANGED mu
  /\ UNCHANGED <<selected, location, op, state, stateFile, server, expired, undone>>

\* FetchOpenVPNConfig holds the mutex while the request lasts.
LockedRequest(c) ==
  /\ Locked(c, "lockedrequest")
  /\ Unlock(c)
  /\ Advance(c) \/ Fails(c)
  /\ UNCHANGED <<selected, location, op, state, stateFile, server, expired, undone>>

-----------------------------------------------------------------------------

Lookups(c) ==
  \/ Lock(c) \/ AlreadySelected(c) \/ LookupBackends(c) \/ AllServicesFailed(c)
  \/ LookupLocation(c) \/ LookupLocationFails(c) \/ ReadLocation(c)

Orchestra(c) ==
  \/ AlreadyRegistered(c) \/ ReadForRegister(c) \/ Register(c) \/ RegisterFails(c)
  \/ AlreadyLoggedIn(c) \/ ReadForLogin(c) \/ NotRegistered(c)
  \/ Login(c) \/ LoginFails(c)
  \/ WriteState(c) \/ WriteFails(c)
  \/ Fetch(c) \/ NotLoggedIn(c) \/ Request(c) \/ LockedRequest(c)

Next ==
  \/ \E c \in Callers : Call(c) \/ Cancelled(c) \/ Configured(c) \/ Lookups(c) \/ Orchestra(c)
  \/ Expire

Spec == Init /\ [][Next]_vars

\* A call that was made goes on: requests end, with an answer or an error.  The
\* mutex is given to some caller that wants it, and to each of them eventually.
\* Nobody has to cancel a context, or to fill in the config of a check-in.
FairSpec ==
  /\ Spec
  /\ \A c \in Callers : SF_vars(Lock(c)) /\ WF_vars(Lookups(c) \/ Orchestra(c))

-----------------------------------------------------------------------------
\* What callers that overwrite each other's state, and requests that fail, leave in
\* the state file belongs together: the password is that of the account,
\* and the token was issued to this account.
StateIsOneAccount ==
  /\ Credentials(stateFile) => accounts[stateFile.id] = stateFile.password
  /\ stateFile.token # None => tokens[stateFile.token] = stateFile.id

\* A service is selected only by answers for which it is the best: the fastest https
\* service that works, or the first fallback that does if there is no such service.  And it
\* is selected for good, although the callers read it without the mutex: all the
\* clients of a session use the same.
SelectsTheBest ==
  [][selected' # selected =>
       /\ selected = 0
       /\ \A res \in Results :
            selected' = SelectBest(Services, res) => IsBest(Services, res, selected')]_vars

\* "This client is registered and logged in with the OONI orchestra": the API call
\* that follows finds the account and the token, unless a token grew old in the
\* meantime or another caller wrote its own, older view of the state.
LoggedInUnlessUndone ==
  \A c \in Callers : pc[c] = "not_logged_in" => c \in undone

\* A call returns: nobody waits for the mutex for ever, the operations that look up
\* the location again on their way included.
EveryCallReturns ==
  \A c \in Callers :
    (pc[c] = "enter") ~> (pc[c] \in {"idle", "done", "error", "not_logged_in"})
=============================================================================
