------------------------ MODULE PrivacyWorker_proofs ------------------------
(***************************************************************************)
(* Proofs about the worker client and its hand-over, for any models,       *)
(* requests and texts, and any number of policies and failures.            *)
(*                                                                         *)
(* WorkerInv is not inductive.  A worker is tracked only because the       *)
(* goroutine that started it still holds its client's slot and knows its   *)
(* number (ActorOK), a client that is open is kept because it serves, is   *)
(* about to be closed or has a goroutine that waits for it (KeptOK), and   *)
(* the client of a new policy is new because clients are created in order, *)
(* one per policy (Numbered).  That a request is refused for a cause needs *)
(* what an undisturbed request may rely on: that the policy it has read is *)
(* the one that serves, with a target of which nothing has failed (CalmOK).*)
(***************************************************************************)
EXTENDS PrivacyWorker, FiniteSetTheorems, WellFoundedInduction, TLAPS

\* Where a goroutine holds its client's slot, and where it is with a client.
WithSlot == {"ensure", "validate", "start", "starting", "adopt", "exchange", "store"}
Busy == WithSlot \cup {"check", "slot"}

ClientState ==
    [open : BOOLEAN, model : Model \cup {Off}, failed : BOOLEAN, verified : BOOLEAN,
     slot : Actor \cup {Nobody}, process : Nat, starting : Nat, started : Nat,
     cache : SUBSET Text]
Place ==
    [pc : Busy \cup Ended \cup {"read", "prepared", "failed", "retiring"},
     on : {0} \cup Client, target : {0} \cup Client, counted : BOOLEAN, want : Policy,
     worker : Nat, attempt : {0, 1}, left : SUBSET Text]

WorkerTypeOK ==
    /\ stored \in Policy /\ installed \subseteq Model /\ policy \in Policy
    /\ changing = <<>> \/ \E p \in Policy : changing = <<p>>
    /\ target \in {0} \cup Client
    /\ prep \in [of : {0} \cup Client, state : {"none", "preparing", "ready", "failed"}]
    /\ fallback \in {0, Regex} \cup Client /\ released \subseteq Client
    /\ client \in [Client -> ClientState] /\ alive \subseteq Client \X Nat
    /\ at \in [Actor -> Place]
    /\ upset \subseteq Request /\ broken \subseteq Client /\ policies \in Nat /\ troubles \in Nat

\* Where a goroutine stands: it is with a client there is; with the client's slot
\* where the code holds it; and the worker it waits for is the one the client has,
\* unless the client was closed or something of it failed.
ActorOK(x) ==
    /\ at[x].pc \in Busy =>
        /\ at[x].on \in Client /\ client[at[x].on].model # Off
        /\ at[x].counted => at[x].target \in Client /\ client[at[x].target].model # Off
    /\ at[x].pc \in WithSlot => client[at[x].on].slot = x
    /\ x \in Request =>
        /\ at[x].pc \notin {"prepared", "failed", "retiring"}
        /\ at[x].pc \in Busy => at[x].left # {}
    /\ x \in Client =>
        /\ at[x].pc # "idle" => client[x].model # Off
        /\ at[x].pc \in {"idle", "slot", "ensure", "validate", "start", "starting", "adopt",
                         "prepared", "failed", "retiring"}
        /\ at[x].pc \notin {"idle", "retiring"} => at[x].on = x /\ ~at[x].counted
        /\ at[x].pc = "retiring" =>
             at[x].on \in Client /\ at[x].on # target /\ client[at[x].on].model # Off
    /\ at[x].pc \in {"starting", "adopt", "exchange"} =>
        /\ at[x].worker # 0
        /\ client[at[x].on].open /\ at[x].on \notin broken =>
            /\ <<at[x].on, at[x].worker>> \in alive
            /\ at[x].worker = IF at[x].pc = "exchange" THEN client[at[x].on].process
                              ELSE client[at[x].on].starting

WorkerOK(c) ==
    /\ \A w \in Nat : <<c, w>> \in alive => w # 0 /\ Tracked(c, w)
    /\ client[c].process = 0 \/ client[c].starting = 0
    /\ ~client[c].open => client[c].process = 0 /\ client[c].starting = 0
    /\ client[c].process # 0 => <<c, client[c].process>> \in alive \/ c \in broken
    /\ client[c].starting # 0 => <<c, client[c].starting>> \in alive \/ c \in broken
    /\ client[c].model \in installed \cup {Off} \/ c \in broken
    /\ client[c].failed => c \in broken

KeptOK(c) ==
    /\ client[c].open =>
         \/ c \in {target, fallback} \cup released
         \/ \E p \in Client : at[p].pc = "retiring" /\ at[p].on = c
    /\ client[c].model = Off => ~client[c].open /\ c \notin released \cup {target, fallback}

CalmOK(r) ==
    r \notin upset =>
        /\ at[r].pc # "refused"
        /\ at[r].pc \notin Ended =>
            /\ changing = <<>> /\ stored = policy /\ at[r].want = policy /\ policy \in installed
            /\ target \notin broken
            /\ at[r].pc # "read" =>
                 at[r].target = target /\ (~at[r].counted => at[r].on = target)

\* The clients that were created are the first n, one per policy applied at most.
Numbered ==
    \E n \in Nat :
        /\ \A c \in Client : client[c].model # Off <=> c <= n
        /\ n + (IF changing = <<>> THEN 0 ELSE 1) <= policies

HandoverOK ==
    /\ Numbered
    /\ policies <= MaxPolicies
    /\ changing # <<>> => released = {} /\ (changing[1] \in Model => changing[1] \in installed)
    /\ policy \in Model => target # 0
    /\ target # 0 => client[target].open /\ client[target].model = policy /\ target \notin released
    /\ fallback # target \/ fallback = 0
    /\ prep.of \in {0, target} /\ (prep = NoPrep => fallback = 0)

WorkerIInv ==
    /\ WorkerTypeOK
    /\ \A x \in Actor : ActorOK(x)
    /\ \A c \in Client : WorkerOK(c) /\ KeptOK(c)
    /\ HandoverOK
    /\ \A r \in Request : CalmOK(r)

-----------------------------------------------------------------------------
LEMMA LeastNatural ==
    ASSUME NEW S \in SUBSET Nat, S # {}
    PROVE  \E c \in S : \A d \in S : c <= d
<1> DEFINE R == OpToRel(<, Nat)
<1>1. IsWellFoundedOn(R, Nat)
  BY NatLessThanWellFounded
<1> HIDE DEF R
<1>2. \E x \in S : \A y \in S : ~ (<<y, x>> \in R)
  BY <1>1, WFMin
<1>3. PICK x \in S : \A y \in S : <<y, x>> \notin R
  BY <1>2
<1>4. \A y, z \in Nat : <<y, z>> \in R <=> y < z
  BY DEF R, OpToRel
<1>5. ASSUME NEW y \in S PROVE x <= y
  <2>1. x \in Nat /\ y \in Nat
    OBVIOUS
  <2>2. ~(y < x)
    BY <1>3, <1>4, <2>1
  <2>3. QED
    BY <2>1, <2>2
<1>6. QED
  BY <1>5

LEMMA BatchIn ==
    ASSUME WorkerAssumption, WorkerTypeOK, NEW x \in Actor, at[x].left # {}
    PROVE  Batch(x) \in at[x].left /\ Batch(x) \in Text
<1>1. at[x].left \in SUBSET Nat /\ at[x].left \subseteq Text
  BY DEF WorkerTypeOK, Place, WorkerAssumption
<1>2. \E t \in at[x].left : \A u \in at[x].left : t <= u
  BY <1>1, LeastNatural
<1> QED
  BY <1>1, <1>2 DEF Batch

LEMMA Distinct ==
    ASSUME WorkerAssumption
    PROVE  /\ Client \subseteq Nat \ {0} /\ Request \cap Client = {}
           /\ Nobody \notin Actor /\ Regex \notin {0} \cup Client
           /\ Actor = Request \cup Client
BY DEF WorkerAssumption, Client, Actor

\* What the helpers make of a client.
LEMMA FreedFacts ==
    ASSUME NEW cl \in [Client -> ClientState], NEW x \in Actor
    PROVE  /\ Freed(x, cl) \in [Client -> ClientState]
           /\ \A d \in Client :
               /\ Freed(x, cl)[d].open = cl[d].open /\ Freed(x, cl)[d].model = cl[d].model
               /\ Freed(x, cl)[d].failed = cl[d].failed
               /\ Freed(x, cl)[d].process = cl[d].process
               /\ Freed(x, cl)[d].starting = cl[d].starting
               /\ Freed(x, cl)[d].slot \in {cl[d].slot, Nobody}
               /\ cl[d].slot # x => Freed(x, cl)[d].slot = cl[d].slot
<1>1. ASSUME NEW d \in Client
      PROVE  [cl[d] EXCEPT !.slot = Nobody] \in ClientState
  BY DEF ClientState
<1> QED
  BY <1>1 DEF Freed, ClientState

\* An update of one client.
LEMMA Update ==
    ASSUME NEW cl \in [Client -> ClientState], NEW c \in Client, NEW R \in ClientState
    PROVE  /\ [cl EXCEPT ![c] = R] \in [Client -> ClientState]
           /\ [cl EXCEPT ![c] = R][c] = R
           /\ \A d \in Client \ {c} : [cl EXCEPT ![c] = R][d] = cl[d]
OBVIOUS

LEMMA StoppedFacts ==
    ASSUME WorkerTypeOK, NEW c \in Client
    PROVE  /\ Stopped(c) \in [Client -> ClientState]
           /\ \A d \in Client \ {c} : Stopped(c)[d] = client[d]
           /\ Stopped(c)[c].open = client[c].open /\ Stopped(c)[c].model = client[c].model
           /\ Stopped(c)[c].slot = client[c].slot /\ Stopped(c)[c].failed = client[c].failed
           /\ Stopped(c)[c].process = 0 /\ Stopped(c)[c].starting = 0
<1> DEFINE R == [client[c] EXCEPT !.process = 0, !.starting = 0]
<1>1. client \in [Client -> ClientState] /\ client[c] \in ClientState
  BY DEF WorkerTypeOK
<1>2. /\ R \in ClientState
      /\ R.open = client[c].open /\ R.model = client[c].model
      /\ R.slot = client[c].slot /\ R.failed = client[c].failed
      /\ R.process = 0 /\ R.starting = 0
  BY <1>1 DEF ClientState
<1>3. Stopped(c) = [client EXCEPT ![c] = R]
  BY DEF Stopped, WorkerTypeOK
<1> HIDE DEF R
<1>4. QED
  BY <1>1, <1>2, <1>3, Update

LEMMA UntrackedFacts ==
    ASSUME WorkerTypeOK, NEW c \in Client, NEW w \in Nat
    PROVE  /\ Untracked(c, w) \in [Client -> ClientState]
           /\ \A d \in Client \ {c} : Untracked(c, w)[d] = client[d]
           /\ Untracked(c, w)[c].open = client[c].open /\ Untracked(c, w)[c].model = client[c].model
           /\ Untracked(c, w)[c].slot = client[c].slot /\ Untracked(c, w)[c].failed = client[c].failed
           /\ Untracked(c, w)[c].process = (IF client[c].process = w THEN 0 ELSE client[c].process)
           /\ Untracked(c, w)[c].starting = (IF client[c].starting = w THEN 0 ELSE client[c].starting)
<1> DEFINE R == [client[c] EXCEPT !.process = IF @ = w THEN 0 ELSE @, !.starting = IF @ = w THEN 0 ELSE @]
<1>1. client \in [Client -> ClientState] /\ client[c] \in ClientState
  BY DEF WorkerTypeOK
<1>2. /\ R \in ClientState
      /\ R.open = client[c].open /\ R.model = client[c].model
      /\ R.slot = client[c].slot /\ R.failed = client[c].failed
      /\ R.process = (IF client[c].process = w THEN 0 ELSE client[c].process)
      /\ R.starting = (IF client[c].starting = w THEN 0 ELSE client[c].starting)
  BY <1>1 DEF ClientState
<1>3. Untracked(c, w) = [client EXCEPT ![c] = R]
  BY DEF Untracked, WorkerTypeOK
<1> HIDE DEF R
<1>4. QED
  BY <1>1, <1>2, <1>3, Update

LEMMA LatchedFacts ==
    ASSUME WorkerTypeOK, NEW c \in Client
    PROVE  /\ Latched(c) \in [Client -> ClientState]
           /\ \A d \in Client \ {c} : Latched(c)[d] = client[d]
           /\ Latched(c)[c].open = client[c].open /\ Latched(c)[c].model = client[c].model
           /\ Latched(c)[c].slot = client[c].slot
           /\ Latched(c)[c].process = client[c].process /\ Latched(c)[c].starting = client[c].starting
<1> DEFINE R == [client[c] EXCEPT !.failed = @ \/ client[c].open]
<1>1. client \in [Client -> ClientState] /\ client[c] \in ClientState
  BY DEF WorkerTypeOK
<1>2. /\ R \in ClientState
      /\ R.open = client[c].open /\ R.model = client[c].model
      /\ R.slot = client[c].slot
      /\ R.process = client[c].process /\ R.starting = client[c].starting
  BY <1>1 DEF ClientState
<1>3. Latched(c) = [client EXCEPT ![c] = R]
  BY DEF Latched, WorkerTypeOK
<1> HIDE DEF R
<1>4. QED
  BY <1>1, <1>2, <1>3, Update

LEMMA FailedClientFacts ==
    ASSUME WorkerTypeOK, NEW c \in Client, NEW w \in Nat, Tracked(c, w)
    PROVE  /\ FailedClient(c, w) \in [Client -> ClientState]
           /\ \A d \in Client \ {c} : FailedClient(c, w)[d] = client[d]
           /\ FailedClient(c, w)[c].open = client[c].open
           /\ FailedClient(c, w)[c].model = client[c].model
           /\ FailedClient(c, w)[c].slot = client[c].slot
           /\ FailedClient(c, w)[c].failed => client[c].failed \/ client[c].open
           /\ FailedClient(c, w)[c].process = 0 /\ FailedClient(c, w)[c].starting = 0
<1> DEFINE S == Stopped(c)
           R == [S[c] EXCEPT !.failed = @ \/ client[c].open]
<1>1. S \in [Client -> ClientState] /\ client[c] \in ClientState
  BY StoppedFacts DEF WorkerTypeOK
<1>2. R \in ClientState /\ R.open = S[c].open /\ R.model = S[c].model /\ R.slot = S[c].slot
      /\ R.process = S[c].process /\ R.starting = S[c].starting
      /\ (R.failed => S[c].failed \/ client[c].open)
  BY <1>1 DEF ClientState
<1>3. FailedClient(c, w) = [S EXCEPT ![c] = R]
  BY <1>1 DEF FailedClient
<1> HIDE DEF R
<1>4. QED
  BY <1>1, <1>2, <1>3, Update, StoppedFacts

LEMMA ClosedFacts ==
    ASSUME WorkerTypeOK, NEW c \in Client
    PROVE  /\ Closed(c) \in [Client -> ClientState]
           /\ \A d \in Client \ {c} : Closed(c)[d] = client[d]
           /\ ~Closed(c)[c].open /\ Closed(c)[c].model = client[c].model
           /\ Closed(c)[c].slot = client[c].slot /\ ~Closed(c)[c].failed
           /\ Closed(c)[c].process = 0 /\ Closed(c)[c].starting = 0
<1> DEFINE S == Stopped(c)
           R == [S[c] EXCEPT !.open = FALSE, !.failed = FALSE, !.verified = FALSE, !.cache = {}]
<1>1. S \in [Client -> ClientState]
  BY StoppedFacts
<1>2. R \in ClientState /\ ~R.open /\ R.model = S[c].model /\ R.slot = S[c].slot /\ ~R.failed
      /\ R.process = S[c].process /\ R.starting = S[c].starting
  BY <1>1 DEF ClientState
<1>3. Closed(c) = [S EXCEPT ![c] = R]
  BY <1>1 DEF Closed
<1> HIDE DEF R
<1>4. QED
  BY <1>1, <1>2, <1>3, Update, StoppedFacts

-----------------------------------------------------------------------------
(* A step of one goroutine x touches its own place, the client it is with   *)
(* and the history, and of the client only what the slot entitles it to.    *)

Rests == UNCHANGED <<stored, changing, installed, handover, policies>>

Own(x) ==
    /\ at' \in [Actor -> Place] /\ \A y \in Actor \ {x} : at'[y] = at[y]
    /\ ActorOK(x)' /\ (x \in Request => CalmOK(x)')

SameWorker(c) ==
    /\ client'[c].process = client[c].process /\ client'[c].starting = client[c].starting
    /\ client'[c].failed = client[c].failed
    /\ \A w \in Nat : <<c, w>> \in alive' <=> <<c, w>> \in alive

History(c) ==
    /\ troubles' \in Nat
    /\ \/ upset' = upset /\ broken' = broken
       \/ upset' = upset \cup Running /\ broken' = broken \cup {c}

Shared(x, c) ==
    /\ client' \in [Client -> ClientState] /\ alive' \subseteq Client \X Nat
    /\ \A d \in Client :
        /\ client'[d].open = client[d].open /\ client'[d].model = client[d].model
        /\ client[d].slot \notin {x, Nobody} => client'[d].slot = client[d].slot
        /\ d # c => SameWorker(d)
    /\ client[c].slot = x \/ SameWorker(c)
    /\ WorkerOK(c)'

LEMMA FrameKeeps ==
    ASSUME WorkerAssumption, WorkerIInv, NEW x \in Actor, NEW c \in Client,
           at[x].pc \in Busy, c = at[x].on, Rests, Own(x), History(c), Shared(x, c)
    PROVE  WorkerIInv'
<1>1. WorkerTypeOK'
  BY DEF WorkerIInv, WorkerTypeOK, Rests, handover, Own, History, Shared, Running
<1>2. ASSUME NEW y \in Actor, y # x PROVE ActorOK(y)'
  <2>1. at'[y] = at[y] /\ ActorOK(y) /\ target' = target /\ broken \subseteq broken'
    BY <1>2 DEF Own, WorkerIInv, Rests, handover, History
  <2>2. \A d \in Client : client'[d].model = client[d].model /\ client'[d].open = client[d].open
    BY DEF Shared
  <2>3. at[y].pc \in Busy => at[y].on \in Client
    BY <2>1 DEF ActorOK
  <2>4. at[y].pc \in WithSlot => client'[at[y].on].slot = y /\ SameWorker(at[y].on)
    <3> HAVE at[y].pc \in WithSlot
    <3>1. at[y].on \in Client /\ client[at[y].on].slot = y /\ y # Nobody
      BY <2>1, <2>3, Distinct DEF ActorOK, Busy
    <3> QED
      BY <1>2, <3>1 DEF Shared
  <2>5. at[y].worker \in Nat
    BY DEF WorkerIInv, WorkerTypeOK, Place
  <2> QED
    BY <2>1, <2>2, <2>3, <2>4, <2>5, Distinct DEF ActorOK, SameWorker, WithSlot, Busy
<1>3. \A y \in Actor : ActorOK(y)'
  BY <1>2 DEF Own
<1>4. ASSUME NEW d \in Client PROVE WorkerOK(d)'
  <2>1. CASE d = c
    BY <2>1 DEF Shared
  <2>2. CASE d # c
    <3>1. SameWorker(d) /\ client'[d].open = client[d].open /\ client'[d].model = client[d].model
      BY <2>2 DEF Shared
    <3>2. WorkerOK(d) /\ broken \subseteq broken' /\ installed' = installed
      BY DEF WorkerIInv, History, Rests
    <3>3. client[d].process \in Nat /\ client[d].starting \in Nat
      BY DEF WorkerIInv, WorkerTypeOK, ClientState
    <3> QED
      BY <3>1, <3>2, <3>3 DEF WorkerOK, SameWorker, Tracked
  <2> QED
    BY <2>1, <2>2
<1>5. ASSUME NEW d \in Client PROVE KeptOK(d)'
  <2>1. \A p \in Client : at[p].pc = "retiring" => at'[p] = at[p]
    BY Distinct DEF Own, Busy, WithSlot
  <2>2. KeptOK(d) /\ client'[d].open = client[d].open /\ client'[d].model = client[d].model
    BY DEF WorkerIInv, Shared
  <2> QED
    BY <2>1, <2>2 DEF KeptOK, Rests, handover
<1>6. HandoverOK'
  BY DEF WorkerIInv, HandoverOK, Numbered, Rests, handover, Shared, WorkerTypeOK
<1>7. ASSUME NEW r \in Request PROVE CalmOK(r)'
  <2>1. CASE r = x
    BY <2>1 DEF Own
  <2>2. CASE r # x
    <3>1. at'[r] = at[r] /\ CalmOK(r)
      BY <2>2, Distinct DEF Own, WorkerIInv
    <3>2. upset \subseteq upset' /\ (broken' # broken /\ at[r].pc \notin Ended => r \in upset')
      BY DEF History, Running
    <3> QED
      BY <3>1, <3>2 DEF CalmOK, Rests, handover
  <2> QED
    BY <2>1, <2>2
<1> QED
  BY <1>1, <1>3, <1>4, <1>5, <1>6, <1>7 DEF WorkerIInv

\* Where the goroutine goes, still with the same client.
Moved(x, c) ==
    /\ at' \in [Actor -> Place] /\ \A y \in Actor \ {x} : at'[y] = at[y]
    /\ at'[x].on = at[x].on /\ at'[x].target = at[x].target /\ at'[x].want = at[x].want
    /\ at'[x].counted = at[x].counted /\ (x \in Request => at'[x].left # {})
    /\ at'[x].pc \in Busy
    /\ at'[x].pc \in WithSlot => client'[c].slot = x
    /\ x \in Client => at'[x].pc \notin {"check", "exchange", "store"}
    /\ at'[x].pc \in {"starting", "adopt", "exchange"} =>
        /\ at'[x].worker # 0
        /\ client'[c].open /\ c \notin broken' =>
            /\ <<c, at'[x].worker>> \in alive'
            /\ at'[x].worker = IF at'[x].pc = "exchange" THEN client'[c].process
                               ELSE client'[c].starting

LEMMA GoesOwn ==
    ASSUME WorkerAssumption, WorkerIInv, NEW x \in Actor, NEW c \in Client,
           at[x].pc \in Busy, c = at[x].on, Rests, Shared(x, c), History(c), Moved(x, c)
    PROVE  Own(x)
<1>0. \A d \in Client : client'[d].model = client[d].model
  BY DEF Shared
<1>1. ActorOK(x) /\ at'[x].on = c
  BY DEF WorkerIInv, Moved
<1>2. ActorOK(x)'
  BY <1>0, <1>1, Distinct DEF ActorOK, Moved, Busy, WithSlot
<1>3. ASSUME x \in Request PROVE CalmOK(x)'
  <2>1. CalmOK(x) /\ at[x].pc \notin Ended \cup {"read"}
    BY <1>3 DEF WorkerIInv, Ended, Busy, WithSlot
  <2>2. upset \subseteq upset' /\ (broken' # broken => x \in upset')
    BY <1>3, <2>1 DEF History, Running
  <2>3. at'[x].pc # "refused" /\ at'[x].pc # "read"
    BY DEF Moved, Busy, WithSlot
  <2> QED
    BY <2>1, <2>2, <2>3 DEF CalmOK, Moved, Rests, handover
<1> QED
  BY <1>2, <1>3 DEF Own, Moved

LEMMA RestPlace == Rest \in Place
BY DEF Rest, Place, Ended, Policy

LEMMA ReturnsOwn ==
    ASSUME WorkerAssumption, WorkerIInv, NEW x \in Request,
           at' = [at EXCEPT ![x] = [Rest EXCEPT !.pc = "done"]]
    PROVE  Own(x)
<1>1. [Rest EXCEPT !.pc = "done"] \in Place /\ [Rest EXCEPT !.pc = "done"].pc = "done"
  BY RestPlace DEF Rest, Place, Ended
<1>2. at' \in [Actor -> Place] /\ at'[x].pc = "done" /\ \A y \in Actor \ {x} : at'[y] = at[y]
  BY <1>1, Distinct DEF WorkerIInv, WorkerTypeOK
<1> QED
  BY <1>2, Distinct DEF Own, ActorOK, CalmOK, Busy, WithSlot, Ended

LEMMA UnavailableOwn ==
    ASSUME WorkerAssumption, WorkerIInv, NEW x \in Actor, NEW c \in Client,
           at[x].pc \in Busy, c = at[x].on, Rests, Shared(x, c), History(c),
           NEW clients, Unavailable(x, clients),
           x \in Request /\ ~at[x].counted => x \in upset'
    PROVE  Own(x)
<1>0. /\ at \in [Actor -> Place] /\ at[x] \in Place /\ ActorOK(x)
      /\ \A d \in Client : client'[d].model = client[d].model
  BY DEF WorkerIInv, WorkerTypeOK, Shared
<1>1. CASE x \in Client
  <2>1. at' = [at EXCEPT ![x] = [at[x] EXCEPT !.pc = "failed"]]
    BY <1>1, <1>0 DEF Unavailable
  <2>2. /\ at' \in [Actor -> Place] /\ \A y \in Actor \ {x} : at'[y] = at[y]
        /\ at'[x].pc = "failed" /\ at'[x].on = at[x].on /\ at'[x].counted = at[x].counted
    BY <1>0, <2>1 DEF Place
  <2> QED
    BY <1>0, <1>1, <2>2, Distinct DEF Own, ActorOK, Busy, WithSlot
<1>2. CASE x \in Request /\ at[x].counted
  <2> DEFINE R == [Rest EXCEPT !.pc = "check", !.on = at[x].target, !.target = at[x].target,
                          !.want = at[x].want, !.left = Text]
  <2>1. at' = [at EXCEPT ![x] = R]
    BY <1>2, <1>0, Distinct DEF Unavailable
  <2>2. at[x].target \in Client /\ client[at[x].target].model # Off /\ Text # {}
    BY <1>0, <1>2 DEF ActorOK, WorkerAssumption
  <2>3. /\ R \in Place /\ R.pc = "check" /\ R.on = at[x].target /\ R.target = at[x].target
        /\ R.want = at[x].want /\ R.left = Text /\ R.counted = FALSE
    BY <1>0, <2>2, RestPlace DEF Rest, Place, Busy
  <2> HIDE DEF R
  <2>4. at' \in [Actor -> Place] /\ at'[x] = R /\ \A y \in Actor \ {x} : at'[y] = at[y]
    BY <1>0, <2>1, <2>3
  <2>5. ActorOK(x)'
    BY <1>0, <1>2, <2>2, <2>3, <2>4, Distinct DEF ActorOK, Busy, WithSlot
  <2>6. CalmOK(x)'
    <3>1. CalmOK(x) /\ at[x].pc \notin Ended \cup {"read"}
      BY <1>2 DEF WorkerIInv, Ended, Busy, WithSlot
    <3>2. upset \subseteq upset' /\ (broken' # broken => x \in upset')
      BY <1>2, <3>1 DEF History, Running
    <3> QED
      BY <2>3, <2>4, <3>1, <3>2 DEF CalmOK, Rests, handover, Ended
  <2> QED
    BY <2>4, <2>5, <2>6 DEF Own
<1>3. CASE x \in Request /\ ~at[x].counted
  <2>1. at' = [at EXCEPT ![x] = [Rest EXCEPT !.pc = "refused"]]
    BY <1>3, <1>0, Distinct DEF Unavailable
  <2>2. [Rest EXCEPT !.pc = "refused"] \in Place /\ [Rest EXCEPT !.pc = "refused"].pc = "refused"
    BY RestPlace DEF Rest, Place, Ended
  <2>3. at' \in [Actor -> Place] /\ at'[x].pc = "refused" /\ \A y \in Actor \ {x} : at'[y] = at[y]
    BY <1>0, <2>1, <2>2
  <2> QED
    BY <1>3, <2>3, Distinct DEF Own, ActorOK, CalmOK, Busy, WithSlot, Ended
<1> QED
  BY <1>1, <1>2, <1>3 DEF Actor

-----------------------------------------------------------------------------
\* A calm request inspects with a client that is open, whole and what it wants.
LEMMA CalmOn ==
    ASSUME WorkerAssumption, WorkerIInv, NEW r \in Request, NEW c \in Client,
           at[r].pc \in Busy, c = at[r].on, ~at[r].counted, r \notin upset
    PROVE  /\ client[c].open /\ client[c].model = at[r].want /\ client[c].model \in installed
           /\ c \notin broken /\ ~client[c].failed
<1>1. at[r].pc \notin Ended \cup {"read"}
  BY DEF Ended, Busy, WithSlot
<1>2. CalmOK(r) /\ HandoverOK /\ WorkerOK(c) /\ installed \subseteq Model
  BY DEF WorkerIInv, WorkerTypeOK
<1> QED
  BY <1>1, <1>2, Distinct DEF CalmOK, HandoverOK, WorkerOK

LEMMA InTheHistory ==
    ASSUME WorkerIInv, NEW c \in Client, NoFault \/ Fault(c)
    PROVE  /\ History(c)
           /\ Fault(c) => c \in broken' /\ Running \subseteq upset'
           /\ NoFault => broken' = broken /\ upset' = upset
BY DEF History, NoFault, Fault, Trouble, WorkerIInv, WorkerTypeOK

\* A client map that differs from the present one at c only, and in the slots
\* only as x may change them.
Work(cl, x, c) ==
    /\ cl \in [Client -> ClientState]
    /\ \A d \in Client :
        /\ cl[d].open = client[d].open /\ cl[d].model = client[d].model
        /\ client[d].slot \notin {x, Nobody} => cl[d].slot = client[d].slot
        /\ d # c => /\ cl[d].process = client[d].process /\ cl[d].starting = client[d].starting
                    /\ cl[d].failed = client[d].failed

LEMMA FreedWork ==
    ASSUME WorkerAssumption, NEW x \in Actor, NEW c \in Client, NEW cl, Work(cl, x, c)
    PROVE  /\ Work(Freed(x, cl), x, c)
           /\ Freed(x, cl)[c].process = cl[c].process
           /\ Freed(x, cl)[c].starting = cl[c].starting /\ Freed(x, cl)[c].failed = cl[c].failed
<1>1. cl \in [Client -> ClientState]
  BY DEF Work
<1> QED
  BY <1>1, FreedFacts DEF Work

LEMMA SameWork ==
    ASSUME WorkerIInv, NEW x \in Actor, NEW c \in Client
    PROVE  Work(client, x, c)
BY DEF Work, WorkerIInv, WorkerTypeOK

\* The workers stay as they are.
LEMMA SharedSame ==
    ASSUME WorkerIInv, NEW x \in Actor, NEW c \in Client, Rests, History(c),
           alive' = alive, Work(client', x, c), client'[c].process = client[c].process,
           client'[c].starting = client[c].starting, client'[c].failed = client[c].failed
    PROVE  Shared(x, c)
<1>1. \A d \in Client : SameWorker(d)
  BY DEF Work, SameWorker
<1>2. WorkerOK(c) /\ broken \subseteq broken' /\ installed' = installed
  BY DEF WorkerIInv, History, Rests
<1>3. WorkerOK(c)'
  BY <1>2 DEF WorkerOK, Tracked, Work
<1> QED
  BY <1>1, <1>3 DEF Shared, Work, WorkerIInv, WorkerTypeOK

LEMMA SharedFreed ==
    ASSUME WorkerAssumption, WorkerIInv, NEW x \in Actor, NEW c \in Client, Rests, History(c),
           alive' = alive, client' = Freed(x, client)
    PROVE  Shared(x, c)
BY SameWork, FreedWork, SharedSame

\* The client has no worker any more.
LEMMA SharedStopped ==
    ASSUME WorkerAssumption, WorkerIInv, NEW x \in Actor, NEW c \in Client, Rests, History(c),
           at[x].pc \in WithSlot, c = at[x].on,
           \A d \in Client \ {c} : \A w \in Nat : <<d, w>> \in alive' <=> <<d, w>> \in alive,
           alive' \subseteq alive, \A w \in Nat : <<c, w>> \notin alive',
           Work(client', x, c), client'[c].process = 0, client'[c].starting = 0,
           client'[c].failed => c \in broken'
    PROVE  Shared(x, c)
<1>1. \A d \in Client : d # c => SameWorker(d)
  BY DEF Work, SameWorker
<1>2. WorkerOK(c) /\ broken \subseteq broken' /\ installed' = installed /\ client[c].slot = x
  BY DEF WorkerIInv, History, Rests, ActorOK
<1>3. WorkerOK(c)'
  BY <1>2 DEF WorkerOK, Work
<1> QED
  BY <1>1, <1>2, <1>3 DEF Shared, Work, WorkerIInv, WorkerTypeOK

LEMMA WorkersGone ==
    ASSUME WorkerIInv, NEW c \in Client
    PROVE  /\ \A d \in Client \ {c} : \A w \in Nat :
                <<d, w>> \in alive \ Workers(c) <=> <<d, w>> \in alive
           /\ \A w \in Nat : <<c, w>> \notin alive \ Workers(c)
           /\ alive \ Workers(c) \subseteq alive
BY DEF WorkerIInv, WorkerOK, Workers, Tracked

\* What is left when the worker w of c is stopped, if c still has it.
LEMMA SurvivorsFacts ==
    ASSUME WorkerIInv, NEW c \in Client, NEW w \in Nat \ {0}
    PROVE  /\ Survivors(c, w) \subseteq alive
           /\ \A d \in Client \ {c} : \A v \in Nat :
                <<d, v>> \in Survivors(c, w) <=> <<d, v>> \in alive
           /\ Tracked(c, w) => \A v \in Nat : <<c, v>> \notin Survivors(c, w)
           /\ ~Tracked(c, w) => Survivors(c, w) = alive
<1>1. WorkerOK(c)
  BY DEF WorkerIInv
<1> QED
  BY <1>1 DEF Survivors, WorkerOK, Tracked

LEMMA SharedDropped ==
    ASSUME WorkerAssumption, WorkerIInv, NEW x \in Actor, NEW c \in Client, Rests, History(c),
           at[x].pc \in WithSlot, c = at[x].on, NEW w \in Nat \ {0}, NEW cl,
           alive' = Survivors(c, w), client' = cl \/ client' = Freed(x, cl),
           \/ cl = Untracked(c, w)
           \/ cl = FailedClient(c, w) /\ (Tracked(c, w) /\ client[c].open => c \in broken')
    PROVE  Shared(x, c)
<1>0. WorkerTypeOK /\ WorkerOK(c) /\ broken \subseteq broken'
  BY DEF WorkerIInv, History
<1>1. CASE Tracked(c, w)
  <2>1. /\ Work(cl, x, c) /\ cl[c].process = 0 /\ cl[c].starting = 0
        /\ cl[c].failed => c \in broken'
    <3>1. CASE cl = Untracked(c, w)
      <4>1. /\ \A d \in Client \ {c} : cl[d] = client[d]
            /\ cl[c].open = client[c].open /\ cl[c].model = client[c].model
            /\ cl[c].slot = client[c].slot /\ cl[c].failed = client[c].failed
            /\ cl[c].process = (IF client[c].process = w THEN 0 ELSE client[c].process)
            /\ cl[c].starting = (IF client[c].starting = w THEN 0 ELSE client[c].starting)
            /\ cl \in [Client -> ClientState]
        BY <1>0, <3>1, UntrackedFacts
      <4>2. cl[c].process = 0 /\ cl[c].starting = 0
        BY <1>0, <1>1, <4>1 DEF Tracked, WorkerOK
      <4>3. Work(cl, x, c)
        BY <4>1 DEF Work
      <4>4. cl[c].failed => c \in broken'
        BY <1>0, <4>1 DEF WorkerOK
      <4>5. QED
        BY <4>2, <4>3, <4>4
    <3>2. CASE cl = FailedClient(c, w) /\ (Tracked(c, w) /\ client[c].open => c \in broken')
      <4>1. /\ \A d \in Client \ {c} : cl[d] = client[d]
            /\ cl[c].open = client[c].open /\ cl[c].model = client[c].model
            /\ cl[c].slot = client[c].slot
            /\ cl[c].failed => client[c].failed \/ client[c].open
            /\ cl[c].process = 0 /\ cl[c].starting = 0
            /\ cl \in [Client -> ClientState]
        BY <1>0, <1>1, <3>2, FailedClientFacts
      <4>2. Work(cl, x, c)
        BY <4>1 DEF Work
      <4>3. cl[c].failed => c \in broken'
        BY <1>0, <1>1, <3>2, <4>1 DEF WorkerOK
      <4>4. QED
        BY <4>1, <4>2, <4>3
    <3>3. QED
      BY <3>1, <3>2
  <2>2. /\ Work(client', x, c) /\ client'[c].process = 0 /\ client'[c].starting = 0
        /\ client'[c].failed => c \in broken'
    BY <2>1, FreedWork
  <2> QED
    BY <1>1, <2>2, SurvivorsFacts, SharedStopped
<1>2. CASE ~Tracked(c, w)
  <2>1. /\ Work(cl, x, c) /\ cl[c].process = client[c].process
        /\ cl[c].starting = client[c].starting /\ cl[c].failed = client[c].failed
    BY <1>0, <1>2, UntrackedFacts, SameWork DEF Work, Tracked, FailedClient
  <2>2. /\ Work(client', x, c) /\ client'[c].process = client[c].process
        /\ client'[c].starting = client[c].starting /\ client'[c].failed = client[c].failed
    BY <2>1, FreedWork
  <2> QED
    BY <1>2, <2>2, SurvivorsFacts, SharedSame
<1> QED
  BY <1>1, <1>2

-----------------------------------------------------------------------------
(* The steps of the goroutines, one lemma per action.                       *)

LEMMA GoesTo ==
    ASSUME WorkerIInv, NEW x \in Actor, NEW pc \in Busy, at' = [at EXCEPT ![x].pc = pc]
    PROVE  /\ at' \in [Actor -> Place] /\ \A y \in Actor \ {x} : at'[y] = at[y]
           /\ at'[x].pc = pc /\ at'[x].on = at[x].on /\ at'[x].target = at[x].target
           /\ at'[x].want = at[x].want /\ at'[x].counted = at[x].counted
           /\ at'[x].left = at[x].left /\ at'[x].worker = at[x].worker
<1>1. at \in [Actor -> Place] /\ at[x] \in Place
  BY DEF WorkerIInv, WorkerTypeOK
<1> QED
  BY <1>1 DEF Place

LEMMA ClientPlaces ==
    ASSUME WorkerAssumption, WorkerIInv, NEW x \in Client
    PROVE  at[x].pc \notin {"read", "check", "exchange", "store", "done", "refused"}
<1>1. ActorOK(x)
  BY DEF WorkerIInv, Actor
<1> QED
  BY <1>1 DEF ActorOK

LEMMA OnClient ==
    ASSUME WorkerAssumption, WorkerIInv, NEW x \in Actor, at[x].pc \in Busy
    PROVE  /\ at[x].on \in Client
           /\ at[x].pc \in WithSlot => client[at[x].on].slot = x
           /\ x \in Request => at[x].left # {}
           /\ at[x] \in Place
BY DEF WorkerIInv, ActorOK, WorkerTypeOK

LEMMA GoesMoved ==
    ASSUME WorkerAssumption, WorkerIInv, NEW x \in Actor, NEW c \in Client, at[x].pc \in Busy,
           NEW pc \in Busy \ {"starting", "adopt", "exchange"}, at' = [at EXCEPT ![x].pc = pc],
           pc \in WithSlot => client'[c].slot = x, x \in Client => pc \notin {"check", "store"}
    PROVE  Moved(x, c)
<1>1. at' \in [Actor -> Place] /\ \A y \in Actor \ {x} : at'[y] = at[y]
  BY GoesTo
<1>2. /\ at'[x].pc = pc /\ at'[x].on = at[x].on /\ at'[x].target = at[x].target
      /\ at'[x].want = at[x].want /\ at'[x].counted = at[x].counted
      /\ at'[x].left = at[x].left
  BY GoesTo
<1>3. x \in Request => at[x].left # {}
  BY OnClient
<1> QED
  BY <1>1, <1>2, <1>3 DEF Moved

LEMMA CheckStep ==
    ASSUME WorkerAssumption, WorkerIInv, NEW r \in Request, Check(r)
    PROVE  WorkerIInv'
<1>a. PICK c \in Client : c = at[r].on
  BY OnClient DEF Check, Busy, WithSlot, Actor
<1> DEFINE left == at[r].left \ Cached(c)
           out == ~client[c].open \/ (~at[r].counted /\ at[r].want # client[c].model)
<1>1. /\ r \in Actor /\ at[r].pc \in Busy /\ c = at[r].on /\ at[r] \in Place
      /\ at \in [Actor -> Place]
  BY <1>a, OnClient DEF Check, Busy, Actor, WorkerIInv, WorkerTypeOK
<1>2. Rests /\ NoFault /\ alive' = alive
  BY <1>a DEF Check, Rests, handover
<1>3. History(c) /\ upset' = upset
  BY <1>1, <1>2, InTheHistory
<1>4. CASE out
  <2>1. Unavailable(r, client) /\ client' = Freed(r, client)
    BY <1>a, <1>4 DEF Check, Unavailable
  <2>2. Shared(r, c)
    BY <1>1, <1>2, <1>3, <2>1, SharedFreed
  <2>3. ~at[r].counted => r \in upset'
    BY <1>1, <1>3, <1>4, CalmOn
  <2>4. Own(r)
    BY <1>1, <1>2, <1>3, <2>1, <2>2, <2>3, UnavailableOwn
  <2> QED
    BY <1>1, <1>2, <1>3, <2>2, <2>4, FrameKeeps
<1>5. CASE ~out /\ left = {}
  <2>1. client' = Freed(r, client) /\ at' = [at EXCEPT ![r] = [Rest EXCEPT !.pc = "done"]]
    BY <1>a, <1>5 DEF Check, Returns
  <2> QED
    BY <1>1, <1>2, <1>3, <2>1, SharedFreed, ReturnsOwn, FrameKeeps
<1>6. CASE ~out /\ left # {}
  <2>1. client' = client /\ at' = [at EXCEPT ![r].pc = "slot", ![r].left = left]
    BY <1>a, <1>6 DEF Check
  <2>2. Shared(r, c)
    BY <1>1, <1>2, <1>3, <2>1, SameWork, SharedSame
  <2>3. left \in SUBSET Text
    BY <1>1 DEF Place
  <2> HIDE DEF left
  <2>4. at' = [at EXCEPT ![r] = [at[r] EXCEPT !.pc = "slot", !.left = left]]
    BY <1>1, <2>1
  <2>5. [at[r] EXCEPT !.pc = "slot", !.left = left] \in Place
    BY <1>1, <2>3 DEF Place, Busy
  <2>6. /\ at' \in [Actor -> Place] /\ \A y \in Actor \ {r} : at'[y] = at[y]
        /\ at'[r].pc = "slot" /\ at'[r].left = left
        /\ at'[r].on = at[r].on /\ at'[r].target = at[r].target /\ at'[r].want = at[r].want
        /\ at'[r].counted = at[r].counted
    BY <1>1, <2>4, <2>5 DEF Place
  <2>7. Moved(r, c)
    BY <1>1, <1>6, <2>6, Distinct DEF Moved, Busy, WithSlot
  <2>8. Own(r)
    BY <1>1, <1>2, <1>3, <2>2, <2>7, GoesOwn
  <2> QED
    BY <1>1, <1>2, <1>3, <2>2, <2>8, FrameKeeps
<1> QED
  BY <1>4, <1>5, <1>6

\* The next batch or the end, for the request that holds the slot.
LEMMA InspectedOwn ==
    ASSUME WorkerAssumption, WorkerIInv, NEW r \in Request, NEW c \in Client,
           at[r].pc \in Busy, c = at[r].on, Rests, Shared(r, c), History(c),
           NEW clients, NEW left \in SUBSET Text, Inspected(r, left, clients)
    PROVE  Own(r)
<1>1. /\ r \in Actor /\ at[r] \in Place /\ at \in [Actor -> Place]
  BY OnClient DEF Actor, WorkerIInv, WorkerTypeOK
<1>2. CASE left = {}
  BY <1>2, ReturnsOwn DEF Inspected, Returns
<1>3. CASE left # {}
  <2> DEFINE R == [at[r] EXCEPT !.pc = "slot", !.left = left, !.worker = 0, !.attempt = 0]
  <2>1. at' = [at EXCEPT ![r] = R]
    BY <1>1, <1>3 DEF Inspected
  <2>2. /\ R \in Place /\ R.pc = "slot" /\ R.left = left /\ R.on = at[r].on
        /\ R.target = at[r].target /\ R.want = at[r].want /\ R.counted = at[r].counted
    BY <1>1 DEF Place, Busy
  <2> HIDE DEF R
  <2>3. at' \in [Actor -> Place] /\ \A y \in Actor \ {r} : at'[y] = at[y] /\ at'[r] = R
    BY <1>1, <2>1, <2>2
  <2>4. Moved(r, c)
    BY <1>3, <2>2, <2>3, Distinct DEF Moved, Busy, WithSlot
  <2> QED
    BY <1>1, <2>4, GoesOwn
<1> QED
  BY <1>2, <1>3

LEMMA TakeSlotStep ==
    ASSUME WorkerAssumption, WorkerIInv, NEW x \in Actor, TakeSlot(x)
    PROVE  WorkerIInv'
<1>a. PICK c \in Client : c = at[x].on
  BY OnClient DEF TakeSlot, Busy, WithSlot
<1> DEFINE mine == [client EXCEPT ![c].slot = x]
<1>1. /\ at[x].pc = "slot" /\ at[x].pc \in Busy /\ c = at[x].on /\ at[x] \in Place
      /\ client \in [Client -> ClientState] /\ client[c].slot = Nobody
  BY <1>a, OnClient DEF TakeSlot, Busy, WorkerIInv, WorkerTypeOK
<1>2. Rests /\ NoFault /\ alive' = alive
  BY <1>a DEF TakeSlot, Rests, handover
<1>3. History(c) /\ upset' = upset
  BY <1>1, <1>2, InTheHistory
<1>4. /\ Work(mine, x, c) /\ mine[c].process = client[c].process
      /\ mine[c].starting = client[c].starting /\ mine[c].failed = client[c].failed
      /\ mine[c].slot = x
  <2>1. [client[c] EXCEPT !.slot = x] \in ClientState
    BY <1>1 DEF ClientState
  <2>2. mine = [client EXCEPT ![c] = [client[c] EXCEPT !.slot = x]]
    BY <1>1
  <2> QED
    BY <1>1, <2>1, <2>2 DEF Work, ClientState
<1> HIDE DEF mine
<1>5. CASE x \in Request /\ Batch(x) \in Cached(c)
  <2>1. Inspected(x, at[x].left \ {Batch(x)}, mine)
    BY <1>a, <1>5 DEF TakeSlot, mine
  <2>2. client' = Freed(x, mine)
    BY <2>1 DEF Inspected, Returns
  <2>3. Shared(x, c)
    BY <1>1, <1>2, <1>3, <1>4, <2>2, FreedWork, SharedSame
  <2>4. Own(x)
    BY <1>1, <1>2, <1>3, <1>5, <2>1, <2>3, InspectedOwn DEF Place
  <2> QED
    BY <1>1, <1>2, <1>3, <2>3, <2>4, FrameKeeps
<1>6. CASE ~(x \in Request /\ Batch(x) \in Cached(c))
  <2>1. client' = mine /\ at' = [at EXCEPT ![x].pc = "ensure"]
    BY <1>a, <1>6 DEF TakeSlot, mine, Goes
  <2>2. Shared(x, c)
    BY <1>1, <1>2, <1>3, <1>4, <2>1, SharedSame
  <2>3. "ensure" \in Busy \ {"starting", "adopt", "exchange"}
    BY DEF Busy, WithSlot
  <2>4. Moved(x, c)
    BY <1>1, <1>4, <2>1, <2>3, GoesMoved
  <2>5. Own(x)
    BY <1>1, <1>2, <1>3, <2>2, <2>4, GoesOwn
  <2> QED
    BY <1>1, <1>2, <1>3, <2>2, <2>5, FrameKeeps
<1> QED
  BY <1>5, <1>6

LEMMA EnsureStep ==
    ASSUME WorkerAssumption, WorkerIInv, NEW x \in Actor, Ensure(x)
    PROVE  WorkerIInv'
<1>a. PICK c \in Client : c = at[x].on
  BY OnClient DEF Ensure, Busy, WithSlot
<1>w. PICK w \in Nat : w = client[c].process
  BY DEF WorkerIInv, WorkerTypeOK, ClientState
<1>1. /\ at[x].pc = "ensure" /\ at[x].pc \in Busy /\ at[x].pc \in WithSlot
      /\ c = at[x].on /\ at[x] \in Place /\ at \in [Actor -> Place]
      /\ client[c].slot = x /\ WorkerTypeOK /\ WorkerOK(c)
  BY <1>a, <1>w, OnClient DEF Ensure, Busy, WithSlot, WorkerIInv, WorkerTypeOK
<1>2. Rests /\ NoFault
  BY <1>a, <1>w DEF Ensure, Rests, handover
<1>3. History(c) /\ upset' = upset /\ broken' = broken
  BY <1>1, <1>2, InTheHistory
<1>4. ASSUME NEW clients, Unavailable(x, clients), Shared(x, c),
             ~client[c].open \/ client[c].model \notin installed \/ client[c].failed
      PROVE  WorkerIInv'
  <2>1. x \in Request /\ ~at[x].counted => x \in upset'
    BY <1>1, <1>3, <1>4, CalmOn
  <2>2. Own(x)
    BY <1>1, <1>2, <1>3, <1>4, <2>1, UnavailableOwn
  <2> QED
    BY <1>1, <1>2, <1>3, <1>4, <2>2, FrameKeeps
<1>5. CASE ~client[c].open \/ (client[c].model \in installed /\ client[c].failed)
  <2>1. Unavailable(x, client) /\ alive' = alive
    BY <1>a, <1>w, <1>5 DEF Ensure
  <2>2. Shared(x, c)
    BY <1>1, <1>2, <1>3, <2>1, SharedFreed DEF Unavailable
  <2> QED
    BY <1>4, <1>5, <2>1, <2>2
<1>6. CASE client[c].open /\ client[c].model \notin installed
  <2> DEFINE S == Stopped(c)
             R == [S[c] EXCEPT !.verified = FALSE, !.failed = FALSE]
             cl == [S EXCEPT ![c].verified = FALSE, ![c].failed = FALSE]
  <2>1. Unavailable(x, cl) /\ alive' = alive \ Workers(c)
    BY <1>a, <1>w, <1>6 DEF Ensure
  <2>2. S \in [Client -> ClientState] /\ S[c] \in ClientState /\ cl = [S EXCEPT ![c] = R]
    BY <1>1, StoppedFacts
  <2>3. /\ R \in ClientState /\ R.open = S[c].open /\ R.model = S[c].model
        /\ R.slot = S[c].slot /\ ~R.failed /\ R.process = S[c].process
        /\ R.starting = S[c].starting
    BY <2>2 DEF ClientState
  <2> HIDE DEF R, cl
  <2>4. Work(cl, x, c) /\ cl[c].process = 0 /\ cl[c].starting = 0 /\ ~cl[c].failed
    BY <1>1, <2>2, <2>3, StoppedFacts, Update DEF Work
  <2>5. client' = Freed(x, cl)
    BY <2>1 DEF Unavailable
  <2>6. Shared(x, c)
    BY <1>1, <1>2, <1>3, <2>1, <2>4, <2>5, FreedWork, WorkersGone, SharedStopped
  <2> QED
    BY <1>4, <1>6, <2>1, <2>6
<1>7. CASE /\ client[c].open /\ client[c].model \in installed /\ ~client[c].failed
           /\ <<c, w>> \in alive
  <2>1. /\ at' = [at EXCEPT ![x].pc = IF x \in Client THEN "prepared" ELSE "exchange",
                            ![x].worker = w]
        /\ client' = IF x \in Client THEN Freed(x, client) ELSE client
        /\ alive' = alive
    BY <1>a, <1>w, <1>7 DEF Ensure
  <2>2. Shared(x, c)
    BY <1>1, <1>2, <1>3, <2>1, SharedFreed, SameWork, SharedSame
  <2>3. w \in Nat /\ w # 0
    BY <1>1, <1>7 DEF WorkerOK
  <2> DEFINE R == [at[x] EXCEPT !.pc = IF x \in Client THEN "prepared" ELSE "exchange",
                                !.worker = w]
  <2>4. at' = [at EXCEPT ![x] = R]
    BY <1>1, <2>1
  <2>5. /\ R \in Place /\ R.pc = IF x \in Client THEN "prepared" ELSE "exchange"
        /\ R.worker = w /\ R.on = at[x].on
        /\ R.target = at[x].target /\ R.want = at[x].want /\ R.counted = at[x].counted
        /\ R.left = at[x].left
    BY <1>1, <2>3 DEF Place, Busy, WithSlot
  <2> HIDE DEF R
  <2>6. at' \in [Actor -> Place] /\ (\A y \in Actor \ {x} : at'[y] = at[y]) /\ at'[x] = R
    BY <1>1, <2>4, <2>5
  <2>7. CASE x \in Client
    <3>1. ActorOK(x) /\ \A d \in Client : client'[d].model = client[d].model
      BY <2>2 DEF WorkerIInv, Shared
    <3>2. ActorOK(x)'
      BY <1>1, <2>5, <2>6, <2>7, <3>1, Distinct DEF ActorOK, Busy, WithSlot
    <3>3. Own(x)
      BY <2>6, <2>7, <3>2, Distinct DEF Own
    <3> QED
      BY <1>1, <1>2, <1>3, <2>2, <3>3, FrameKeeps
  <2>8. CASE x \in Request
    <3>1. x \notin Client /\ at[x].left # {}
      BY <1>1, <2>8, Distinct, OnClient
    <3>2. client' = client
      BY <2>1, <3>1
    <3>3. Moved(x, c)
      BY <1>1, <1>w, <1>7, <2>1, <2>3, <2>5, <2>6, <3>1, <3>2 DEF Moved, Busy, WithSlot
    <3>4. Own(x)
      BY <1>1, <1>2, <1>3, <2>2, <3>3, GoesOwn
    <3> QED
      BY <1>1, <1>2, <1>3, <2>2, <3>4, FrameKeeps
  <2> QED
    BY <2>7, <2>8 DEF Actor
<1>8. CASE /\ client[c].open /\ client[c].model \in installed /\ ~client[c].failed
           /\ <<c, w>> \notin alive
  <2> DEFINE pc == IF client[c].verified THEN "start" ELSE "validate"
  <2>1. client' = Stopped(c) /\ alive' = alive \ Workers(c) /\ at' = [at EXCEPT ![x].pc = pc]
    BY <1>a, <1>w, <1>8 DEF Ensure, Goes
  <2>2. Work(client', x, c) /\ client'[c].process = 0 /\ client'[c].starting = 0
        /\ client'[c].failed = client[c].failed /\ client'[c].slot = x
    BY <1>1, <2>1, StoppedFacts DEF Work
  <2>3. Shared(x, c)
    BY <1>1, <1>2, <1>3, <1>8, <2>1, <2>2, WorkersGone, SharedStopped
  <2>4. pc \in Busy \ {"starting", "adopt", "exchange"} /\ pc \notin {"check", "store"}
    BY DEF Busy, WithSlot
  <2> HIDE DEF pc
  <2>5. Moved(x, c)
    BY <1>1, <2>1, <2>2, <2>4, GoesMoved
  <2>6. Own(x)
    BY <1>1, <1>2, <1>3, <2>3, <2>5, GoesOwn
  <2> QED
    BY <1>1, <1>2, <1>3, <2>3, <2>6, FrameKeeps
<1> QED
  BY <1>5, <1>6, <1>7, <1>8


LEMMA ValidateStep ==
    ASSUME WorkerAssumption, WorkerIInv, NEW x \in Actor, Validate(x)
    PROVE  WorkerIInv'
<1>a. PICK c \in Client : c = at[x].on
  BY OnClient DEF Validate, Busy, WithSlot
<1>1. /\ x \in Actor /\ at[x].pc = "validate" /\ at[x].pc \in Busy /\ at[x].pc \in WithSlot
      /\ c = at[x].on /\ at[x] \in Place /\ at \in [Actor -> Place]
      /\ client[c].slot = x /\ WorkerTypeOK /\ WorkerOK(c) /\ ActorOK(x)
  BY <1>a, OnClient DEF Validate, Busy, WithSlot, WorkerIInv, WorkerTypeOK, Actor
<1>2. Rests /\ (NoFault \/ Fault(c))
  BY <1>a DEF Validate, Rests, handover
<1>3. /\ History(c) /\ (Fault(c) => c \in broken' /\ Running \subseteq upset')
      /\ (NoFault => broken' = broken /\ upset' = upset)
  BY <1>1, <1>2, InTheHistory
<1>4. ASSUME NEW clients, Unavailable(x, clients), Shared(x, c),
             \/ ~client[c].open \/ client[c].model \notin installed \/ client[c].failed
             \/ c \in broken \/ Fault(c)
      PROVE  WorkerIInv'
  <2>1. x \in Request => x \in Running
    BY <1>1 DEF Running, Ended
  <2>2. x \in Request /\ ~at[x].counted => x \in upset'
    BY <1>1, <1>3, <1>4, <2>1, CalmOn DEF History
  <2>3. Own(x)
    BY <1>1, <1>2, <1>3, <1>4, <2>2, UnavailableOwn
  <2> QED
    BY <1>1, <1>2, <1>3, <1>4, <2>3, FrameKeeps
<1>5. alive' = alive
  BY <1>a DEF Validate
<1>6. CASE Goes(x, "start") /\ NoFault /\ client' = client
  <2>1. Shared(x, c)
    BY <1>1, <1>2, <1>3, <1>5, <1>6, SameWork, SharedSame
  <2>2. "start" \in Busy \ {"starting", "adopt", "exchange"}
    BY DEF Busy, WithSlot
  <2>3. Moved(x, c)
    BY <1>1, <1>6, <2>2, GoesMoved DEF Goes
  <2> QED
    BY <1>1, <1>2, <1>3, <2>1, <2>3, GoesOwn, FrameKeeps
<1>7. CASE ~client[c].open /\ Unavailable(x, client)
  <2>1. Shared(x, c)
    BY <1>1, <1>2, <1>3, <1>5, <1>7, SharedFreed DEF Unavailable
  <2> QED
    BY <1>4, <1>7, <2>1
\* What Validate latches did fail: the installation is gone or not whole.
<1>8. CASE /\ Unavailable(x, Latched(c))
           /\ (client[c].model \notin installed /\ NoFault) \/ Fault(c)
  <2>1. /\ Work(Latched(c), x, c) /\ Latched(c)[c].process = client[c].process
        /\ Latched(c)[c].starting = client[c].starting
    BY <1>1, LatchedFacts DEF Work
  <2>2. /\ Work(client', x, c) /\ client'[c].process = client[c].process
        /\ client'[c].starting = client[c].starting
    BY <1>1, <1>8, <2>1, FreedWork DEF Unavailable
  <2>3. c \in broken'
    <3>1. client[c].model # Off
      BY <1>1 DEF ActorOK
    <3> QED
      BY <1>1, <1>3, <1>8, <3>1 DEF WorkerOK, History
  <2>4. WorkerOK(c)'
    BY <1>1, <1>2, <1>5, <2>2, <2>3 DEF WorkerOK, Tracked, Work
  <2>5. Shared(x, c)
    BY <1>1, <1>5, <2>2, <2>4 DEF Shared, Work, SameWorker, WorkerTypeOK
  <2> QED
    BY <1>4, <1>8, <2>5
<1> QED
  BY <1>a, <1>6, <1>7, <1>8 DEF Validate

LEMMA StartStep ==
    ASSUME WorkerAssumption, WorkerIInv, NEW x \in Actor, Start(x)
    PROVE  WorkerIInv'
<1>a. PICK c \in Client : c = at[x].on
  BY OnClient DEF Start, Busy, WithSlot
<1>1. /\ x \in Actor /\ at[x].pc = "start" /\ at[x].pc \in Busy /\ at[x].pc \in WithSlot
      /\ c = at[x].on /\ at[x] \in Place /\ at \in [Actor -> Place]
      /\ client[c].slot = x /\ WorkerTypeOK /\ WorkerOK(c) /\ ActorOK(x)
  BY <1>a, OnClient DEF Start, Busy, WithSlot, WorkerIInv, WorkerTypeOK, Actor
<1>2. Rests /\ (NoFault \/ Fault(c))
  BY <1>a DEF Start, Rests, handover
<1>3. /\ History(c) /\ (Fault(c) => c \in broken' /\ Running \subseteq upset')
      /\ (NoFault => broken' = broken /\ upset' = upset)
  BY <1>1, <1>2, InTheHistory
<1>4. ASSUME NEW clients, Unavailable(x, clients), Shared(x, c),
             \/ ~client[c].open \/ client[c].model \notin installed \/ client[c].failed
             \/ c \in broken \/ Fault(c)
      PROVE  WorkerIInv'
  <2>1. x \in Request => x \in Running
    BY <1>1 DEF Running, Ended
  <2>2. x \in Request /\ ~at[x].counted => x \in upset'
    BY <1>1, <1>3, <1>4, <2>1, CalmOn DEF History
  <2>3. Own(x)
    BY <1>1, <1>2, <1>3, <1>4, <2>2, UnavailableOwn
  <2> QED
    BY <1>1, <1>2, <1>3, <1>4, <2>3, FrameKeeps
<1>w. PICK w \in Nat \ {0} : w = client[c].started + 1
  BY <1>1 DEF WorkerTypeOK, ClientState
<1> DEFINE S == Stopped(c)
           verified == [S EXCEPT ![c].verified = TRUE]
           V == [S[c] EXCEPT !.verified = TRUE]
<1>5. /\ S \in [Client -> ClientState] /\ S[c] \in ClientState
      /\ verified = [S EXCEPT ![c] = V]
  BY <1>1, StoppedFacts
<1>6. /\ V \in ClientState /\ V.open = S[c].open /\ V.model = S[c].model
      /\ V.slot = S[c].slot /\ V.failed = S[c].failed /\ V.process = S[c].process
      /\ V.starting = S[c].starting
  BY <1>5 DEF ClientState
<1> HIDE DEF V, verified
<1>7. /\ Work(verified, x, c) /\ verified[c].process = 0 /\ verified[c].starting = 0
      /\ verified[c].slot = x /\ verified[c].failed = client[c].failed
      /\ verified[c] \in ClientState /\ verified \in [Client -> ClientState]
  BY <1>1, <1>5, <1>6, StoppedFacts, Update DEF Work
<1>8. CASE ~client[c].open \/ client[c].model \notin installed
  <2>1. Unavailable(x, client) /\ alive' = alive
    BY <1>a, <1>8 DEF Start
  <2>2. Shared(x, c)
    BY <1>1, <1>2, <1>3, <2>1, SharedFreed DEF Unavailable
  <2> QED
    BY <1>4, <1>8, <2>1, <2>2
<1>9. CASE /\ client' = [verified EXCEPT ![c].starting = w, ![c].started = w]
           /\ alive' = (alive \ Workers(c)) \cup {<<c, w>>}
           /\ at' = [at EXCEPT ![x].pc = "starting", ![x].worker = w]
           /\ client[c].open /\ client[c].model \in installed /\ NoFault
  <2> DEFINE R == [verified[c] EXCEPT !.starting = w, !.started = w]
             P == [at[x] EXCEPT !.pc = "starting", !.worker = w]
  <2>1. /\ R \in ClientState /\ R.open = verified[c].open /\ R.model = verified[c].model
        /\ R.slot = verified[c].slot /\ R.failed = verified[c].failed
        /\ R.process = verified[c].process /\ R.starting = w
    BY <1>5, <1>7 DEF ClientState
  <2>2. client' = [verified EXCEPT ![c] = R]
    BY <1>7, <1>9
  <2>3. at' = [at EXCEPT ![x] = P]
    BY <1>1, <1>9
  <2>4. /\ P \in Place /\ P.pc = "starting" /\ P.worker = w /\ P.on = at[x].on
        /\ P.target = at[x].target /\ P.want = at[x].want /\ P.counted = at[x].counted
        /\ P.left = at[x].left
    BY <1>1, <1>5 DEF Place, Busy, WithSlot
  <2> HIDE DEF R, P
  <2>5. /\ Work(client', x, c) /\ client'[c].process = 0 /\ client'[c].starting = w
        /\ client'[c].slot = x /\ client'[c].failed = client[c].failed
        /\ client'[c].open = client[c].open /\ client'[c].model = client[c].model
    BY <1>7, <2>1, <2>2, Update DEF Work
  <2>6. /\ \A d \in Client \ {c} : \A v \in Nat : <<d, v>> \in alive' <=> <<d, v>> \in alive
        /\ \A v \in Nat : <<c, v>> \in alive' <=> v = w
        /\ alive' \subseteq Client \X Nat
    BY <1>1, <1>5, <1>9, WorkersGone DEF WorkerTypeOK
  <2>7. WorkerOK(c)'
    BY <1>1, <1>2, <1>3, <1>5, <1>9, <2>5, <2>6 DEF WorkerOK, Tracked, Rests
  <2>8. Shared(x, c)
    BY <1>1, <2>5, <2>6, <2>7 DEF Shared, Work, SameWorker
  <2>9. at' \in [Actor -> Place] /\ (\A y \in Actor \ {x} : at'[y] = at[y]) /\ at'[x] = P
    BY <1>1, <2>3, <2>4
  <2>10. x \in Request => at[x].left # {}
    BY <1>1, OnClient
  <2>11. Moved(x, c)
    BY <1>5, <2>4, <2>5, <2>6, <2>9, <2>10 DEF Moved, Busy, WithSlot
  <2> QED
    BY <1>1, <1>2, <1>3, <2>8, <2>11, GoesOwn, FrameKeeps
<1>10. CASE /\ Fault(c) /\ Unavailable(x, [verified EXCEPT ![c].failed = TRUE])
            /\ alive' = alive \ Workers(c)
  <2> DEFINE R == [verified[c] EXCEPT !.failed = TRUE]
             cl == [verified EXCEPT ![c].failed = TRUE]
  <2>1. /\ R \in ClientState /\ R.open = verified[c].open /\ R.model = verified[c].model
        /\ R.slot = verified[c].slot /\ R.process = verified[c].process
        /\ R.starting = verified[c].starting
    BY <1>7 DEF ClientState
  <2>2. cl = [verified EXCEPT ![c] = R]
    BY <1>7
  <2>3. Unavailable(x, cl) /\ client' = Freed(x, cl)
    BY <1>10 DEF Unavailable
  <2> HIDE DEF R, cl
  <2>4. Work(cl, x, c) /\ cl[c].process = 0 /\ cl[c].starting = 0
    BY <1>7, <2>1, <2>2, Update DEF Work
  <2>5. Shared(x, c)
    BY <1>1, <1>2, <1>3, <1>10, <2>3, <2>4, FreedWork, WorkersGone, SharedStopped
  <2> QED
    BY <1>4, <1>10, <2>3, <2>5
<1> QED
  BY <1>a, <1>w, <1>8, <1>9, <1>10 DEF Start, verified

LEMMA AwaitReadyStep ==
    ASSUME WorkerAssumption, WorkerIInv, NEW x \in Actor, AwaitReady(x)
    PROVE  WorkerIInv'
<1>a. PICK c \in Client : c = at[x].on
  BY OnClient DEF AwaitReady, Busy, WithSlot
<1>w. PICK w \in Nat : w = at[x].worker
  BY DEF WorkerIInv, WorkerTypeOK, Place
<1>1. /\ x \in Actor /\ at[x].pc = "starting" /\ at[x].pc \in Busy /\ at[x].pc \in WithSlot
      /\ c = at[x].on /\ at[x] \in Place /\ at \in [Actor -> Place]
      /\ client[c].slot = x /\ WorkerTypeOK /\ WorkerOK(c) /\ ActorOK(x)
  BY <1>a, <1>w, OnClient DEF AwaitReady, Busy, WithSlot, WorkerIInv, WorkerTypeOK, Actor
<1>2. Rests /\ (NoFault \/ Fault(c))
  BY <1>a, <1>w DEF AwaitReady, Rests, handover
<1>3. /\ History(c) /\ (Fault(c) => c \in broken' /\ Running \subseteq upset')
      /\ (NoFault => broken' = broken /\ upset' = upset)
  BY <1>1, <1>2, InTheHistory
<1>4. ASSUME NEW clients, Unavailable(x, clients), Shared(x, c),
             \/ ~client[c].open \/ client[c].model \notin installed \/ client[c].failed
             \/ c \in broken \/ Fault(c)
      PROVE  WorkerIInv'
  <2>1. x \in Request => x \in Running
    BY <1>1 DEF Running, Ended
  <2>2. x \in Request /\ ~at[x].counted => x \in upset'
    BY <1>1, <1>3, <1>4, <2>1, CalmOn DEF History
  <2>3. Own(x)
    BY <1>1, <1>2, <1>3, <1>4, <2>2, UnavailableOwn
  <2> QED
    BY <1>1, <1>2, <1>3, <1>4, <2>3, FrameKeeps
<1>5. w \in Nat \ {0} /\ (client[c].open /\ c \notin broken => <<c, w>> \in alive)
  BY <1>1, <1>w DEF ActorOK, Place
<1>6. CASE <<c, w>> \in alive /\ Goes(x, "adopt") /\ NoFault /\ client' = client /\ alive' = alive
  <2>1. Shared(x, c)
    BY <1>1, <1>2, <1>3, <1>6, SameWork, SharedSame
  <2>2. "adopt" \in Busy
    BY DEF Busy, WithSlot
  <2>3. /\ at' \in [Actor -> Place] /\ \A y \in Actor \ {x} : at'[y] = at[y]
        /\ at'[x].pc = "adopt" /\ at'[x].on = at[x].on /\ at'[x].target = at[x].target
        /\ at'[x].want = at[x].want /\ at'[x].counted = at[x].counted
        /\ at'[x].left = at[x].left /\ at'[x].worker = at[x].worker
    BY <1>6, <2>2, GoesTo DEF Goes
  <2>4. client[c].open /\ c \notin broken => w = client[c].starting
    BY <1>1, <1>w DEF ActorOK
  <2>5. x \in Request => at[x].left # {}
    BY <1>1, OnClient
  <2>6. Moved(x, c)
    BY <1>1, <1>w, <1>3, <1>5, <1>6, <2>2, <2>3, <2>4, <2>5 DEF Moved
  <2> QED
    BY <1>1, <1>2, <1>3, <2>1, <2>6, GoesOwn, FrameKeeps
<1>7. CASE /\ Unavailable(x, FailedClient(c, w)) /\ alive' = Survivors(c, w)
           /\ (<<c, w>> \notin alive /\ NoFault) \/ Fault(c)
  <2>1. Tracked(c, w) /\ client[c].open => c \in broken'
    BY <1>1, <1>3, <1>5, <1>7 DEF WorkerOK, Tracked, History
  <2>2. Shared(x, c)
    BY <1>1, <1>2, <1>3, <1>5, <1>7, <2>1, SharedDropped DEF Unavailable
  <2> QED
    BY <1>4, <1>5, <1>7, <2>2
<1> QED
  BY <1>a, <1>w, <1>6, <1>7 DEF AwaitReady

LEMMA AdoptStep ==
    ASSUME WorkerAssumption, WorkerIInv, NEW x \in Actor, Adopt(x)
    PROVE  WorkerIInv'
<1>a. PICK c \in Client : c = at[x].on
  BY OnClient DEF Adopt, Busy, WithSlot, Actor
<1>w. PICK w \in Nat : w = at[x].worker
  BY <1>a, OnClient DEF Adopt, Busy, WithSlot, Place, Actor
<1>1. /\ x \in Actor /\ at[x].pc = "adopt" /\ at[x].pc \in Busy /\ at[x].pc \in WithSlot
      /\ c = at[x].on /\ at[x] \in Place /\ at \in [Actor -> Place]
      /\ client[c].slot = x /\ WorkerTypeOK /\ WorkerOK(c) /\ ActorOK(x)
  BY <1>a, OnClient DEF Adopt, Busy, WithSlot, WorkerIInv, WorkerTypeOK, Actor
<1>2. Rests /\ (NoFault \/ Fault(c))
  BY <1>a, <1>w DEF Adopt, Rests, handover
<1>3. /\ History(c) /\ (Fault(c) => c \in broken' /\ Running \subseteq upset')
      /\ (NoFault => broken' = broken /\ upset' = upset)
  BY <1>1, <1>2, InTheHistory
<1>4. ASSUME NEW clients, Unavailable(x, clients), Shared(x, c),
             \/ ~client[c].open \/ client[c].model \notin installed \/ client[c].failed
             \/ c \in broken \/ Fault(c)
      PROVE  WorkerIInv'
  <2>1. x \in Request => x \in Running
    BY <1>1 DEF Running, Ended
  <2>2. x \in Request /\ ~at[x].counted => x \in upset'
    BY <1>1, <1>3, <1>4, <2>1, CalmOn DEF History
  <2>3. Own(x)
    BY <1>1, <1>2, <1>3, <1>4, <2>2, UnavailableOwn
  <2> QED
    BY <1>1, <1>2, <1>3, <1>4, <2>3, FrameKeeps
<1>5. /\ w \in Nat \ {0}
      /\ client[c].open /\ c \notin broken => <<c, w>> \in alive /\ w = client[c].starting
  BY <1>1, <1>w DEF ActorOK, Place
<1>6. CASE ~Adopted(c, w)
  <2>1. Unavailable(x, Untracked(c, w)) /\ alive' = Survivors(c, w)
    BY <1>a, <1>w, <1>6 DEF Adopt
  <2>2. Shared(x, c)
    BY <1>1, <1>2, <1>3, <1>5, <2>1, SharedDropped DEF Unavailable
  <2> QED
    BY <1>4, <1>5, <1>6, <2>1, <2>2 DEF Adopted
<1>7. CASE Adopted(c, w) /\ <<c, w>> \notin alive
  <2> DEFINE R == [client[c] EXCEPT !.starting = 0, !.failed = TRUE]
             cl == [client EXCEPT ![c].starting = 0, ![c].failed = TRUE]
  <2>1. Unavailable(x, cl) /\ alive' = alive /\ client' = Freed(x, cl)
    BY <1>a, <1>w, <1>7 DEF Adopt, Unavailable
  <2>2. client \in [Client -> ClientState] /\ client[c] \in ClientState
    BY <1>1 DEF WorkerTypeOK
  <2>3. /\ R \in ClientState /\ R.open = client[c].open /\ R.model = client[c].model
        /\ R.slot = client[c].slot /\ R.process = client[c].process /\ R.starting = 0
    BY <2>2 DEF ClientState
  <2>4. cl = [client EXCEPT ![c] = R]
    BY <2>2
  <2> HIDE DEF R, cl
  <2>5. client[c].process = 0 /\ c \in broken /\ c \in broken'
    BY <1>1, <1>3, <1>5, <1>7 DEF WorkerOK, Adopted, History
  <2>6. Work(cl, x, c) /\ cl[c].process = 0 /\ cl[c].starting = 0
    BY <2>2, <2>3, <2>4, <2>5, Update DEF Work
  <2>7. \A v \in Nat : <<c, v>> \notin alive
    BY <1>1, <1>5, <1>7, <2>5 DEF WorkerOK, Adopted, Tracked
  <2>8. Shared(x, c)
    BY <1>1, <1>2, <1>3, <2>1, <2>5, <2>6, <2>7, FreedWork, SharedStopped
  <2> QED
    BY <1>4, <2>1, <2>5, <2>8
<1>8. CASE Adopted(c, w) /\ <<c, w>> \in alive
  <2> DEFINE R == [client[c] EXCEPT !.starting = 0, !.process = w]
             taken == [client EXCEPT ![c].starting = 0, ![c].process = w]
             pc == IF x \in Client THEN "prepared" ELSE "exchange"
             P == [at[x] EXCEPT !.pc = pc]
  <2>1. /\ client' = IF x \in Client THEN Freed(x, taken) ELSE taken
        /\ at' = [at EXCEPT ![x].pc = pc] /\ alive' = alive /\ NoFault
    BY <1>a, <1>w, <1>8 DEF Adopt, Goes
  <2>2. client \in [Client -> ClientState] /\ client[c] \in ClientState
    BY <1>1 DEF WorkerTypeOK
  <2>3. /\ R \in ClientState /\ R.open = client[c].open /\ R.model = client[c].model
        /\ R.slot = client[c].slot /\ R.process = w /\ R.starting = 0
        /\ R.failed = client[c].failed
    BY <2>2 DEF ClientState
  <2>4. taken = [client EXCEPT ![c] = R]
    BY <2>2
  <2>5. at' = [at EXCEPT ![x] = P]
    BY <1>1, <2>1
  <2>6. /\ P \in Place /\ P.pc = pc /\ P.worker = at[x].worker /\ P.on = at[x].on
        /\ P.target = at[x].target /\ P.want = at[x].want /\ P.counted = at[x].counted
        /\ P.left = at[x].left
    BY <1>1 DEF Place, Busy, WithSlot
  <2> HIDE DEF R, taken, P
  <2>7. /\ Work(taken, x, c) /\ taken[c].process = w /\ taken[c].starting = 0
        /\ taken[c].slot = x /\ taken[c].failed = client[c].failed
    BY <1>1, <2>2, <2>3, <2>4, Update DEF Work
  <2>8. /\ Work(client', x, c) /\ client'[c].process = w /\ client'[c].starting = 0
        /\ client'[c].failed = client[c].failed
    BY <2>1, <2>7, FreedWork
  <2>9. client[c].starting = w /\ client[c].process = 0 /\ client[c].open
    BY <1>1, <1>5, <1>8 DEF WorkerOK, Adopted
  <2>10. \A v \in Nat : <<c, v>> \in alive => v = w
    BY <1>1, <2>9 DEF WorkerOK, Tracked
  <2>11. broken' = broken /\ installed' = installed
    BY <1>2, <1>3, <2>1 DEF Rests
  <2>12. WorkerOK(c)'
    BY <1>1, <1>5, <1>8, <2>1, <2>8, <2>9, <2>10, <2>11 DEF WorkerOK, Tracked, Work
  <2>13. Shared(x, c)
    BY <1>1, <2>1, <2>8, <2>12 DEF Shared, Work, SameWorker, WorkerTypeOK
  <2>14. at' \in [Actor -> Place] /\ (\A y \in Actor \ {x} : at'[y] = at[y]) /\ at'[x] = P
    BY <1>1, <2>5, <2>6
  <2>15. CASE x \in Client
    <3>1. \A d \in Client : client'[d].model = client[d].model
      BY <2>8 DEF Work
    <3>2. ActorOK(x)'
      BY <1>1, <2>6, <2>14, <2>15, <3>1, Distinct DEF ActorOK, Busy, WithSlot
    <3>3. Own(x)
      BY <2>14, <2>15, <3>2, Distinct DEF Own
    <3> QED
      BY <1>1, <1>2, <1>3, <2>13, <3>3, FrameKeeps
  <2>16. CASE x \in Request
    <3>1. x \notin Client /\ at[x].left # {}
      BY <1>1, <2>16, Distinct, OnClient
    <3>2. client' = taken
      BY <2>1, <3>1
    <3>3. Moved(x, c)
      BY <1>w, <1>5, <1>8, <2>1, <2>6, <2>7, <2>14, <3>1, <3>2 DEF Moved, Busy, WithSlot
    <3>4. Own(x)
      BY <1>1, <1>2, <1>3, <2>13, <3>3, GoesOwn
    <3> QED
      BY <1>1, <1>2, <1>3, <2>13, <3>4, FrameKeeps
  <2> QED
    BY <2>15, <2>16 DEF Actor
<1> QED
  BY <1>6, <1>7, <1>8

LEMMA ExchangeStep ==
    ASSUME WorkerAssumption, WorkerIInv, NEW r \in Request, Exchange(r)
    PROVE  WorkerIInv'
<1>a. PICK c \in Client : c = at[r].on
  BY OnClient DEF Exchange, Busy, WithSlot, Actor
<1>1. /\ r \in Actor /\ at[r].pc = "exchange" /\ at[r].pc \in Busy /\ at[r].pc \in WithSlot
      /\ c = at[r].on /\ at[r] \in Place /\ at \in [Actor -> Place]
      /\ client[c].slot = r /\ WorkerTypeOK /\ WorkerOK(c) /\ ActorOK(r)
  BY <1>a, OnClient DEF Exchange, Busy, WithSlot, WorkerIInv, WorkerTypeOK, Actor
<1>2. Rests /\ (NoFault \/ Fault(c))
  BY <1>a DEF Exchange, Rests, handover
<1>3. /\ History(c) /\ (Fault(c) => c \in broken' /\ Running \subseteq upset')
      /\ (NoFault => broken' = broken /\ upset' = upset)
  BY <1>1, <1>2, InTheHistory
<1>4. alive' = alive /\ broken' = broken
  BY <1>3 DEF Exchange
<1>5. CASE Goes(r, "store") /\ client' = client
  <2>1. Shared(r, c)
    BY <1>1, <1>2, <1>3, <1>4, <1>5, SameWork, SharedSame
  <2>2. "store" \in Busy \ {"starting", "adopt", "exchange"} /\ r \notin Client
    BY Distinct DEF Busy, WithSlot
  <2>3. Moved(r, c)
    BY <1>1, <1>5, <2>2, GoesMoved DEF Goes
  <2> QED
    BY <1>1, <1>2, <1>3, <2>1, <2>3, GoesOwn, FrameKeeps
<1>6. CASE Returns(r, client)
  BY <1>1, <1>2, <1>3, <1>4, <1>6, SharedFreed, ReturnsOwn, FrameKeeps DEF Returns
<1> QED
  BY <1>5, <1>6 DEF Exchange

LEMMA ExchangeBreaksStep ==
    ASSUME WorkerAssumption, WorkerIInv, NEW r \in Request, ExchangeBreaks(r)
    PROVE  WorkerIInv'
<1>a. PICK c \in Client : c = at[r].on
  BY OnClient DEF ExchangeBreaks, Busy, WithSlot, Actor
<1>w. PICK w \in Nat : w = at[r].worker
  BY <1>a, OnClient DEF ExchangeBreaks, Busy, WithSlot, Place, Actor
<1>1. /\ r \in Actor /\ at[r].pc = "exchange" /\ at[r].pc \in Busy /\ at[r].pc \in WithSlot
      /\ c = at[r].on /\ at[r] \in Place /\ at \in [Actor -> Place]
      /\ client[c].slot = r /\ WorkerTypeOK /\ WorkerOK(c) /\ ActorOK(r)
  BY <1>a, OnClient DEF ExchangeBreaks, Busy, WithSlot, WorkerIInv, WorkerTypeOK, Actor
<1>2. Rests /\ (NoFault \/ Fault(c))
  BY <1>a, <1>w DEF ExchangeBreaks, Rests, handover
<1>3. /\ History(c) /\ (Fault(c) => c \in broken' /\ Running \subseteq upset')
      /\ (NoFault => broken' = broken /\ upset' = upset)
  BY <1>1, <1>2, InTheHistory
<1>4. ASSUME NEW clients, Unavailable(r, clients), Shared(r, c),
             \/ ~client[c].open \/ client[c].model \notin installed \/ client[c].failed
             \/ c \in broken \/ Fault(c)
      PROVE  WorkerIInv'
  <2>1. r \in Running
    BY <1>1 DEF Running, Ended
  <2>2. ~at[r].counted => r \in upset'
    BY <1>1, <1>3, <1>4, <2>1, CalmOn DEF History
  <2>3. Own(r)
    BY <1>1, <1>2, <1>3, <1>4, <2>2, UnavailableOwn
  <2> QED
    BY <1>1, <1>2, <1>3, <1>4, <2>3, FrameKeeps
<1>5. w \in Nat \ {0} /\ (client[c].open /\ c \notin broken => <<c, w>> \in alive)
  BY <1>1, <1>w DEF ActorOK, Place
<1>6. /\ alive' = Survivors(c, w)
      /\ IF <<c, w>> \in alive THEN Fault(c) ELSE NoFault
  BY <1>a, <1>w DEF ExchangeBreaks
<1>7. CASE at[r].attempt = 0
  <2> DEFINE P == [at[r] EXCEPT !.pc = "ensure", !.attempt = 1]
  <2>1. client' = Untracked(c, w) /\ at' = [at EXCEPT ![r].pc = "ensure", ![r].attempt = 1]
    BY <1>a, <1>w, <1>7 DEF ExchangeBreaks
  <2>2. Shared(r, c)
    BY <1>1, <1>2, <1>3, <1>5, <1>6, <2>1, SharedDropped
  <2>3. at' = [at EXCEPT ![r] = P]
    BY <1>1, <2>1
  <2>4. /\ P \in Place /\ P.pc = "ensure" /\ P.on = at[r].on /\ P.target = at[r].target
        /\ P.want = at[r].want /\ P.counted = at[r].counted /\ P.left = at[r].left
    BY <1>1 DEF Place, Busy, WithSlot
  <2> HIDE DEF P
  <2>5. at' \in [Actor -> Place] /\ (\A y \in Actor \ {r} : at'[y] = at[y]) /\ at'[r] = P
    BY <1>1, <2>3, <2>4
  <2>6. client'[c].slot = r /\ at[r].left # {} /\ r \notin Client
    BY <1>1, <2>1, UntrackedFacts, OnClient, Distinct
  <2>7. Moved(r, c)
    BY <2>4, <2>5, <2>6 DEF Moved, Busy, WithSlot
  <2> QED
    BY <1>1, <1>2, <1>3, <2>2, <2>7, GoesOwn, FrameKeeps
<1>8. CASE at[r].attempt # 0
  <2>1. Unavailable(r, FailedClient(c, w))
    BY <1>a, <1>w, <1>8 DEF ExchangeBreaks
  <2>2. Tracked(c, w) /\ client[c].open => c \in broken'
    BY <1>1, <1>3, <1>5, <1>6 DEF WorkerOK, Tracked, History
  <2>3. Shared(r, c)
    BY <1>1, <1>2, <1>3, <1>5, <1>6, <2>1, <2>2, SharedDropped DEF Unavailable
  <2> QED
    BY <1>4, <1>5, <1>6, <2>1, <2>3
<1> QED
  BY <1>7, <1>8

LEMMA ExchangeFailsStep ==
    ASSUME WorkerAssumption, WorkerIInv, NEW r \in Request, ExchangeFails(r)
    PROVE  WorkerIInv'
<1>a. PICK c \in Client : c = at[r].on
  BY OnClient DEF ExchangeFails, Busy, WithSlot, Actor
<1>w. PICK w \in Nat : w = at[r].worker
  BY <1>a, OnClient DEF ExchangeFails, Busy, WithSlot, Place, Actor
<1>1. /\ r \in Actor /\ at[r].pc = "exchange" /\ at[r].pc \in Busy /\ at[r].pc \in WithSlot
      /\ c = at[r].on /\ at[r] \in Place /\ at \in [Actor -> Place]
      /\ client[c].slot = r /\ WorkerTypeOK /\ WorkerOK(c) /\ ActorOK(r)
  BY <1>a, OnClient DEF ExchangeFails, Busy, WithSlot, WorkerIInv, WorkerTypeOK, Actor
<1>2. Rests /\ (NoFault \/ Fault(c))
  BY <1>a, <1>w DEF ExchangeFails, Rests, handover
<1>3. /\ History(c) /\ (Fault(c) => c \in broken' /\ Running \subseteq upset')
      /\ (NoFault => broken' = broken /\ upset' = upset)
  BY <1>1, <1>2, InTheHistory
<1>4. ASSUME NEW clients, Unavailable(r, clients), Shared(r, c),
             \/ ~client[c].open \/ client[c].model \notin installed \/ client[c].failed
             \/ c \in broken \/ Fault(c)
      PROVE  WorkerIInv'
  <2>1. r \in Running
    BY <1>1 DEF Running, Ended
  <2>2. ~at[r].counted => r \in upset'
    BY <1>1, <1>3, <1>4, <2>1, CalmOn DEF History
  <2>3. Own(r)
    BY <1>1, <1>2, <1>3, <1>4, <2>2, UnavailableOwn
  <2> QED
    BY <1>1, <1>2, <1>3, <1>4, <2>3, FrameKeeps
<1>5. w \in Nat \ {0} /\ Fault(c) /\ alive' = Survivors(c, w)
  BY <1>1, <1>a, <1>w DEF ActorOK, ExchangeFails
<1>6. CASE Unavailable(r, FailedClient(c, w))
  <2>1. Shared(r, c)
    BY <1>1, <1>2, <1>3, <1>5, <1>6, SharedDropped DEF Unavailable
  <2> QED
    BY <1>4, <1>5, <1>6, <2>1
<1>7. CASE Returns(r, Untracked(c, w))
  <2>1. Shared(r, c)
    BY <1>1, <1>2, <1>3, <1>5, <1>7, SharedDropped DEF Returns
  <2> QED
    BY <1>1, <1>2, <1>3, <1>7, <2>1, ReturnsOwn, FrameKeeps DEF Returns
<1> QED
  BY <1>a, <1>w, <1>6, <1>7 DEF ExchangeFails

LEMMA StoreStep ==
    ASSUME WorkerAssumption, WorkerIInv, NEW r \in Request, Store(r)
    PROVE  WorkerIInv'
<1>a. PICK c \in Client : c = at[r].on
  BY OnClient DEF Store, Busy, WithSlot, Actor
<1>1. /\ r \in Actor /\ at[r].pc = "store" /\ at[r].pc \in Busy /\ at[r].pc \in WithSlot
      /\ c = at[r].on /\ at[r] \in Place /\ at \in [Actor -> Place]
      /\ client[c].slot = r /\ WorkerTypeOK /\ WorkerOK(c) /\ ActorOK(r)
  BY <1>a, OnClient DEF Store, Busy, WithSlot, WorkerIInv, WorkerTypeOK, Actor
<1>2. Rests /\ (NoFault \/ Fault(c))
  BY <1>a DEF Store, Rests, handover
<1>3. /\ History(c) /\ (Fault(c) => c \in broken' /\ Running \subseteq upset')
      /\ (NoFault => broken' = broken /\ upset' = upset)
  BY <1>1, <1>2, InTheHistory
<1> DEFINE b == Batch(r)
           R == [client[c] EXCEPT !.cache = @ \cup {b}]
           cl == [client EXCEPT ![c].cache = @ \cup {b}]
<1>4. Inspected(r, at[r].left \ {b}, cl) /\ alive' = alive
  BY <1>a DEF Store
<1>5. b \in Text /\ at[r].left \subseteq Text
  BY <1>1, OnClient, BatchIn DEF Place
<1>6. client \in [Client -> ClientState] /\ client[c] \in ClientState
  BY <1>1 DEF WorkerTypeOK
<1> HIDE DEF b
<1>7. /\ R \in ClientState /\ R.open = client[c].open /\ R.model = client[c].model
      /\ R.slot = client[c].slot /\ R.process = client[c].process
      /\ R.starting = client[c].starting /\ R.failed = client[c].failed
  BY <1>5, <1>6 DEF ClientState
<1>8. cl = [client EXCEPT ![c] = R]
  BY <1>6
<1>9. client' = Freed(r, cl)
  BY <1>4 DEF Inspected, Returns
<1> HIDE DEF R, cl
<1>10. /\ Work(cl, r, c) /\ cl[c].process = client[c].process
       /\ cl[c].starting = client[c].starting /\ cl[c].failed = client[c].failed
  BY <1>6, <1>7, <1>8, Update DEF Work
<1>11. Shared(r, c)
  BY <1>1, <1>2, <1>3, <1>4, <1>9, <1>10, FreedWork, SharedSame
<1>12. at[r].left \ {b} \in SUBSET Text
  BY <1>5
<1> QED
  BY <1>1, <1>2, <1>3, <1>4, <1>11, <1>12, InspectedOwn, FrameKeeps

LEMMA GiveUpStep ==
    ASSUME WorkerAssumption, WorkerIInv, NEW r \in Request, GiveUp(r)
    PROVE  WorkerIInv'
<1>a. PICK c \in Client : c = at[r].on
  BY OnClient DEF GiveUp, Busy, WithSlot, Actor
<1>w. PICK w \in Nat : w = at[r].worker
  BY <1>a, OnClient DEF GiveUp, Busy, WithSlot, Place, Actor
<1>1. r \in Actor /\ at[r].pc \in Busy /\ c = at[r].on /\ ActorOK(r)
  BY <1>a DEF GiveUp, Busy, WithSlot, Actor, WorkerIInv
<1>2. Rests /\ NoFault
  BY DEF GiveUp, Rests, handover
<1>3. History(c)
  BY <1>1, <1>2, InTheHistory
<1>4. CASE at[r].pc \in {"starting", "exchange"}
  <2>1. Returns(r, Untracked(c, w)) /\ alive' = Survivors(c, w)
    BY <1>a, <1>w, <1>4 DEF GiveUp, Abandoned
  <2>2. w \in Nat \ {0} /\ at[r].pc \in WithSlot
    BY <1>1, <1>w, <1>4 DEF ActorOK, WithSlot
  <2>3. Shared(r, c)
    BY <1>1, <1>2, <1>3, <2>1, <2>2, SharedDropped DEF Returns
  <2> QED
    BY <1>1, <1>2, <1>3, <2>1, <2>3, ReturnsOwn, FrameKeeps DEF Returns
<1>5. CASE at[r].pc \notin {"starting", "exchange"}
  <2>1. Returns(r, client) /\ alive' = alive
    BY <1>5 DEF GiveUp
  <2> QED
    BY <1>1, <1>2, <1>3, <2>1, SharedFreed, ReturnsOwn, FrameKeeps DEF Returns
<1> QED
  BY <1>4, <1>5

-----------------------------------------------------------------------------
(* The steps of the policy, of the installations and of the hand-over.      *)

\* A step after which every request that runs is upset leaves calm what it was.
LEMMA CalmAfterAll ==
    ASSUME WorkerAssumption, WorkerIInv, upset' = upset \cup Running,
           \A r \in Request : at'[r] = at[r]
    PROVE  \A r \in Request : CalmOK(r)'
BY DEF WorkerIInv, CalmOK, Running

LEMMA PatchPolicyStep ==
    ASSUME WorkerAssumption, WorkerIInv, NEW p \in Policy, PatchPolicy(p)
    PROVE  WorkerIInv'
<1> USE DEF PatchPolicy
<1>1. WorkerTypeOK'
  BY DEF WorkerIInv, WorkerTypeOK, handover, Running
<1>2. \A x \in Actor : ActorOK(x)'
  BY DEF WorkerIInv, ActorOK, handover
<1>3. \A c \in Client : WorkerOK(c)'
  BY DEF WorkerIInv, WorkerOK, Tracked
<1>4. \A c \in Client : KeptOK(c)'
  BY DEF WorkerIInv, KeptOK, handover
<1>5. HandoverOK'
  <2>1. PICK n \in Nat : /\ \A c \in Client : client[c].model # Off <=> c <= n
                         /\ n <= policies
    BY DEF WorkerIInv, HandoverOK, Numbered, PrivacyMuFree
  <2>2. changing' = <<p>> /\ changing' # <<>> /\ changing'[1] = p
    OBVIOUS
  <2>3. Numbered'
    <3>1. n + 1 <= policies' /\ client' = client
      BY <2>1 DEF WorkerIInv, WorkerTypeOK
    <3> QED
      BY <2>1, <2>2, <3>1 DEF Numbered
  <2>4. policies' <= MaxPolicies
    BY DEF WorkerIInv, WorkerTypeOK, WorkerAssumption
  <2>5. changing' # <<>> => released' = {} /\ (changing'[1] \in Model => changing'[1] \in installed')
    BY <2>2 DEF handover, PrivacyMuFree
  <2>6. HandoverOK /\ UNCHANGED <<policy, target, prep, fallback, released, client>>
    BY DEF WorkerIInv, handover
  <2> HIDE DEF PatchPolicy
  <2>7. /\ policy' \in Model => target' # 0
        /\ target' # 0 => /\ client'[target'].open /\ client'[target'].model = policy'
                          /\ target' \notin released'
        /\ fallback' # target' \/ fallback' = 0
        /\ prep'.of \in {0, target'} /\ (prep' = NoPrep => fallback' = 0)
    BY <2>6 DEF HandoverOK
  <2> QED
    BY <2>3, <2>4, <2>5, <2>7 DEF HandoverOK
<1>6. \A r \in Request : CalmOK(r)'
  BY CalmAfterAll
<1> QED
  BY <1>1, <1>2, <1>3, <1>4, <1>5, <1>6 DEF WorkerIInv

LEMMA SyncedPolicyStep ==
    ASSUME WorkerAssumption, WorkerIInv, NEW p \in Policy, SyncedPolicy(p)
    PROVE  WorkerIInv'
<1> USE DEF SyncedPolicy, Trouble
<1>1. WorkerTypeOK'
  BY DEF WorkerIInv, WorkerTypeOK, handover, Running
<1>2. \A x \in Actor : ActorOK(x)'
  BY DEF WorkerIInv, ActorOK, handover
<1>3. \A c \in Client : WorkerOK(c)'
  BY DEF WorkerIInv, WorkerOK, Tracked
<1>4. \A c \in Client : KeptOK(c)'
  BY DEF WorkerIInv, KeptOK, handover
<1>5. HandoverOK'
  BY DEF WorkerIInv, HandoverOK, Numbered, handover
<1>6. \A r \in Request : CalmOK(r)'
  BY CalmAfterAll
<1> QED
  BY <1>1, <1>2, <1>3, <1>4, <1>5, <1>6 DEF WorkerIInv

LEMMA DeleteModelStep ==
    ASSUME WorkerAssumption, WorkerIInv, NEW m \in Model, DeleteModel(m)
    PROVE  WorkerIInv'
<1> USE DEF DeleteModel, Trouble
<1>1. WorkerTypeOK'
  BY DEF WorkerIInv, WorkerTypeOK, handover, Running
<1>2. ASSUME NEW x \in Actor PROVE ActorOK(x)'
  <2>1. ActorOK(x) /\ broken \subseteq broken'
    BY DEF WorkerIInv
  <2> QED
    BY <2>1 DEF ActorOK, handover
<1>3. ASSUME NEW c \in Client PROVE WorkerOK(c)'
  <2>1. WorkerOK(c) /\ broken \subseteq broken' /\ (client[c].model = m => c \in broken')
    BY DEF WorkerIInv
  <2> QED
    BY <2>1 DEF WorkerOK, Tracked
<1>4. \A c \in Client : KeptOK(c)'
  BY DEF WorkerIInv, KeptOK, handover
<1>5. HandoverOK'
  BY DEF WorkerIInv, HandoverOK, Numbered, handover, PrivacyMuFree
<1>6. \A r \in Request : CalmOK(r)'
  BY CalmAfterAll
<1> QED
  BY <1>1, <1>2, <1>3, <1>4, <1>5, <1>6 DEF WorkerIInv

LEMMA CrashStep ==
    ASSUME WorkerAssumption, WorkerIInv, NEW c \in Client, NEW w \in Nat, Crash(c, w)
    PROVE  WorkerIInv'
<1> USE DEF Crash, Fault, Trouble
<1>0. broken' = broken \cup {c}
  OBVIOUS
<1>1. WorkerTypeOK'
  BY DEF WorkerIInv, WorkerTypeOK, handover, Running
<1>2. ASSUME NEW x \in Actor PROVE ActorOK(x)'
  <2>1. ActorOK(x) /\ (at[x].pc \in Busy => at[x].on \in Client)
    BY DEF WorkerIInv, ActorOK
  <2>2. at[x].pc \in {"starting", "adopt", "exchange"} /\ at[x].on \notin broken' =>
          (<<at[x].on, at[x].worker>> \in alive => <<at[x].on, at[x].worker>> \in alive')
    BY <1>0
  <2> QED
    BY <1>0, <2>1, <2>2 DEF ActorOK, handover
<1>3. ASSUME NEW d \in Client PROVE WorkerOK(d)'
  <2>1. WorkerOK(d)
    BY DEF WorkerIInv
  <2> QED
    BY <1>0, <2>1 DEF WorkerOK, Tracked
<1>4. \A d \in Client : KeptOK(d)'
  BY DEF WorkerIInv, KeptOK, handover
<1>5. HandoverOK'
  BY DEF WorkerIInv, HandoverOK, Numbered, handover
<1>6. \A r \in Request : CalmOK(r)'
  BY CalmAfterAll
<1> QED
  BY <1>1, <1>2, <1>3, <1>4, <1>5, <1>6 DEF WorkerIInv

\* A client k is closed: nobody needs it, or it was released.
LEMMA ClosedKeeps ==
    ASSUME WorkerAssumption, WorkerIInv, NEW k \in Client, k # target,
           client' = Closed(k), alive' = alive \ Workers(k),
           UNCHANGED <<stored, changing, installed, policy, target, prep, fallback, broken, upset,
                       policies>>,
           released' \subseteq released, released \ {k} \subseteq released', troubles' \in Nat,
           at' \in [Actor -> Place], \A r \in Request : at'[r] = at[r],
           \A p \in Client : \/ at'[p] = at[p]
                             \/ at[p].pc = "retiring" /\ at[p].on = k /\ at'[p].pc = "idle"
    PROVE  WorkerIInv'
<1>1. /\ client' \in [Client -> ClientState]
      /\ \A d \in Client \ {k} : client'[d] = client[d]
      /\ ~client'[k].open /\ client'[k].model = client[k].model
      /\ client'[k].slot = client[k].slot /\ ~client'[k].failed
      /\ client'[k].process = 0 /\ client'[k].starting = 0
  BY ClosedFacts DEF WorkerIInv
<1>2. /\ \A d \in Client \ {k} : \A w \in Nat : <<d, w>> \in alive' <=> <<d, w>> \in alive
      /\ \A w \in Nat : <<k, w>> \notin alive'
      /\ alive' \subseteq alive
  BY WorkersGone
<1>3. WorkerTypeOK'
  BY <1>1, <1>2 DEF WorkerIInv, WorkerTypeOK
<1>4. ASSUME NEW x \in Actor PROVE ActorOK(x)'
  <2>1. ActorOK(x) /\ at[x].worker \in Nat
    BY DEF WorkerIInv, WorkerTypeOK, Place
  <2>2. CASE at'[x] = at[x]
    <3>1. \A d \in Client : client'[d].model = client[d].model /\ client'[d].slot = client[d].slot
      BY <1>1
    <3>2. at[x].pc \in {"starting", "adopt", "exchange"} => at[x].on \in Client
      BY <2>1 DEF ActorOK, Busy, WithSlot
    <3>3. at[x].pc \in WithSlot => at[x].on \in Client
      BY <2>1 DEF ActorOK, Busy
    <3> QED
      BY <1>1, <1>2, <2>1, <2>2, <3>1, <3>2, <3>3 DEF ActorOK
  <2>3. CASE x \in Client /\ at'[x].pc = "idle"
    BY <2>3, Distinct DEF ActorOK, Busy, WithSlot
  <2> QED
    BY <2>2, <2>3 DEF Actor
<1>5. ASSUME NEW d \in Client PROVE WorkerOK(d)'
  <2>1. WorkerOK(d)
    BY DEF WorkerIInv
  <2>2. CASE d = k
    BY <1>1, <1>2, <2>1, <2>2 DEF WorkerOK
  <2>3. CASE d # k
    <3>1. client'[d] = client[d] /\ client[d].process \in Nat /\ client[d].starting \in Nat
      BY <1>1, <2>3 DEF WorkerIInv, WorkerTypeOK, ClientState
    <3> QED
      BY <1>2, <2>1, <2>3, <3>1 DEF WorkerOK, Tracked
  <2> QED
    BY <2>2, <2>3
<1>6. ASSUME NEW d \in Client PROVE KeptOK(d)'
  <2>1. KeptOK(d)
    BY DEF WorkerIInv
  <2>2. CASE d = k
    BY <1>1, <2>1, <2>2 DEF KeptOK
  <2>3. CASE d # k
    <3>1. client'[d] = client[d]
      BY <1>1, <2>3
    <3> QED
      BY <2>1, <2>3, <3>1 DEF KeptOK
  <2> QED
    BY <2>2, <2>3
<1>7. HandoverOK'
  <2>1. HandoverOK /\ (target # 0 => target \in Client)
    BY DEF WorkerIInv, WorkerTypeOK
  <2>2. \A d \in Client : client'[d].model = client[d].model
    BY <1>1
  <2>3. target # 0 => client'[target] = client[target]
    BY <1>1, <2>1
  <2> QED
    BY <2>1, <2>2, <2>3 DEF HandoverOK, Numbered
<1>8. \A r \in Request : CalmOK(r)'
  BY DEF WorkerIInv, CalmOK
<1> QED
  BY <1>3, <1>4, <1>5, <1>6, <1>7, <1>8 DEF WorkerIInv

LEMMA CloseStep ==
    ASSUME WorkerAssumption, WorkerIInv, NEW c \in Client, Close(c)
    PROVE  WorkerIInv'
<1>1. c # target
  BY Distinct DEF Close, WorkerIInv, HandoverOK
<1>2. at' \in [Actor -> Place] /\ troubles' \in Nat
  BY DEF Close, WorkerIInv, WorkerTypeOK
<1> QED
  BY <1>1, <1>2, ClosedKeeps DEF Close

LEMMA RetireStep ==
    ASSUME WorkerAssumption, WorkerIInv, NEW c \in Client, Retire(c)
    PROVE  WorkerIInv'
<1>1. ActorOK(c) /\ at \in [Actor -> Place] /\ c \in Actor /\ c \notin Request
  BY Distinct DEF WorkerIInv, WorkerTypeOK, Actor
<1>2. PICK k \in Client : k = at[c].on
  BY <1>1 DEF ActorOK, Retire
<1>3. k # target
  BY <1>1, <1>2 DEF ActorOK, Retire
<1>4. /\ at' \in [Actor -> Place] /\ \A y \in Actor \ {c} : at'[y] = at[y]
      /\ at'[c].pc = "idle"
  BY <1>1, RestPlace DEF Retire, Rest
<1>5. /\ \A r \in Request : at'[r] = at[r]
      /\ \A p \in Client : \/ at'[p] = at[p]
                           \/ at[p].pc = "retiring" /\ at[p].on = k /\ at'[p].pc = "idle"
  BY <1>1, <1>2, <1>4 DEF Retire, Actor
<1>6. /\ client' = Closed(k) /\ alive' = alive \ Workers(k) /\ troubles' \in Nat
      /\ UNCHANGED <<stored, changing, installed, policy, target, prep, fallback, broken, upset,
                     policies, released>>
  BY <1>2 DEF Retire, NoFault, handover, WorkerIInv, WorkerTypeOK
<1> QED
  BY <1>3, <1>4, <1>5, <1>6, ClosedKeeps

LEMMA ReadPolicyStep ==
    ASSUME WorkerAssumption, WorkerIInv, NEW r \in Request, ReadPolicy(r)
    PROVE  WorkerIInv'
<1> DEFINE R == [Rest EXCEPT !.pc = "read", !.want = stored]
<1>1. /\ at \in [Actor -> Place] /\ r \in Actor /\ r \notin Client /\ stored \in Policy
      /\ WorkerTypeOK /\ HandoverOK
  BY Distinct DEF WorkerIInv, WorkerTypeOK, Actor
<1>2. /\ R \in Place /\ R.pc = "read" /\ R.want = stored
  BY <1>1, RestPlace DEF Rest, Place
<1>3. at' = [at EXCEPT ![r] = R]
  BY DEF ReadPolicy
<1> HIDE DEF R
<1>4. at' \in [Actor -> Place] /\ (\A y \in Actor \ {r} : at'[y] = at[y]) /\ at'[r] = R
  BY <1>1, <1>2, <1>3
<1>5. /\ UNCHANGED <<stored, changing, installed, policy, target, prep, fallback, released,
                    client, alive, broken, policies, troubles>>
      /\ stored \in Model
      /\ upset \subseteq upset' /\ upset' \subseteq upset \cup {r}
      /\ r \notin upset' => /\ changing = <<>> /\ stored = policy /\ stored \in installed
                            /\ {target, fallback} \cap broken = {}
  BY DEF ReadPolicy, handover
<1>6. WorkerTypeOK'
  BY <1>1, <1>4, <1>5 DEF WorkerTypeOK
<1>7. ASSUME NEW y \in Actor PROVE ActorOK(y)'
  <2>1. CASE y = r
    BY <1>1, <1>2, <1>4, <2>1, Distinct DEF ActorOK, Busy, WithSlot
  <2>2. CASE y # r
    <3>1. at'[y] = at[y] /\ ActorOK(y)
      BY <1>4, <2>2 DEF WorkerIInv
    <3> QED
      BY <1>5, <3>1 DEF ActorOK
  <2> QED
    BY <2>1, <2>2
<1>8. \A c \in Client : WorkerOK(c)'
  BY <1>5 DEF WorkerIInv, WorkerOK, Tracked
<1>9. ASSUME NEW c \in Client PROVE KeptOK(c)'
  <2>1. KeptOK(c) /\ \A p \in Client : at'[p] = at[p]
    BY <1>1, <1>4 DEF WorkerIInv, Actor
  <2> QED
    BY <1>5, <2>1 DEF KeptOK
<1>10. HandoverOK'
  BY <1>1, <1>5 DEF HandoverOK, Numbered
<1>11. ASSUME NEW q \in Request PROVE CalmOK(q)'
  <2>1. CASE q = r
    BY <1>2, <1>4, <1>5, <2>1 DEF CalmOK, Ended
  <2>2. CASE q # r
    <3>1. at'[q] = at[q] /\ CalmOK(q)
      BY <1>4, <2>2 DEF WorkerIInv, Actor
    <3> QED
      BY <1>5, <2>2, <3>1 DEF CalmOK
  <2> QED
    BY <2>1, <2>2
<1> QED
  BY <1>6, <1>7, <1>8, <1>9, <1>10, <1>11 DEF WorkerIInv

\* A step that moves one goroutine only, outside a client.
LEMMA MoveKeeps ==
    ASSUME WorkerAssumption, WorkerIInv, NEW x \in Actor,
           UNCHANGED <<stored, changing, installed, policy, target, released, client, alive,
                       upset, broken, policies, troubles>>,
           at' \in [Actor -> Place], \A y \in Actor \ {x} : at'[y] = at[y],
           ActorOK(x)', x \in Request => CalmOK(x)' /\ UNCHANGED fallback,
           WorkerTypeOK', HandoverOK', \A c \in Client : KeptOK(c)'
    PROVE  WorkerIInv'
<1>1. ASSUME NEW y \in Actor PROVE ActorOK(y)'
  <2>1. CASE y # x
    <3>1. at'[y] = at[y] /\ ActorOK(y)
      BY <2>1 DEF WorkerIInv
    <3> QED
      BY <3>1 DEF ActorOK
  <2> QED
    BY <2>1
<1>2. \A c \in Client : WorkerOK(c)'
  BY DEF WorkerIInv, WorkerOK, Tracked
<1>3. ASSUME NEW q \in Request PROVE CalmOK(q)'
  <2>1. CASE q # x
    <3>1. at'[q] = at[q] /\ CalmOK(q)
      BY <2>1 DEF WorkerIInv, Actor
    <3> QED
      BY <3>1 DEF CalmOK
  <2> QED
    BY <2>1
<1> QED
  BY <1>1, <1>2, <1>3 DEF WorkerIInv

LEMMA DetectStep ==
    ASSUME WorkerAssumption, WorkerIInv, NEW r \in Request, Detect(r)
    PROVE  WorkerIInv'
<1> DEFINE waits == /\ target # 0 /\ prep.state \in {"preparing", "failed"}
                    /\ fallback # 0 /\ at[r].want = client[target].model
<1>1. /\ r \in Actor /\ r \notin Client /\ at[r].pc = "read" /\ ActorOK(r) /\ CalmOK(r)
      /\ at \in [Actor -> Place] /\ at[r] \in Place /\ HandoverOK /\ WorkerTypeOK
      /\ installed \subseteq Model
  BY Distinct DEF Detect, Actor, WorkerIInv, WorkerTypeOK
<1>2. UNCHANGED <<stored, changing, installed, policy, target, prep, fallback, released, client,
                  alive, upset, broken, policies, troubles>>
  BY DEF Detect, NoFault, handover
<1>3. ASSUME at' \in [Actor -> Place], \A y \in Actor \ {r} : at'[y] = at[y],
             ActorOK(r)', CalmOK(r)'
      PROVE  WorkerIInv'
  <2>1. WorkerTypeOK' /\ HandoverOK'
    BY <1>1, <1>2, <1>3 DEF WorkerTypeOK, HandoverOK, Numbered
  <2>2. ASSUME NEW c \in Client PROVE KeptOK(c)'
    <3>1. KeptOK(c) /\ \A p \in Client : at'[p] = at[p]
      BY <1>1, <1>3 DEF WorkerIInv, Actor
    <3> QED
      BY <1>2, <3>1 DEF KeptOK
  <2> QED
    BY <1>1, <1>2, <1>3, <2>1, <2>2, MoveKeeps
<1>4. CASE target = 0
  <2> DEFINE R == [Rest EXCEPT !.pc = "refused"]
  <2>1. at' = [at EXCEPT ![r] = R]
    BY <1>4 DEF Detect
  <2>2. R \in Place /\ R.pc = "refused"
    BY RestPlace DEF Rest, Place, Ended
  <2> HIDE DEF R
  <2>3. at' \in [Actor -> Place] /\ (\A y \in Actor \ {r} : at'[y] = at[y]) /\ at'[r] = R
    BY <1>1, <2>1, <2>2
  <2>4. ActorOK(r)'
    BY <1>1, <2>2, <2>3 DEF ActorOK, Busy, WithSlot
  <2>5. r \in upset
    BY <1>1, <1>4 DEF CalmOK, HandoverOK, Ended
  <2>6. CalmOK(r)'
    BY <1>2, <2>5 DEF CalmOK
  <2> QED
    BY <1>3, <2>3, <2>4, <2>6
<1>5. CASE target # 0 /\ waits /\ fallback = Regex
  <2> DEFINE R == [Rest EXCEPT !.pc = "done"]
  <2>1. at' = [at EXCEPT ![r] = R]
    BY <1>5 DEF Detect
  <2>2. R \in Place /\ R.pc = "done"
    BY RestPlace DEF Rest, Place, Ended
  <2> HIDE DEF R
  <2>3. at' \in [Actor -> Place] /\ (\A y \in Actor \ {r} : at'[y] = at[y]) /\ at'[r] = R
    BY <1>1, <2>1, <2>2
  <2>4. ActorOK(r)' /\ CalmOK(r)'
    BY <1>1, <2>2, <2>3 DEF ActorOK, CalmOK, Busy, WithSlot, Ended
  <2> QED
    BY <1>3, <2>3, <2>4
<1>6. CASE target # 0 /\ ~(waits /\ fallback = Regex)
  <2> DEFINE on == IF waits THEN fallback ELSE target
             R == [at[r] EXCEPT !.pc = "check", !.left = Text, !.target = target, !.on = on,
                                !.counted = waits]
  <2>1. at' = [at EXCEPT ![r].pc = "check", ![r].left = Text, ![r].target = target,
                         ![r].on = on, ![r].counted = waits]
    BY <1>6 DEF Detect
  <2>2. target \in Client /\ on \in Client /\ waits \in BOOLEAN
    BY <1>1, <1>6 DEF WorkerTypeOK
  <2>3. client[target].model # Off /\ client[on].model # Off
    BY <1>6, <2>2 DEF WorkerIInv, KeptOK
  <2> HIDE DEF waits, on
  <2>4. at' = [at EXCEPT ![r] = R]
    BY <1>1, <2>1
  <2>5. /\ R \in Place /\ R.pc = "check" /\ R.left = Text /\ R.target = target /\ R.on = on
        /\ R.want = at[r].want
    BY <1>1, <2>2 DEF Place, Busy
  <2>6. R.counted = waits
    BY <1>1 DEF Place
  <2> HIDE DEF R
  <2>7. at' \in [Actor -> Place] /\ (\A y \in Actor \ {r} : at'[y] = at[y]) /\ at'[r] = R
    BY <1>1, <2>4, <2>5
  <2>8. ActorOK(r)'
    BY <1>1, <1>2, <2>2, <2>3, <2>5, <2>7 DEF ActorOK, Busy, WithSlot, WorkerAssumption
  <2>9. CalmOK(r)'
    <3>1. ~waits => on = target
      BY DEF on
    <3> QED
      BY <1>1, <1>2, <2>5, <2>6, <2>7, <3>1 DEF CalmOK, Ended
  <2> QED
    BY <1>3, <2>7, <2>8, <2>9
<1> QED
  BY <1>4, <1>5, <1>6

LEMMA PreparedStep ==
    ASSUME WorkerAssumption, WorkerIInv, NEW c \in Client, Prepared(c)
    PROVE  WorkerIInv'
<1>1. /\ c \in Actor /\ c \notin Request /\ at[c].pc \in {"prepared", "failed"} /\ ActorOK(c)
      /\ at \in [Actor -> Place] /\ HandoverOK /\ WorkerTypeOK /\ c # 0
  BY Distinct DEF Prepared, Actor, WorkerIInv, WorkerTypeOK
<1>2. UNCHANGED <<stored, changing, installed, policy, target, released, client, alive,
                  upset, broken, policies, troubles>>
  BY DEF Prepared, NoFault
<1>3. Rest \in Place /\ Rest.pc = "idle"
  BY RestPlace DEF Rest
<1>4. CASE prep.of # c \/ (prep.of = c /\ at[c].pc = "failed")
  <2>1. at' = [at EXCEPT ![c] = Rest] /\ fallback' = fallback
    BY <1>4 DEF Prepared
  <2>2. prep' = prep \/ (prep.of = c /\ prep' = [prep EXCEPT !.state = "failed"])
    BY <1>4 DEF Prepared
  <2>3. at' \in [Actor -> Place] /\ (\A y \in Actor \ {c} : at'[y] = at[y]) /\ at'[c] = Rest
    BY <1>1, <1>3, <2>1
  <2>4. ActorOK(c)'
    BY <1>1, <1>3, <2>3 DEF ActorOK, Busy, WithSlot
  <2>5. /\ prep' \in [of : {0} \cup Client, state : {"none", "preparing", "ready", "failed"}]
        /\ prep'.of = prep.of /\ (prep' = NoPrep => prep = NoPrep)
    BY <1>1, <2>2 DEF WorkerTypeOK, NoPrep
  <2>6. WorkerTypeOK' /\ HandoverOK'
    BY <1>1, <1>2, <2>1, <2>3, <2>5 DEF WorkerTypeOK, HandoverOK, Numbered
  <2>7. ASSUME NEW d \in Client PROVE KeptOK(d)'
    <3>1. KeptOK(d) /\ \A p \in Client : at[p].pc = "retiring" => at'[p] = at[p]
      BY <1>1, <2>3 DEF WorkerIInv, Actor
    <3> QED
      BY <1>2, <2>1, <3>1 DEF KeptOK
  <2> QED
    BY <1>1, <1>2, <2>3, <2>4, <2>6, <2>7, MoveKeeps
<1>5. CASE prep.of = c /\ at[c].pc # "failed"
  <2> DEFINE R == IF fallback \in Client THEN [Rest EXCEPT !.pc = "retiring", !.on = fallback]
                  ELSE Rest
  <2>1. at' = [at EXCEPT ![c] = R] /\ fallback' = 0 /\ prep' = [prep EXCEPT !.state = "ready"]
    BY <1>5 DEF Prepared
  <2>2. /\ R \in Place /\ R.pc \in {"idle", "retiring"}
        /\ R.pc = "retiring" => R.on = fallback /\ fallback \in Client
        /\ fallback \in Client => R.pc = "retiring"
    BY <1>3 DEF Rest, Place
  <2> HIDE DEF R
  <2>3. at' \in [Actor -> Place] /\ (\A y \in Actor \ {c} : at'[y] = at[y]) /\ at'[c] = R
    BY <1>1, <2>1, <2>2
  <2>4. /\ prep' \in [of : {0} \cup Client, state : {"none", "preparing", "ready", "failed"}]
        /\ prep'.of = prep.of
    BY <1>1, <2>1 DEF WorkerTypeOK
  <2>5. fallback \in Client => fallback # target /\ client[fallback].model # Off
    BY <1>1, Distinct DEF HandoverOK, WorkerIInv, KeptOK
  <2>6. ActorOK(c)'
    BY <1>1, <1>2, <2>2, <2>3, <2>5 DEF ActorOK, Busy, WithSlot
  <2>7. WorkerTypeOK'
    BY <1>1, <1>2, <2>1, <2>3, <2>4 DEF WorkerTypeOK
  <2>8. HandoverOK'
    BY <1>1, <1>2, <2>1, <2>4 DEF HandoverOK, Numbered
  <2>9. ASSUME NEW d \in Client PROVE KeptOK(d)'
    <3>1. KeptOK(d) /\ \A p \in Client : at[p].pc = "retiring" => at'[p] = at[p]
      BY <1>1, <2>3 DEF WorkerIInv, Actor
    <3>2. d = fallback => at'[c].pc = "retiring" /\ at'[c].on = d
      BY <2>2, <2>3
    <3>3. d # 0
      BY Distinct
    <3> QED
      BY <1>2, <2>1, <3>1, <3>2, <3>3 DEF KeptOK
  <2> QED
    BY <1>1, <1>2, <2>3, <2>6, <2>7, <2>8, <2>9, MoveKeeps
<1> QED
  BY <1>4, <1>5

LEMMA ServingIs ==
    ASSUME WorkerIInv
    PROVE  Serving \in {0, Regex, target, fallback}
BY DEF Serving

\* The number of the client a change of the policy creates.
LEMMA NextClient ==
    ASSUME WorkerAssumption, WorkerIInv, changing # <<>>
    PROVE  \E k \in Client :
        /\ k = 1 + Cardinality({c \in Client : client[c].model # Off})
        /\ client[k].model = Off
        /\ \A c \in Client : c # k => (client[c].model # Off <=> c <= k)
        /\ k <= policies
<1>1. PICK n \in Nat : /\ \A c \in Client : client[c].model # Off <=> c <= n
                       /\ n + 1 <= policies
  BY DEF WorkerIInv, HandoverOK, Numbered
<1>2. n + 1 <= MaxPolicies /\ MaxPolicies \in Nat
  BY <1>1 DEF WorkerIInv, WorkerTypeOK, HandoverOK, WorkerAssumption
<1>3. {c \in Client : client[c].model # Off} = 1 .. n
  BY <1>1, <1>2 DEF Client
<1>4. Cardinality(1 .. n) = n
  BY FS_Interval
<1>5. n + 1 \in Client /\ n + 1 = 1 + Cardinality({c \in Client : client[c].model # Off})
  <2>1. n + 1 \in Client
    BY <1>2 DEF Client
  <2>2. n + 1 = 1 + Cardinality(1 .. n)
    BY <1>4, SMT
  <2> QED
    BY <1>3, <2>1, <2>2, Zenon
<1>6. client[n + 1].model = Off
  BY <1>1, <1>5
<1>7. \A c \in Client : c # n + 1 => (client[c].model # Off <=> c <= n + 1)
  BY <1>1 DEF Client
<1> QED
  BY <1>1, <1>5, <1>6, <1>7

LEMMA ApplyPolicyStep ==
    ASSUME WorkerAssumption, WorkerIInv, ApplyPolicy
    PROVE  WorkerIInv'
<1>1. changing # <<>>
  BY DEF ApplyPolicy
<1>2. PICK p \in Policy : changing = <<p>> /\ changing[1] = p
  BY <1>1 DEF WorkerIInv, WorkerTypeOK
<1>3. PICK k \in Client :
        /\ k = 1 + Cardinality({c \in Client : client[c].model # Off})
        /\ client[k].model = Off
        /\ \A c \in Client : c # k => (client[c].model # Off <=> c <= k)
        /\ k <= policies
  BY <1>1, NextClient
<1>4. /\ policy' = p /\ changing' = <<>> /\ upset' = upset \cup Running
      /\ UNCHANGED <<stored, installed, alive, broken, policies, troubles>>
  BY <1>2 DEF ApplyPolicy
<1>5. /\ WorkerTypeOK /\ HandoverOK /\ released = {} /\ (p \in Model => p \in installed)
      /\ \A c \in Client : KeptOK(c) /\ WorkerOK(c)
      /\ \A x \in Actor : ActorOK(x)
      /\ Off \notin Model /\ policies \in Nat /\ k \in Nat
  BY <1>1, <1>2, Distinct DEF WorkerIInv, HandoverOK, WorkerTypeOK, WorkerAssumption
<1>6. CASE p \notin Model
  <2>1. /\ released' = ({target, fallback} \cap Client) \ {0} /\ target' = 0 /\ prep' = NoPrep
        /\ fallback' = 0 /\ client' = client /\ at' = at
    BY <1>2, <1>6 DEF ApplyPolicy, Releases
  <2>2. WorkerTypeOK'
    BY <1>4, <1>5, <2>1 DEF WorkerTypeOK, Running, NoPrep
  <2>3. ASSUME NEW x \in Actor PROVE ActorOK(x)'
    BY <1>4, <1>5, <2>1, Distinct DEF ActorOK
  <2>4. ASSUME NEW c \in Client PROVE WorkerOK(c)'
    BY <1>4, <1>5, <2>1 DEF WorkerOK, Tracked
  <2>5. ASSUME NEW c \in Client PROVE KeptOK(c)'
    BY <1>4, <1>5, <2>1, Distinct DEF KeptOK
  <2>6. Numbered'
    <3>1. PICK n \in Nat : /\ \A c \in Client : client[c].model # Off <=> c <= n
                           /\ n + 1 <= policies
      BY <1>1, <1>5 DEF HandoverOK, Numbered
    <3>2. n + (IF changing' = <<>> THEN 0 ELSE 1) <= policies'
      BY <1>4, <1>5, <3>1
    <3> QED
      BY <2>1, <3>1, <3>2 DEF Numbered
  <2>7. HandoverOK'
    BY <1>4, <1>5, <1>6, <2>1, <2>6 DEF HandoverOK, NoPrep
  <2>8. \A r \in Request : CalmOK(r)'
    BY <1>4, <2>1, CalmAfterAll
  <2> QED
    BY <2>2, <2>3, <2>4, <2>5, <2>7, <2>8 DEF WorkerIInv
<1>7. CASE p \in Model /\ target # 0 /\ client[target].model = p /\ prep.state # "failed"
  <2>1. UNCHANGED <<released, target, prep, fallback, client, at>>
    BY <1>2, <1>7 DEF ApplyPolicy
  <2>2. WorkerTypeOK'
    BY <1>4, <1>5, <2>1 DEF WorkerTypeOK, Running
  <2>3. ASSUME NEW x \in Actor PROVE ActorOK(x)'
    BY <1>4, <1>5, <2>1 DEF ActorOK
  <2>4. ASSUME NEW c \in Client PROVE WorkerOK(c)'
    BY <1>4, <1>5, <2>1 DEF WorkerOK, Tracked
  <2>5. ASSUME NEW c \in Client PROVE KeptOK(c)'
    BY <1>4, <1>5, <2>1 DEF KeptOK
  <2>6. Numbered'
    <3>1. PICK n \in Nat : /\ \A c \in Client : client[c].model # Off <=> c <= n
                           /\ n + 1 <= policies
      BY <1>1, <1>5 DEF HandoverOK, Numbered
    <3>2. n + (IF changing' = <<>> THEN 0 ELSE 1) <= policies'
      BY <1>4, <1>5, <3>1
    <3> QED
      BY <2>1, <3>1, <3>2 DEF Numbered
  <2>7. HandoverOK'
    BY <1>4, <1>5, <1>7, <2>1, <2>6 DEF HandoverOK
  <2>8. \A r \in Request : CalmOK(r)'
    BY <1>4, <2>1, CalmAfterAll
  <2> QED
    BY <2>2, <2>3, <2>4, <2>5, <2>7, <2>8 DEF WorkerIInv
<1>8. CASE p \in Model /\ ~(target # 0 /\ client[target].model = p /\ prep.state # "failed")
  <2> DEFINE ahead == p \in installed /\ p \in Accelerated
             serving == IF ahead THEN Serving ELSE 0
             N == [Unused EXCEPT !.open = TRUE, !.model = p]
             P == [Rest EXCEPT !.pc = "slot", !.on = k, !.want = p]
  <2>1. /\ released' = Releases(serving) /\ client' = [client EXCEPT ![k] = N]
        /\ target' = k /\ fallback' = serving
        /\ ahead => prep' = [of |-> k, state |-> "preparing"] /\ at' = [at EXCEPT ![k] = P]
        /\ ~ahead => prep' = NoPrep /\ at' = at
    BY <1>2, <1>3, <1>8 DEF ApplyPolicy
  <2>2. serving \in {0, Regex, target, fallback} /\ (~ahead => serving = 0)
    BY ServingIs DEF WorkerIInv
  <2>3. /\ released' \subseteq {target, fallback} \cap Client
        /\ {target, fallback} \cap Client \subseteq released' \cup {serving}
        /\ serving \notin released'
    BY <2>1 DEF Releases
  <2>4. /\ N \in ClientState /\ N.open /\ N.model = p /\ ~N.failed /\ N.process = 0
        /\ N.starting = 0
    BY <1>8 DEF Unused, ClientState
  <2>5. /\ P \in Place /\ P.pc = "slot" /\ P.on = k /\ ~P.counted
    BY <1>3, RestPlace DEF Rest, Place, Busy
  <2> HIDE DEF N, P, ahead, serving
  <2>6. /\ client' \in [Client -> ClientState] /\ client'[k] = N
        /\ \A d \in Client \ {k} : client'[d] = client[d]
    BY <1>5, <2>1, <2>4, Update DEF WorkerTypeOK
  <2>7. /\ k \in Actor /\ k \notin Request /\ at[k].pc = "idle" /\ k # 0 /\ k # Regex
    <3>1. k \in Actor /\ k \notin Request /\ k # 0 /\ k # Regex
      BY <1>3, <1>5, Distinct
    <3>2. at[k].pc = "idle"
      BY <1>3, <1>5, <3>1 DEF ActorOK
    <3>3. QED
      BY <3>1, <3>2
  <2>8. /\ at' \in [Actor -> Place] /\ \A y \in Actor \ {k} : at'[y] = at[y]
        /\ at'[k] = at[k] \/ at'[k] = P
    BY <1>5, <2>1, <2>5, <2>7 DEF WorkerTypeOK
  <2>9. k # target /\ k # fallback /\ k \notin released'
    BY <1>3, <1>5, <2>3 DEF KeptOK
  <2>10. WorkerTypeOK'
    BY <1>3, <1>4, <1>5, <2>1, <2>2, <2>3, <2>6, <2>8 DEF WorkerTypeOK, Running, NoPrep
  <2>11. ASSUME NEW x \in Actor PROVE ActorOK(x)'
    <3>1. CASE at'[x] = at[x]
      <4>1. \A d \in Client : client[d].model # Off => client'[d] = client[d]
        BY <1>3, <2>6
      <4>2. at[x].pc \in WithSlot \cup {"starting", "adopt", "exchange"} =>
              at[x].on \in Client /\ client[at[x].on].model # Off
        BY <1>5 DEF ActorOK, Busy, WithSlot
      <4>3. \A d \in Client : client'[d].model = Off => client[d].model = Off
        BY <1>3, <2>6
      <4>4. at[x].pc = "retiring" /\ x \in Client => at[x].on # k
        BY <1>3, <1>5 DEF ActorOK
      <4> QED
        BY <1>4, <1>5, <2>1, <3>1, <4>1, <4>2, <4>3, <4>4 DEF ActorOK
    <3>2. CASE x = k /\ at'[k] = P
      <4>1. client'[k].model # Off
        BY <1>8, <1>5, <2>4, <2>6
      <4> QED
        BY <2>5, <2>7, <3>2, <4>1 DEF ActorOK, Busy, WithSlot
    <3> QED
      BY <2>8, <3>1, <3>2
  <2>12. ASSUME NEW c \in Client PROVE WorkerOK(c)'
    <3>1. CASE c = k
      <4>1. \A w \in Nat : <<k, w>> \notin alive
        BY <1>3, <1>5 DEF WorkerOK, KeptOK, Tracked
      <4> QED
        BY <1>4, <1>5, <1>8, <2>4, <2>6, <3>1, <4>1 DEF WorkerOK
    <3>2. CASE c # k
      BY <1>4, <1>5, <2>6, <3>2 DEF WorkerOK, Tracked
    <3> QED
      BY <3>1, <3>2
  <2>13. ASSUME NEW c \in Client PROVE KeptOK(c)'
    <3>1. CASE c = k
      BY <1>5, <1>8, <2>1, <2>4, <2>6, <3>1 DEF KeptOK
    <3>2. CASE c # k
      <4>1. client'[c] = client[c] /\ KeptOK(c) /\ c # 0 /\ c # Regex
        BY <1>5, <2>6, <3>2, Distinct
      <4>2. \A q \in Client : at[q].pc = "retiring" => at'[q] = at[q]
        BY <2>7, <2>8 DEF Actor
      <4>3. client'[c].open => \/ c \in {target', fallback'} \cup released'
                              \/ \E q \in Client : at'[q].pc = "retiring" /\ at'[q].on = c
        BY <1>5, <2>1, <2>3, <4>1, <4>2 DEF KeptOK
      <4>4. client'[c].model = Off =>
              ~client'[c].open /\ c \notin released' \cup {target', fallback'}
        BY <2>1, <2>2, <2>3, <3>2, <4>1 DEF KeptOK
      <4> QED
        BY <4>3, <4>4 DEF KeptOK
    <3> QED
      BY <3>1, <3>2
  <2>14. Numbered'
    <3>1. \A c \in Client : client'[c].model # Off <=> c <= k
      BY <1>3, <1>5, <1>8, <2>4, <2>6
    <3>2. k + (IF changing' = <<>> THEN 0 ELSE 1) <= policies'
      BY <1>3, <1>4, <1>5
    <3> QED
      BY <1>5, <3>1, <3>2 DEF Numbered
  <2>15. HandoverOK'
    <3>1. fallback' # k
      BY <2>1, <2>2, <2>7, <2>9
    <3>2. prep'.of \in {0, k} /\ (prep' = NoPrep => fallback' = 0)
      BY <2>1, <2>2, <2>7 DEF NoPrep
    <3> QED
      BY <1>4, <1>5, <2>1, <2>4, <2>6, <2>7, <2>9, <2>14, <3>1, <3>2 DEF HandoverOK
  <2>16. \A r \in Request : CalmOK(r)'
    BY <1>4, <2>7, <2>8, CalmAfterAll DEF Actor
  <2> QED
    BY <2>10, <2>11, <2>12, <2>13, <2>15, <2>16 DEF WorkerIInv
<1> QED
  BY <1>6, <1>7, <1>8

-----------------------------------------------------------------------------
LEMMA WorkerInit ==
    ASSUME WorkerAssumption, Init
    PROVE  WorkerIInv
<1>1. Unused \in ClientState /\ Rest \in Place /\ Regex \in Policy /\ Off \in Policy
  BY RestPlace DEF Unused, ClientState, Policy
<1>2. WorkerTypeOK
  BY <1>1 DEF Init, WorkerTypeOK, NoPrep
<1>3. \A x \in Actor : ActorOK(x)
  BY DEF Init, ActorOK, Rest, Busy, WithSlot
<1>4. \A c \in Client : WorkerOK(c)
  BY DEF Init, WorkerOK, Unused
<1>5. \A c \in Client : KeptOK(c)
  BY Distinct DEF Init, KeptOK, Unused
<1>6. Numbered
  <2>1. \A c \in Client : client[c].model # Off <=> c <= 0
    BY DEF Init, Unused, Client
  <2> QED
    BY <2>1 DEF Numbered, Init
<1>7. HandoverOK
  BY <1>6 DEF Init, HandoverOK, NoPrep, WorkerAssumption
<1>8. \A r \in Request : CalmOK(r)
  BY DEF Init, CalmOK, Rest, Ended, Actor
<1> QED
  BY <1>2, <1>3, <1>4, <1>5, <1>7, <1>8 DEF WorkerIInv

LEMMA WorkerNext ==
    ASSUME WorkerAssumption, WorkerIInv, Next
    PROVE  WorkerIInv'
<1>1. CASE \E p \in Policy : PatchPolicy(p) \/ SyncedPolicy(p)
  BY <1>1, PatchPolicyStep, SyncedPolicyStep
<1>2. CASE \E m \in Model : DeleteModel(m)
  BY <1>2, DeleteModelStep
<1>3. CASE ApplyPolicy \/ Closing
  BY <1>3, ApplyPolicyStep, CloseStep DEF Closing
<1>4. ASSUME NEW x \in Actor, Runs(x) PROVE WorkerIInv'
  <2>1. CASE TakeSlot(x) \/ EnsureProcess(x)
    BY <2>1, TakeSlotStep, EnsureStep, ValidateStep, StartStep, AwaitReadyStep, AdoptStep
       DEF EnsureProcess
  <2>2. CASE x \in Request /\ Serve(x)
    BY <2>2, DetectStep, CheckStep, ExchangeStep, ExchangeBreaksStep, StoreStep DEF Serve
  <2>3. CASE x \in Client /\ Prepare(x)
    BY <2>3, PreparedStep, RetireStep DEF Prepare
  <2> QED
    BY <1>4, <2>1, <2>2, <2>3 DEF Runs
<1>5. ASSUME NEW c \in Client, NEW w \in 1 .. client[c].started, Crash(c, w) PROVE WorkerIInv'
  <2>1. w \in Nat
    BY DEF WorkerIInv, WorkerTypeOK, ClientState
  <2> QED
    BY <1>5, <2>1, CrashStep
<1>6. CASE \E r \in Request : ReadPolicy(r) \/ ExchangeFails(r) \/ GiveUp(r)
  BY <1>6, ReadPolicyStep, ExchangeFailsStep, GiveUpStep
<1> QED
  BY <1>1, <1>2, <1>3, <1>4, <1>5, <1>6 DEF Next

LEMMA WorkerStutter ==
    ASSUME WorkerIInv, UNCHANGED vars
    PROVE  WorkerIInv'
<1> USE DEF vars, handover
<1>1. WorkerTypeOK'
  BY DEF WorkerIInv, WorkerTypeOK
<1>2. \A x \in Actor : ActorOK(x)'
  BY DEF WorkerIInv, ActorOK
<1>3. \A c \in Client : WorkerOK(c)' /\ KeptOK(c)'
  BY DEF WorkerIInv, WorkerOK, KeptOK, Tracked
<1>4. HandoverOK'
  BY DEF WorkerIInv, HandoverOK, Numbered
<1>5. \A r \in Request : CalmOK(r)'
  BY DEF WorkerIInv, CalmOK
<1> QED
  BY <1>1, <1>2, <1>3, <1>4, <1>5 DEF WorkerIInv

LEMMA WorkerImplies ==
    ASSUME WorkerAssumption, WorkerIInv
    PROVE  WorkerInv /\ RefusedForCause
<1>1. ASSUME NEW c \in Client
      PROVE  /\ {w \in 1 .. client[c].started : <<c, w>> \in alive}
                  \subseteq {client[c].process, client[c].starting}
             /\ client[c].process = 0 \/ client[c].starting = 0
             /\ ~client[c].open => client[c].process = 0 /\ client[c].starting = 0
             /\ client[c].open =>
                  c \in {target, fallback} \cup released \cup {at[p].on : p \in Client}
             /\ client[c].failed => c \in broken
  <2>1. client[c].started \in Nat
    BY DEF WorkerIInv, WorkerTypeOK, ClientState
  <2>2. WorkerOK(c) /\ KeptOK(c)
    BY DEF WorkerIInv
  <2>3. {w \in 1 .. client[c].started : <<c, w>> \in alive}
          \subseteq {client[c].process, client[c].starting}
    BY <2>1, <2>2 DEF WorkerOK, Tracked
  <2>4. client[c].open =>
          c \in {target, fallback} \cup released \cup {at[p].on : p \in Client}
    BY <2>2 DEF KeptOK
  <2> QED
    BY <2>2, <2>3, <2>4 DEF WorkerOK
<1>2. ASSUME NEW x \in Actor,
             at[x].pc \in {"ensure", "validate", "start", "starting", "adopt", "exchange", "store"}
      PROVE  client[at[x].on].slot = x
  BY <1>2 DEF WorkerIInv, ActorOK, WithSlot
<1>3. prep.of \in {0, target} /\ (prep = NoPrep => fallback = 0)
  BY DEF WorkerIInv, HandoverOK
<1>4. RefusedForCause
  BY DEF WorkerIInv, CalmOK, RefusedForCause
<1> QED
  BY <1>1, <1>2, <1>3, <1>4 DEF WorkerInv

-----------------------------------------------------------------------------
LEMMA WorkerInvariant == ASSUME WorkerAssumption PROVE Spec => []WorkerIInv
<1>1. Init => WorkerIInv
  BY WorkerInit
<1>2. WorkerIInv /\ [Next]_vars => WorkerIInv'
  BY WorkerNext, WorkerStutter
<1> QED
  BY <1>1, <1>2, PTL DEF Spec

\* No worker process runs that its client does not track, none is left by a
\* client that was closed, a slot is with the goroutine that inspects with it,
\* and a client that is open has somebody who will close it (client.go and
\* handover.go), in every order of switches, failures and requests.
THEOREM WorkersAreTracked == ASSUME WorkerAssumption PROVE Spec => []WorkerInv
<1>1. WorkerIInv => WorkerInv
  BY WorkerImplies
<1> QED
  BY <1>1, WorkerInvariant, PTL

\* A request that saw no change of the policy and no failure is inspected:
\* Handover.Detect gives it up only for something that happened to it.
THEOREM RefusalsHaveCauses == ASSUME WorkerAssumption PROVE Spec => []RefusedForCause
<1>1. WorkerIInv => RefusedForCause
  BY WorkerImplies
<1> QED
  BY <1>1, WorkerInvariant, PTL
=============================================================================
