---------------------------- MODULE PollPageProofs ----------------------------
(***************************************************************************)
(* Proofs about PollPage, for every set of polls, sockets and loads.        *)
(***************************************************************************)
EXTENDS PollPage, PageSocketProofs

-----------------------------------------------------------------------------
(* The page uses the hook as PageSocket describes it *)

LEMMA PageStepIsHookStep == [Next]_vars => [PageSocketNext]_pageSocketVars
<1> SUFFICES ASSUME [Next]_vars PROVE [PageSocketNext]_pageSocketVars
  OBVIOUS
<1>1. CASE UNCHANGED vars
  BY <1>1 DEF vars
<1>2. CASE HookStep
  BY <1>2 DEF HookStep, PageSocketNext
<1>3. CASE LeavePage
  BY <1>3 DEF LeavePage, PageSocketNext
<1>4. CASE \E p \in Polls : OpenPoll(p) \/ OthersClose(p)
  BY <1>4 DEF OpenPoll, OthersClose, PageSocketNext
<1>5. CASE TryAgain \/ ClickVote \/ VoteAnswer \/ \E l \in Loads : LoadStep(l)
  BY <1>5 DEF TryAgain, ClickVote, VoteAnswer, ServeVote, RefuseVote, VoteServed,
     VoteAccepted, VoteRefused, LoadStep, ServeLoad, LoseLoad, LoadSucceeds, LoadFails,
     LoadEnds
<1> QED
  BY <1>1, <1>2, <1>3, <1>4, <1>5 DEF Next

\* Every behaviour of the page is one of the hook, so what is proved of
\* PageSocket (one socket, of the route, no event out of order) holds of the page.
THEOREM PageImplementsHook == Spec => PageSocketSpec
<1>1. Init => PageSocketInit
  BY DEF Init
<1> QED
  BY <1>1, PageStepIsHookStep, PTL DEF Spec, PageSocketSpec

-----------------------------------------------------------------------------
(* Type correctness *)

\* The part of the type that is the page's own.
PageTypes ==
    /\ poll \in Polls \union {None}
    /\ hasVoted \in BOOLEAN
    /\ pollStatus \in {"open", "active", "closed"}
    /\ loading \in BOOLEAN
    /\ error \in BOOLEAN
    /\ load \in [Loads -> Load \union {NoLoad}]
    /\ vote \in HandleVote \union {NoVote}
    /\ closed \in SUBSET Polls
    /\ voted \in SUBSET Polls

LEMMA SentIsLoad == \A p \in Polls : Sent(p) \in Load
BY DEF Sent, Load

LEMMA PageTypeInit == Init => TypeOK
<1> SUFFICES ASSUME Init PROVE TypeOK
  OBVIOUS
<1>1. PageSocketTypeOK
  BY TypeInit DEF Init
<1>2. route \in Polls
  BY DEF Init, PageSocketInit
<1>3. load \in [Loads -> Load \union {NoLoad}]
  BY <1>2, SentIsLoad DEF Init
<1> QED
  BY <1>1, <1>3 DEF Init, TypeOK

\* loadPoll is called for the route or for the poll of the vote.
LEMMA SendLoadType ==
    ASSUME PageTypes, NEW l \in Loads, NEW p \in Polls, SendLoad(l, p)
    PROVE  load' \in [Loads -> Load \union {NoLoad}]
BY SentIsLoad DEF PageTypes, SendLoad

\* A load in flight is a record of Load.
LEMMA InFlightIsLoad ==
    ASSUME PageTypes, NEW l \in Loads, load[l].pc # "free"
    PROVE  load[l] \in Load
BY DEF PageTypes, NoLoad

LEMMA VoteInFlight ==
    ASSUME PageTypes, vote.pc # "none"
    PROVE  vote \in HandleVote
BY DEF PageTypes, NoVote

LEMMA LoadStepType ==
    ASSUME PageTypes, NEW l \in Loads, LoadStep(l)
    PROVE  PageTypes'
<1>1. load[l] \in Load
  BY InFlightIsLoad DEF LoadStep, ServeLoad, LoseLoad, LoadSucceeds, LoadFails
<1>2. CASE ServeLoad(l)
  <2>1. load' \in [Loads -> Load \union {NoLoad}]
    BY <1>1, <1>2, PollPageAssumption DEF ServeLoad, PageTypes, Load
  <2> QED
    BY <1>2, <2>1 DEF ServeLoad, PageTypes, backendVars
<1>3. CASE LoseLoad(l)
  <2>1. load' \in [Loads -> Load \union {NoLoad}]
    BY <1>1, <1>3 DEF LoseLoad, PageTypes, Load
  <2> QED
    BY <1>3, <2>1 DEF LoseLoad, PageTypes, backendVars
<1>4. CASE LoadSucceeds(l) \/ LoadFails(l)
  <2>1. /\ load' \in [Loads -> Load \union {NoLoad}]
        /\ vote' \in HandleVote \union {NoVote}
        /\ closed' = closed /\ voted' = voted
    BY <1>4 DEF LoadSucceeds, LoadFails, LoadEnds, PageTypes, backendVars
  <2>2. /\ poll' \in Polls \union {None} /\ hasVoted' \in BOOLEAN
        /\ pollStatus' \in {"open", "active", "closed"}
    BY <1>1, <1>4 DEF LoadSucceeds, LoadFails, PageTypes, Load
  <2>3. loading' \in BOOLEAN /\ error' \in BOOLEAN
    BY <1>4 DEF LoadSucceeds, LoadFails
  <2> QED
    BY <2>1, <2>2, <2>3 DEF PageTypes
<1> QED
  BY <1>2, <1>3, <1>4 DEF LoadStep

LEMMA VoteStepType ==
    ASSUME PageTypes, route \in Polls \union {None}, ClickVote \/ VoteAnswer
    PROVE  PageTypes'
<1>1. CASE ClickVote
  <2>1. vote' \in HandleVote
    BY <1>1 DEF ClickVote, Mounted, PageTypes, HandleVote
  <2> QED
    BY <1>1, <2>1 DEF ClickVote, PageTypes, backendVars
<1>2. CASE ServeVote \/ RefuseVote
  <2>1. vote \in HandleVote
    BY <1>2, VoteInFlight DEF ServeVote, RefuseVote, VoteServed
  <2>2. vote' \in HandleVote
    BY <1>2, <2>1 DEF ServeVote, RefuseVote, VoteServed, HandleVote
  <2>3. voted' \in SUBSET Polls
    BY <1>2, <2>1 DEF ServeVote, RefuseVote, PageTypes, HandleVote
  <2> QED
    BY <1>2, <2>2, <2>3 DEF ServeVote, RefuseVote, VoteServed, PageTypes
<1>3. CASE VoteAccepted
  <2>1. vote \in HandleVote
    BY <1>3, VoteInFlight DEF VoteAccepted
  <2>2. vote' \in HandleVote /\ vote.poll \in Polls
    BY <1>3, <2>1 DEF VoteAccepted, HandleVote
  <2>3. load' \in [Loads -> Load \union {NoLoad}]
    BY <1>3, <2>2, SendLoadType, PollPageAssumption DEF VoteAccepted
  <2> QED
    BY <1>3, <2>2, <2>3 DEF VoteAccepted, PageTypes, backendVars
<1>4. CASE VoteRefused
  BY <1>4 DEF VoteRefused, PageTypes, backendVars
<1> QED
  BY <1>1, <1>2, <1>3, <1>4 DEF VoteAnswer

LEMMA PageTypeStep == TypeOK /\ [Next]_vars => TypeOK'
<1> SUFFICES ASSUME TypeOK, [Next]_vars PROVE TypeOK'
  OBVIOUS
<1>0. PageTypes /\ PageSocketTypeOK /\ route \in Polls \union {None}
  BY DEF TypeOK, PageTypes, PageSocketTypeOK
<1>1. PageSocketTypeOK'
  BY <1>0, PageStepIsHookStep, TypeStep
<1>2. PageTypes'
  <2>1. CASE UNCHANGED vars \/ HookStep
    BY <1>0, <2>1 DEF vars, HookStep, pageVars, backendVars, PageTypes
  <2>2. CASE LeavePage
    BY <1>0, <2>2 DEF LeavePage, PageTypes, backendVars
  <2>3. CASE TryAgain
    <3>1. load' \in [Loads -> Load \union {NoLoad}]
      BY <1>0, <2>3, SendLoadType DEF TryAgain, Mounted
    <3> QED
      BY <1>0, <2>3, <3>1 DEF TryAgain, PageTypes, backendVars
  <2>4. ASSUME NEW p \in Polls, OpenPoll(p) PROVE PageTypes'
    <3>1. load' \in [Loads -> Load \union {NoLoad}]
      BY <1>0, <2>4, SendLoadType DEF OpenPoll
    <3> QED
      BY <1>0, <2>4, <3>1 DEF OpenPoll, PageTypes, backendVars
  <2>5. ASSUME NEW p \in Polls, OthersClose(p) PROVE PageTypes'
    BY <1>0, <2>5 DEF OthersClose, PageTypes, pageVars
  <2> QED
    BY <1>0, <2>1, <2>2, <2>3, <2>4, <2>5, LoadStepType, VoteStepType DEF Next
<1> QED
  BY <1>1, <1>2 DEF TypeOK, PageTypes

\* Every reachable state of the page is well typed: no request carries null.
THEOREM PageTypeCorrect == Spec => []TypeOK
BY PageTypeInit, PageTypeStep, PTL DEF Spec

-----------------------------------------------------------------------------
(* The spinner *)

LEMMA SpinnerInit == Init => SpinnerIsJustified
<1> SUFFICES ASSUME Init PROVE SpinnerIsJustified
  OBVIOUS
<1>1. PICK l \in Loads \ {VoteLoad} :
          load = [k \in Loads |-> IF k = l THEN Sent(route) ELSE NoLoad]
  BY DEF Init
<1>2. load[l].pc = "sent"
  BY <1>1 DEF Sent
<1> QED
  BY <1>2 DEF SpinnerIsJustified, InFlight

\* A call of loadPoll is in flight afterwards.
LEMMA SendLoadInFlight ==
    ASSUME TypeOK, NEW l \in Loads, NEW p, SendLoad(l, p)
    PROVE  InFlight(l)'
BY DEF TypeOK, SendLoad, Sent, InFlight

LEMMA SpinnerStep == TypeOK /\ SpinnerIsJustified /\ [Next]_vars => SpinnerIsJustified'
<1> SUFFICES ASSUME TypeOK, SpinnerIsJustified, [Next]_vars PROVE SpinnerIsJustified'
  OBVIOUS
<1>1. CASE UNCHANGED vars
  BY <1>1 DEF vars, pageSocketVars, hookVars, pageVars, SpinnerIsJustified, Mounted, InFlight
<1>2. CASE HookStep
  <2>1. route' = route
    BY <1>2 DEF HookStep, TimerFires, SocketStep, Opens, Message, BeginsToClose, Closed,
       SocketCloses, Join, hookVars
  <2> QED
    BY <1>2, <2>1 DEF HookStep, pageVars, SpinnerIsJustified, Mounted, InFlight
<1>3. CASE LeavePage
  BY <1>3 DEF LeavePage, Leave, SpinnerIsJustified, Mounted
<1>4. CASE TryAgain
  BY <1>4, SendLoadInFlight DEF TryAgain, SpinnerIsJustified
<1>5. ASSUME NEW p \in Polls, OpenPoll(p) PROVE SpinnerIsJustified'
  BY <1>5, SendLoadInFlight DEF OpenPoll, SpinnerIsJustified
<1>6. ASSUME NEW p \in Polls, OthersClose(p) PROVE SpinnerIsJustified'
  BY <1>6 DEF OthersClose, Relay, hookVars, pageVars, SpinnerIsJustified, Mounted,
     InFlight
<1>7. ASSUME NEW l \in Loads, LoadStep(l) PROVE SpinnerIsJustified'
  <2>1. CASE LoadSucceeds(l) \/ LoadFails(l)
    BY <2>1 DEF LoadSucceeds, LoadFails, SpinnerIsJustified
  <2>2. CASE ServeLoad(l) \/ LoseLoad(l)
    <3>1. InFlight(l)'
      BY <2>2 DEF ServeLoad, LoseLoad, InFlight, TypeOK, Load, NoLoad
    <3> QED
      BY <3>1 DEF SpinnerIsJustified
  <2> QED
    BY <1>7, <2>1, <2>2 DEF LoadStep
<1>8. CASE VoteAccepted
  BY <1>8, SendLoadInFlight, PollPageAssumption DEF VoteAccepted, SpinnerIsJustified
<1>9. CASE ClickVote \/ ServeVote \/ RefuseVote \/ VoteRefused
  BY <1>9 DEF ClickVote, ServeVote, RefuseVote, VoteServed, VoteRefused, pageSocketVars,
     hookVars, SpinnerIsJustified, Mounted, InFlight
<1> QED
  BY <1>1, <1>2, <1>3, <1>4, <1>5, <1>6, <1>7, <1>8, <1>9 DEF Next, VoteAnswer

\* The spinner is up only while a load is in flight, however the loads of
\* several routes and of a vote overlap.
THEOREM SpinnerTruthful == Spec => []SpinnerIsJustified
BY SpinnerInit, SpinnerStep, PageTypeCorrect, PTL DEF Spec

=============================================================================
