------------------------- MODULE ProjectAccess_proofs -------------------------
(****************************************************************************)
(* Rights are earned for any number of users, groups, projects, threads and *)
(* slots, whatever happens to membership and to the calls of Bitrix24.      *)
(****************************************************************************)
EXTENDS ProjectAccess, SequenceTheorems, TLAPS

-----------------------------------------------------------------------------
(* Calls. *)

\* A step of caller a's call, as RestGateway knows it.
CallStep(a) ==
    \/ Begin(a) \/ TrySlot(a) \/ SendAgain(a)
    \/ \E m \in {"user.current", "sonet_group.user.get"} : PassingFailure(a, m)
    \/ LastingFailure(a) \/ Answered(a) \/ TakeFailure(a) \/ GatewayDies(a)
    \/ \E n \in Nat : FurtherPage(a, n)

\* A busy slot leaves a call a call.
LEMMA MissedTyped ==
    ASSUME NEW r \in Calls
    PROVE  Missed(r) \in Calls
<1>1. \A n \in Nat : [r EXCEPT !.round = n, !.next = 0] \in Calls
  BY DEF Calls
<1>2. r.round + 1 \in Nat
  BY DEF Calls
<1>3. [r EXCEPT !.next = r.next + 1] \in Calls /\ [r EXCEPT !.pc = "failed"] \in Calls
  BY DEF Calls
<1>4. [r EXCEPT !.round = r.round + 1, !.next = 0] \in Calls
  BY <1>1, <1>2
<1> QED
  BY <1>3, <1>4 DEF Missed

\* Calls keep the type of the slots and of the calls.
LEMMA CallTyped ==
    ASSUME GatewayType, NEW a \in Callers, CallStep(a)
    PROVE  GatewayType'
<1> USE GatewayAssumption DEF GatewayType
<1>a. NoCall \in Calls
  BY DEF NoCall, Calls
<1>b. ASSUME NEW start \in Nat, NEW seen \in SUBSET Nat PROVE Asked(start, seen) \in Calls
  BY DEF Asked, NoCall, Calls
<1>c. Freed(a) \in [Slots -> Callers \cup {None}]
  BY DEF Freed
<1>1. CASE Begin(a) \/ TakeFailure(a)
  BY <1>1, <1>a, <1>b DEF Begin, TakeFailure
<1>2. CASE SendAgain(a)
  BY <1>2 DEF SendAgain, Calls
<1>3. CASE TrySlot(a)
  <2>1. slot' \in [Slots -> Callers \cup {None}]
    BY <1>3 DEF TrySlot
  <2> DEFINE i == call[a].next
  <2>2. CASE i < SlotCount /\ slot[i] = None
    BY <1>3, <2>1, <2>2 DEF TrySlot, Calls
  <2>3. CASE ~(i < SlotCount /\ slot[i] = None)
    <3>1. Missed(call[a]) \in Calls
      BY MissedTyped
    <3> QED
      BY <1>3, <2>1, <2>3, <3>1 DEF TrySlot
  <2> QED
    BY <2>2, <2>3
<1>4. CASE LastingFailure(a) \/ Answered(a) \/ GatewayDies(a)
  BY <1>4, <1>a, <1>c DEF LastingFailure, Answered, GatewayDies, Calls
<1>5. ASSUME NEW m, PassingFailure(a, m) PROVE GatewayType'
  BY <1>5, <1>c DEF PassingFailure, Calls
<1>6. ASSUME NEW n \in Nat, FurtherPage(a, n) PROVE GatewayType'
  <2>1. [call[a] EXCEPT !.pc = "failed"] \in Calls
    BY DEF Calls
  <2>2. call[a].seen \cup {n} \in SUBSET Nat
    BY DEF Calls
  <2> QED
    BY <1>6, <1>b, <1>c, <2>1, <2>2 DEF FurtherPage
<1> QED
  BY <1>1, <1>2, <1>3, <1>4, <1>5, <1>6 DEF CallStep

\* Whatever ends a call frees its slot.
LEMMA CallFrees ==
    ASSUME GatewayType, NoSlotLeaks, NEW a \in Callers, CallStep(a)
    PROVE  NoSlotLeaks'
<1> SUFFICES ASSUME NEW s \in Slots, slot'[s] # None
             PROVE  call'[slot'[s]].pc \in {"sent", "pause"}
  BY DEF NoSlotLeaks
<1> USE GatewayAssumption DEF GatewayType, NoSlotLeaks, Calls
<1>a. Freed(a)[s] = IF slot[s] = a THEN None ELSE slot[s]
  BY DEF Freed
<1>1. CASE Begin(a) \/ TakeFailure(a)
  BY <1>1 DEF Begin, TakeFailure
<1>2. CASE SendAgain(a)
  BY <1>2 DEF SendAgain
<1>3. CASE TrySlot(a)
  <2> DEFINE i == call[a].next
  <2>1. \A r \in Slots : slot[r] # a
    BY <1>3 DEF TrySlot
  <2>2. CASE i < SlotCount /\ slot[i] = None
    <3>1. call'[a].pc = "sent" /\ slot' = [slot EXCEPT ![i] = a]
      BY <1>3, <2>2 DEF TrySlot
    <3>2. \A c \in Callers : c # a => call'[c] = call[c]
      BY <1>3, <2>2 DEF TrySlot
    <3> QED
      BY <3>1, <3>2
  <2>3. CASE ~(i < SlotCount /\ slot[i] = None)
    <3>1. slot' = slot
      BY <1>3, <2>3 DEF TrySlot
    <3>2. \A c \in Callers : c # a => call'[c] = call[c]
      BY <1>3, <2>3 DEF TrySlot
    <3> QED
      BY <2>1, <3>1, <3>2
  <2> QED
    BY <2>2, <2>3
<1>4. CASE LastingFailure(a) \/ Answered(a) \/ GatewayDies(a)
  BY <1>4, <1>a DEF LastingFailure, Answered, GatewayDies
<1>5. ASSUME NEW m, PassingFailure(a, m)
      PROVE  call'[slot'[s]].pc \in {"sent", "pause"}
  BY <1>5, <1>a DEF PassingFailure
<1>6. ASSUME NEW n \in Nat, FurtherPage(a, n)
      PROVE  call'[slot'[s]].pc \in {"sent", "pause"}
  BY <1>6, <1>a DEF FurtherPage
<1> QED
  BY <1>1, <1>2, <1>3, <1>4, <1>5, <1>6 DEF CallStep

\* Every step of the program is a step of at most one call.
LEMMA CallsOneByOne ==
    ASSUME GatewayType, [Next]_vars
    PROVE  UNCHANGED gatewayVars \/ \E a \in Callers : CallStep(a)
<1> USE DEF gatewayVars
<1>1. CASE Membership
  BY <1>1 DEF Membership, Leave, Join, Regrade, CountChange
<1>2. ASSUME NEW a \in Callers, NEW u \in Users, NEW k \in Kinds, Request(a, u, k)
      PROVE  CallStep(a)
  BY <1>2 DEF Request, Start, CallStep
<1>3. ASSUME NEW a \in Callers, Waiting(a) PROVE CallStep(a)
  BY <1>3 DEF Waiting, CallStep
<1>4. ASSUME NEW a \in Callers, Discovery(a) PROVE CallStep(a)
  <2>1. CASE ReadPage(a)
    <3>1. call[a].start + PageSize \in Nat
      BY AccessAssumption DEF GatewayType, Calls
    <3> QED
      BY <2>1, <3>1 DEF ReadPage, CallStep
  <2> QED
    BY <1>4, <2>1 DEF Discovery, KnowIdentity, AskGroup, KnowRole, Deny, LastPage, CallStep
<1>5. ASSUME NEW a \in Callers, WebStep(a) PROVE UNCHANGED gatewayVars \/ CallStep(a)
  BY <1>5 DEF WebStep, Authorize, View, Edit, CreateProtocol, AskNewGroup, CreateProject,
     Export, Download, Enqueue, Finish, LastPage, CallStep
<1>6. ASSUME NEW a \in Callers, WorkerStep(a) PROVE UNCHANGED gatewayVars \/ CallStep(a)
  BY <1>6 DEF WorkerStep, TakeJob, Start, RunJob, Settle, CallStep
<1>7. ASSUME NEW a \in Callers, ReadRepeatedPage(a) PROVE CallStep(a)
  BY <1>7 DEF ReadRepeatedPage, GatewayType, Calls, CallStep
<1>8. ASSUME NEW a \in Callers, AttemptFails(a) PROVE CallStep(a)
  BY <1>8 DEF AttemptFails, MethodOf, CallStep
<1>9. ASSUME NEW a \in Callers, Crash(a) PROVE CallStep(a)
  BY <1>9 DEF Crash, CallStep
<1>10. CASE UNCHANGED vars
  BY <1>10 DEF vars
<1> QED
  BY <1>1, <1>2, <1>3, <1>4, <1>5, <1>6, <1>7, <1>8, <1>9, <1>10 DEF Next, Step

-----------------------------------------------------------------------------
(* Lists of members. *)

\* What stands on a page of a list.
LEMMA WindowFacts ==
    ASSUME NEW S, NEW s \in Seq(S), NEW n \in Nat, NEW last \in Nat, last <= Len(s), NEW e
    PROVE  Contains(SubSeq(s, n + 1, last), e) <=> \E k \in n + 1 .. last : s[k] = e
<1> DEFINE w == SubSeq(s, n + 1, last)
<1>1. Len(w) = (IF n + 1 <= last THEN last - n ELSE 0)
  BY SubSeqProperties
<1>2. \A k \in 1 .. last - n : w[k] = s[n + k]
  BY SubSeqProperties
<1>3. ASSUME NEW k \in 1 .. Len(w), w[k] = e PROVE \E m \in n + 1 .. last : s[m] = e
  <2>1. k \in 1 .. last - n /\ n + k \in n + 1 .. last
    BY <1>1
  <2> QED
    BY <2>1, <1>2, <1>3
<1>4. ASSUME NEW m \in n + 1 .. last, s[m] = e PROVE \E k \in 1 .. Len(w) : w[k] = e
  <2>1. m - n \in 1 .. last - n /\ m - n \in 1 .. Len(w) /\ n + (m - n) = m
    BY <1>1
  <2> QED
    BY <2>1, <1>2, <1>4
<1> QED
  BY <1>3, <1>4 DEF Contains

\* Who is in a list that somebody has left.
LEMMA RemovalFacts ==
    ASSUME NEW S, NEW s \in Seq(S), IsInjective(s), NEW n \in 1 .. Len(s)
    PROVE  /\ RemoveAt(s, n) \in Seq(S)
           /\ IsInjective(RemoveAt(s, n))
           /\ \A v : Contains(RemoveAt(s, n), v) <=> Contains(s, v) /\ v # s[n]
<1> DEFINE r == RemoveAt(s, n)
<1>1. /\ r \in Seq(S)
      /\ Len(r) = Len(s) - 1
      /\ \A k \in 1 .. Len(r) : r[k] = IF k < n THEN s[k] ELSE s[k + 1]
  <2> DEFINE left == SubSeq(s, 1, n - 1)
             right == SubSeq(s, n + 1, Len(s))
  <2>1. /\ left \in Seq(S)
        /\ Len(left) = n - 1
        /\ \A k \in 1 .. n - 1 : left[k] = s[k]
    BY SubSeqProperties
  <2>2. /\ right \in Seq(S)
        /\ Len(right) = Len(s) - n
        /\ \A k \in 1 .. Len(s) - n : right[k] = s[n + k]
    BY SubSeqProperties
  <2>3. r = left \o right
    BY DEF RemoveAt
  <2>4. ASSUME NEW k \in 1 .. Len(r) PROVE r[k] = IF k < n THEN s[k] ELSE s[k + 1]
    <3> HIDE DEF left, right, r
    <3>1. Len(r) = Len(s) - 1
      BY <2>1, <2>2, <2>3, ConcatProperties
    <3>2. CASE k < n
      BY <2>1, <2>2, <2>3, <3>1, <3>2, ConcatProperties
    <3>3. CASE k >= n
      <4>1. r[k] = right[k - (n - 1)]
        BY <2>1, <2>2, <2>3, <3>1, <3>3, ConcatProperties
      <4>2. k - (n - 1) \in 1 .. Len(s) - n /\ n + (k - (n - 1)) = k + 1
        BY <3>1, <3>3
      <4> QED
        BY <2>2, <3>3, <4>1, <4>2
    <3> QED
      BY <3>2, <3>3
  <2> HIDE DEF left, right, r
  <2>5. r \in Seq(S) /\ Len(r) = Len(s) - 1
    BY <2>1, <2>2, <2>3, ConcatProperties
  <2> QED
    BY <2>4, <2>5
<1> HIDE DEF r
<1>2. IsInjective(r)
  <2> DEFINE at(k) == IF k < n THEN k ELSE k + 1
  <2>1. \A k \in 1 .. Len(r) : at(k) \in 1 .. Len(s) /\ r[k] = s[at(k)]
    BY <1>1
  <2>2. \A j, k \in 1 .. Len(s) : s[j] = s[k] => j = k
    BY DEF IsInjective
  <2>3. \A j, k \in 1 .. Len(r) : at(j) = at(k) => j = k
    BY <1>1
  <2> HIDE DEF at
  <2>4. \A j, k \in 1 .. Len(r) : r[j] = r[k] => j = k
    BY <2>1, <2>2, <2>3
  <2> QED
    BY <1>1, <2>4 DEF IsInjective
<1>3. ASSUME NEW v PROVE Contains(r, v) <=> Contains(s, v) /\ v # s[n]
  <2>1. ASSUME NEW k \in 1 .. Len(r), r[k] = v PROVE Contains(s, v) /\ v # s[n]
    BY <2>1, <1>1 DEF Contains, IsInjective
  <2>2. ASSUME NEW k \in 1 .. Len(s), s[k] = v, v # s[n] PROVE Contains(r, v)
    <3>1. CASE k < n
      BY <3>1, <2>2, <1>1 DEF Contains
    <3>2. CASE k > n
      <4>1. k - 1 \in 1 .. Len(r) /\ r[k - 1] = s[k]
        BY <3>2, <1>1
      <4> QED
        BY <4>1, <2>2 DEF Contains
    <3> QED
      BY <2>2, <3>1, <3>2
  <2> QED
    BY <2>1, <2>2 DEF Contains
<1> QED
  BY <1>1, <1>2, <1>3 DEF r

\* Who is in a list that somebody has joined.
LEMMA JoinFacts ==
    ASSUME NEW S, NEW s \in Seq(S), IsInjective(s), NEW u \in S, ~Contains(s, u)
    PROVE  /\ Append(s, u) \in Seq(S)
           /\ IsInjective(Append(s, u))
           /\ \A v : Contains(Append(s, u), v) <=> Contains(s, v) \/ v = u
<1> DEFINE r == Append(s, u)
<1>1. /\ r \in Seq(S)
      /\ Len(r) = Len(s) + 1
      /\ \A k \in 1 .. Len(s) : r[k] = s[k]
      /\ r[Len(s) + 1] = u
  OBVIOUS
<1>2. IsInjective(r)
  BY <1>1 DEF IsInjective, Contains
<1>3. ASSUME NEW v PROVE Contains(r, v) <=> Contains(s, v) \/ v = u
  BY <1>1 DEF Contains
<1> QED
  BY <1>1, <1>2, <1>3
-----------------------------------------------------------------------------
(* What is found in a list. *)

\* A page shows members of its group; the pages read so far and this one miss
\* nobody before the place of the next page.
LEMMA PageFacts ==
    ASSUME TypeOK, NEW a \in Callers, GroupAsked(a) \in Groups, NEW u
    PROVE  LET list == roster[GroupAsked(a)]
               start == call[a].start
           IN  /\ Contains(Page(a), u) => Contains(list, u)
               /\ ~Contains(Page(a), u) /\ (\A n \in 1 .. start : list[n] # u) =>
                      /\ LastPageReached(a) => ~Contains(list, u)
                      /\ ~LastPageReached(a) =>
                             \A n \in 1 .. start + PageSize : list[n] # u
<1> DEFINE list == roster[GroupAsked(a)]
           n == call[a].start
           last == IF n + 1 + PageSize - 1 < Len(list) THEN n + 1 + PageSize - 1
                                                       ELSE Len(list)
<1>1. list \in Seq(Members) /\ n \in Nat /\ PageSize \in Nat \ {0} /\ Len(list) \in Nat
  BY AccessAssumption DEF TypeOK, GatewayType, Calls
<1>2. Page(a) = SubSeq(list, n + 1, last)
  BY DEF Page
<1>3. LastPageReached(a) <=> n + PageSize >= Len(list)
  BY DEF LastPageReached
<1> HIDE DEF list, n
<1>4. Contains(Page(a), u) <=> \E k \in n + 1 .. last : list[k] = u
  <2> HIDE DEF last
  <2>1. last \in Nat /\ last <= Len(list)
    BY <1>1 DEF last
  <2>2. Contains(SubSeq(list, n + 1, last), u) <=> \E k \in n + 1 .. last : list[k] = u
    BY <1>1, <2>1, WindowFacts
  <2> QED
    BY <1>2, <2>2
<1>5. Contains(list, u) <=> \E k \in 1 .. Len(list) : list[k] = u
  BY DEF Contains
<1>6. Contains(Page(a), u) => Contains(list, u)
  BY <1>1, <1>4, <1>5
<1>7. ASSUME ~Contains(Page(a), u), \A k \in 1 .. n : list[k] # u
      PROVE  \A k \in 1 .. last : list[k] # u
  BY <1>1, <1>4, <1>7
<1>8. LastPageReached(a) => last = Len(list)
  BY <1>1, <1>3
<1>9. ~LastPageReached(a) => last = n + PageSize
  BY <1>1, <1>3
<1> HIDE DEF last
<1>10. LastPageReached(a) /\ (\A k \in 1 .. last : list[k] # u) => ~Contains(list, u)
  BY <1>5, <1>8
<1>11. ~LastPageReached(a) /\ (\A k \in 1 .. last : list[k] # u) =>
           \A k \in 1 .. n + PageSize : list[k] # u
  BY <1>9
<1> QED
  BY <1>6, <1>7, <1>10, <1>11 DEF list, n

\* Whose role is asked for, and where; a role that was found is the user's, now
\* or when it was found.
LEMMA FoundFacts ==
    ASSUME TypeOK, ActInv, KnownInv, HeldInv, NEW a \in Callers, Asking(a)
    PROVE  /\ act[a].user \in Users
           /\ GroupAsked(a) \in Groups
           /\ Found(a) \in AnyRole
           /\ act[a].current # None /\ Found(a) # "none" =>
                  Found(a) \in HeldIn(a, act[a].current)
<1> DEFINE g == GroupAsked(a)
<1>1. act[a].user \in Users /\ act[a].pc # "idle"
  BY DEF ActInv, Orderly, Asking
<1>2. g \in Groups
  <2>1. CASE act[a].pc = "guard"
    BY <2>1 DEF GroupAsked, ActInv, Orderly
  <2>2. CASE act[a].pc # "guard" /\ act[a].current # None
    BY <2>2 DEF GroupAsked, KnownInv, TypeOK, Acts
  <2> QED
    BY <2>1, <2>2 DEF Asking
<1>3. level[g][act[a].user] \in Levels
  BY <1>1, <1>2 DEF TypeOK
<1>4. Found(a) \in AnyRole
  BY <1>3 DEF Found, AnyRole, TypeOK, Acts
<1>5. Contains(Page(a), act[a].user) => Contains(roster[g], act[a].user)
  BY <1>2, PageFacts
<1>6. ASSUME act[a].current # None, Found(a) # "none"
      PROVE  Found(a) \in HeldIn(a, act[a].current)
  <2>1. g = project[act[a].current]
    BY <1>6 DEF GroupAsked, ActInv, Orderly
  <2>2. CASE Found(a) = act[a].found
    BY <1>1, <1>6, <2>2 DEF HeldInv
  <2>3. CASE Contains(Page(a), act[a].user) /\ Found(a) = level[g][act[a].user]
    <3>1. Found(a) = RoleOf(act[a].user, g)
      BY <1>5, <2>3 DEF RoleOf
    <3> QED
      BY <1>1, <1>2, <2>1, <3>1 DEF HeldInv, HeldIn
  <2> QED
    BY <2>2, <2>3 DEF Found
<1> QED
  BY <1>1, <1>2, <1>4, <1>6
-----------------------------------------------------------------------------
(* What a step does to a thread. *)

\* Thread a changes its work, and no other thread is disturbed.
Only(a) ==
    /\ act' = [act EXCEPT ![a] = act'[a]]
    /\ act'[a] \in Acts
    /\ \A b \in Callers \ {a} :
           held'[b] = held[b] /\ shifted'[b] = shifted[b] /\ call'[b] = call[b]
    /\ UNCHANGED <<roster, level>>

\* The thread begins to work for a user.
Starts(a) ==
    /\ act[a].pc = "idle"
    /\ \E u \in Users : \E k, t :
           /\ act'[a] = [Idle EXCEPT !.pc = "identity", !.user = u, !.kind = k, !.target = t]
           /\ held' = [held EXCEPT ![a] = Now(u)]
           /\ k = "project" => t \in Groups
           /\ k = "enqueue" => t \in Protocols
    /\ shifted' = [shifted EXCEPT ![a] = {}]

\* A page that is not the last one.
Reads(a) ==
    /\ Asking(a)
    /\ act' = [act EXCEPT ![a].found = Found(a)]
    /\ \/ call'[a].start = call[a].start
       \/ ~LastPageReached(a) /\ call'[a].start = call[a].start + PageSize

\* The thread's work in the scope it has: no scope grows any more.
Closes(a) ==
    /\ act[a].pc # "idle"
    /\ act'[a].pc \in {"ready", "guard", "answered", "settle"}
    /\ act'[a].user = act[a].user /\ act'[a].kind = act[a].kind
    /\ act'[a].target = act[a].target /\ act'[a].known = act[a].known
    /\ act'[a].todo \subseteq act[a].todo /\ act'[a].current = None
    /\ act'[a].read = act[a].read /\ act'[a].write = act[a].write
    /\ act'[a].shown \subseteq act[a].read
    /\ act'[a].pc = "guard" => act[a].target \in Groups
    /\ act'[a].pc = "settle" => act'[a].result \in {"done", "failed"}

\* The work of a thread changes in one of seven ways.
Works(a) ==
    /\ Only(a)
    /\ \/ Starts(a) \/ Forget(a)
       \/ /\ UNCHANGED <<held, shifted>>
          /\ \/ KnowIdentity(a) \/ (\E p \in Projects : AskGroup(a, p))
             \/ Reads(a) \/ KnowRole(a) \/ Closes(a)

\* Nobody's work changes, and every list stands where it stood.
Rests ==
    /\ UNCHANGED <<act, held, shifted, roster, level>>
    /\ \A b \in Callers : call'[b].start = call[b].start

\* The step of one call disturbs no other call.
LEMMA OneCall ==
    ASSUME GatewayType, NEW a \in Callers, CallStep(a)
    PROVE  \A b \in Callers \ {a} : call'[b] = call[b]
<1> USE DEF GatewayType
<1>1. CASE TrySlot(a)
  BY <1>1 DEF TrySlot
<1>2. ASSUME NEW m, PassingFailure(a, m) PROVE \A b \in Callers \ {a} : call'[b] = call[b]
  BY <1>2 DEF PassingFailure
<1> QED
  BY <1>1, <1>2 DEF CallStep, Begin, SendAgain, LastingFailure, Answered, TakeFailure,
     GatewayDies, FurtherPage

\* What a request may name.
LEMMA TargetFacts ==
    ASSUME NEW k \in Kinds, NEW t \in Targets(k)
    PROVE  /\ t \in Protocols \cup Projects \cup Reports \cup Groups \cup {None}
           /\ k = "project" => t \in Groups
           /\ k = "enqueue" => t \in Protocols
<1>1. CASE k \in {"view", "edit", "enqueue"}
  BY <1>1 DEF Targets, FreeProtocols
<1>2. CASE k = "create"
  BY <1>2 DEF Targets, FreeProjects
<1>3. CASE k = "project"
  BY <1>3 DEF Targets
<1>4. CASE k = "export"
  BY <1>4 DEF Targets
<1>5. CASE k = "download"
  BY <1>5 DEF Targets, FreeReports
<1> QED
  BY <1>1, <1>2, <1>3, <1>4, <1>5 DEF Kinds

\* The beginning of a request and of a job.
LEMMA StartWorks ==
    ASSUME TypeOK, NEW a \in Callers, NEW u \in Users, NEW k \in Kinds \cup {"job"}, NEW t,
           t \in Protocols \cup Projects \cup Reports \cup Groups \cup {None} \cup Nat,
           k = "project" => t \in Groups, k = "enqueue" => t \in Protocols,
           Start(a, u, k, t), UNCHANGED <<roster, level>>
    PROVE  Works(a)
<1> DEFINE x == [Idle EXCEPT !.pc = "identity", !.user = u, !.kind = k, !.target = t]
<1>1. act' = [act EXCEPT ![a] = x] /\ act[a].pc = "idle"
  BY DEF Start
<1>2. act'[a] = x
  BY <1>1 DEF TypeOK
<1>3. x \in Acts
  BY DEF Acts, Idle, AnyRole
<1>4. \A b \in Callers \ {a} : call'[b] = call[b]
  BY OneCall DEF Start, CallStep, TypeOK
<1> HIDE DEF x
<1>5. Only(a)
  BY <1>1, <1>2, <1>3, <1>4 DEF Only, Start, TypeOK
<1>6. Starts(a)
  BY <1>1, <1>2 DEF Starts, Start, x
<1> QED
  BY <1>5, <1>6 DEF Works

\* The end of a request, of a job and of a thread.
LEMMA ForgetWorks ==
    ASSUME TypeOK, NEW a \in Callers, Forget(a), UNCHANGED <<roster, level>>,
           UNCHANGED gatewayVars \/ CallStep(a)
    PROVE  Works(a)
<1>1. act' = [act EXCEPT ![a] = Idle] /\ act'[a] = Idle
  BY DEF Forget, TypeOK
<1>2. Idle \in Acts
  BY DEF Acts, Idle, AnyRole
<1>3. \A b \in Callers \ {a} : call'[b] = call[b]
  BY OneCall DEF gatewayVars, TypeOK
<1>4. Only(a)
  BY <1>1, <1>2, <1>3 DEF Only, Forget, TypeOK
<1> QED
  BY <1>4 DEF Works

\* A change of a thread's work that leaves the history and the lists alone.
LEMMA OnlyFacts ==
    ASSUME TypeOK, NEW a \in Callers, NEW x \in Acts, act' = [act EXCEPT ![a] = x],
           UNCHANGED <<held, shifted, roster, level>>,
           UNCHANGED gatewayVars \/ CallStep(a)
    PROVE  Only(a) /\ act'[a] = x
<1>1. act'[a] = x /\ act' = [act EXCEPT ![a] = act'[a]]
  BY DEF TypeOK
<1>2. \A b \in Callers \ {a} : call'[b] = call[b]
  BY OneCall DEF gatewayVars, TypeOK
<1> QED
  BY <1>1, <1>2 DEF Only

\* The steps of the discovery.
LEMMA DiscoveryWorks ==
    ASSUME TypeOK, ActInv, KnownInv, HeldInv, NEW a \in Callers,
           \/ KnowIdentity(a) \/ (\E p \in Projects : AskGroup(a, p))
           \/ ReadPage(a) \/ ReadRepeatedPage(a) \/ KnowRole(a)
    PROVE  Works(a)
<1>a. act[a] \in Acts /\ GatewayType
  BY DEF TypeOK
<1>b. call[a].start + PageSize \in Nat /\ \A n \in call[a].seen : n \in Nat
  BY <1>a, AccessAssumption DEF GatewayType, Calls
<1>1. CASE KnowIdentity(a)
  <2> DEFINE all == {p \in Projects : project[p] # None}
             x == [act[a] EXCEPT !.pc = "groups", !.todo = all, !.known = all]
  <2>1. act' = [act EXCEPT ![a] = x]
    BY <1>1 DEF KnowIdentity
  <2>2. x \in Acts
    BY <1>a DEF Acts
  <2>3. CallStep(a) /\ UNCHANGED <<held, shifted, roster, level>>
    BY <1>1 DEF KnowIdentity, CallStep, teamVars
  <2> HIDE DEF x
  <2> QED
    BY <1>1, <2>1, <2>2, <2>3, OnlyFacts DEF Works
<1>2. ASSUME NEW p \in Projects, AskGroup(a, p) PROVE Works(a)
  <2> DEFINE x == [act[a] EXCEPT !.current = p, !.found = "none"]
  <2>1. act' = [act EXCEPT ![a] = x]
    BY <1>2 DEF AskGroup
  <2>2. x \in Acts
    BY <1>a DEF Acts, AnyRole
  <2>3. CallStep(a) /\ UNCHANGED <<held, shifted, roster, level>>
    BY <1>2 DEF AskGroup, CallStep, teamVars
  <2> HIDE DEF x
  <2> QED
    BY <1>2, <2>1, <2>2, <2>3, OnlyFacts DEF Works
<1>3. CASE ReadPage(a) \/ ReadRepeatedPage(a)
  <2> DEFINE x == [act[a] EXCEPT !.found = Found(a)]
  <2>1. act' = [act EXCEPT ![a] = x] /\ Asking(a)
    BY <1>3 DEF ReadPage, ReadRepeatedPage
  <2>2. x \in Acts
    BY <1>a, <2>1, FoundFacts DEF Acts
  <2>3. PICK n \in Nat : /\ FurtherPage(a, n)
                         /\ \/ n = call[a].start + PageSize /\ ~LastPageReached(a)
                            \/ n \in call[a].seen
    BY <1>3, <1>b DEF ReadPage, ReadRepeatedPage
  <2>4. CallStep(a) /\ UNCHANGED <<held, shifted, roster, level>>
    BY <1>3, <2>3 DEF ReadPage, ReadRepeatedPage, CallStep, teamVars
  <2>5. \/ call'[a].start = call[a].start
        \/ ~LastPageReached(a) /\ call'[a].start = call[a].start + PageSize
    <3>1. CASE Repeats(a, n)
      BY <1>a, <2>3, <3>1 DEF FurtherPage, GatewayType, Calls
    <3>2. CASE ~Repeats(a, n)
      <4>1. call'[a] = Asked(n, call[a].seen \cup {n})
        BY <1>a, <2>3, <3>2 DEF FurtherPage, GatewayType
      <4>2. n = call[a].start + PageSize /\ ~LastPageReached(a)
        BY <2>3, <3>2 DEF Repeats
      <4> QED
        BY <4>1, <4>2 DEF Asked, NoCall
    <3> QED
      BY <3>1, <3>2
  <2>6. Reads(a)
    BY <2>1, <2>5, <1>3 DEF Reads, ReadPage, ReadRepeatedPage
  <2> HIDE DEF x
  <2> QED
    BY <2>1, <2>2, <2>4, <2>6, OnlyFacts DEF Works
<1>4. CASE KnowRole(a)
  <2> DEFINE p == act[a].current
             r == Found(a)
             x == [act[a] EXCEPT
                      !.current = None, !.todo = @ \ {p},
                      !.roles = [@ EXCEPT ![project[p]] = r],
                      !.read = IF r \in Readers THEN @ \cup {p} ELSE @,
                      !.write = IF r \in Writers THEN @ \cup {p} ELSE @]
  <2>1. act' = [act EXCEPT ![a] = x]
    BY <1>4 DEF KnowRole
  <2>2. p \in Projects /\ r \in AnyRole
    BY <1>4, <1>a, FoundFacts DEF KnowRole, Acts, Asking
  <2>3. [act[a].roles EXCEPT ![project[p]] = r] \in [Groups -> AnyRole]
    BY <1>a, <2>2 DEF Acts
  <2>4. x \in Acts
    BY <1>a, <2>2, <2>3 DEF Acts
  <2>5. CallStep(a) /\ UNCHANGED <<held, shifted, roster, level>>
    BY <1>4 DEF KnowRole, CallStep, LastPage, teamVars
  <2> HIDE DEF x
  <2> QED
    BY <1>4, <2>1, <2>4, <2>5, OnlyFacts DEF Works
<1> QED
  BY <1>1, <1>2, <1>3, <1>4

\* An answer ends the work of a request.
LEMMA AnswerWorks ==
    ASSUME TypeOK, ActInv, NEW a \in Callers, act[a].pc \in {"ready", "guard"},
           NEW shown, shown \subseteq act[a].read, Answer(a, shown),
           UNCHANGED <<held, shifted, roster, level>>,
           UNCHANGED gatewayVars \/ CallStep(a)
    PROVE  Works(a)
<1> DEFINE x == [act[a] EXCEPT !.pc = "answered", !.shown = shown]
<1>1. act' = [act EXCEPT ![a] = x]
  BY DEF Answer
<1>2. act[a] \in Acts
  BY DEF TypeOK
<1>3. shown \in SUBSET Projects
  BY <1>2 DEF Acts
<1>4. x \in Acts
  BY <1>2, <1>3 DEF Acts
<1>5. act[a].current = None
  BY DEF ActInv, Orderly
<1> HIDE DEF x
<1>6. Only(a) /\ act'[a] = x
  BY <1>1, <1>4, OnlyFacts
<1>7. Closes(a)
  BY <1>2, <1>5, <1>6 DEF Closes, x, Acts
<1> QED
  BY <1>6, <1>7 DEF Works

\* The other steps of requests and of the worker.
LEMMA ThreadWorks ==
    ASSUME TypeOK, ActInv, CallInv, NEW a \in Callers, WebStep(a) \/ WorkerStep(a) \/ Deny(a)
    PROVE  Works(a)
<1>a. act[a] \in Acts
  BY DEF TypeOK
<1> USE DEF teamVars
<1>1. ASSUME NEW r, Authorize(a, r) PROVE Works(a)
  <2> DEFINE to == IF Wanted(act[a].kind) \subseteq RolePermissions(r) THEN "ready"
                                                                       ELSE "answered"
             x == [act[a] EXCEPT !.pc = to]
  <2>1. act' = [act EXCEPT ![a] = x] /\ ScopeKnown(a) /\ UNCHANGED gatewayVars
    BY <1>1 DEF Authorize
  <2>2. UNCHANGED <<held, shifted, roster, level>>
    BY <1>1 DEF Authorize
  <2>3. to \in {"ready", "answered"}
    OBVIOUS
  <2> HIDE DEF to
  <2>4. x \in Acts
    BY <1>a, <2>3 DEF Acts
  <2>5. Only(a) /\ act'[a] = x
    BY <2>1, <2>2, <2>4, OnlyFacts
  <2>6. Closes(a)
    BY <1>a, <2>1, <2>3, <2>5 DEF Closes, ScopeKnown, Acts, ActInv, Orderly
  <2> QED
    BY <2>2, <2>5, <2>6 DEF Works
<1>2. CASE View(a)
  BY <1>2, AnswerWorks DEF View
<1>3. CASE Edit(a) \/ CreateProtocol(a) \/ Enqueue(a)
  BY <1>3, AnswerWorks DEF Edit, CreateProtocol, Enqueue
<1>4. CASE AskNewGroup(a)
  <2> DEFINE x == [act[a] EXCEPT !.pc = "guard", !.found = "none"]
  <2>1. act' = [act EXCEPT ![a] = x] /\ act[a].pc = "ready" /\ act[a].kind = "project"
    BY <1>4 DEF AskNewGroup
  <2>2. CallStep(a) /\ UNCHANGED <<held, shifted, roster, level>>
    BY <1>4 DEF AskNewGroup, CallStep
  <2>3. x \in Acts
    BY <1>a DEF Acts, AnyRole
  <2>4. act[a].current = None /\ act[a].target \in Groups /\ act[a].shown \subseteq act[a].read
    BY <2>1 DEF ActInv, Orderly
  <2> HIDE DEF x
  <2>5. Only(a) /\ act'[a] = x
    BY <2>1, <2>2, <2>3, OnlyFacts
  <2>6. Closes(a)
    BY <1>a, <2>1, <2>4, <2>5 DEF Closes, x, Acts
  <2> QED
    BY <2>2, <2>5, <2>6 DEF Works
<1>5. CASE CreateProject(a)
  BY <1>5, AnswerWorks DEF CreateProject, InsertProject, LastPage, CallStep
<1>6. CASE Export(a)
  BY <1>6, AnswerWorks DEF Export
<1>7. CASE Download(a)
  <2>1. (IF MayDownload(a, act[a].target) THEN report[act[a].target].ids ELSE {})
            \subseteq act[a].read
    BY DEF MayDownload
  <2> QED
    BY <1>7, <2>1, AnswerWorks DEF Download
<1>8. CASE Finish(a)
  BY <1>8, ForgetWorks DEF Finish
<1>9. ASSUME NEW j \in DOMAIN jobs, TakeJob(a, j) PROVE Works(a)
  <2>1. j \in 1 .. Len(jobs)
    BY DEF TypeOK
  <2>2. jobs[j] \in [protocol : Protocols, user : Users, status : JobStatuses]
    BY <2>1, ElementOfSeq DEF TypeOK
  <2> QED
    <3>1. Start(a, jobs[j].user, "job", j) /\ UNCHANGED <<roster, level>>
      BY <1>9 DEF TakeJob
    <3>2. jobs[j].user \in Users /\ j \in Nat
      BY <2>1, <2>2
    <3> QED
      BY <3>1, <3>2, StartWorks
<1>10. CASE RunJob(a)
  <2> DEFINE d == jobs[act[a].target].protocol
             allowed == MayWrite(a, protocol[d].project)
             res == IF allowed THEN "done" ELSE "failed"
             x == [act[a] EXCEPT !.pc = "settle", !.result = res]
  <2>1. act' = [act EXCEPT ![a] = x] /\ ScopeKnown(a) /\ UNCHANGED gatewayVars
    BY <1>10 DEF RunJob
  <2>2. UNCHANGED <<held, shifted, roster, level>>
    BY <1>10 DEF RunJob
  <2>3. res \in {"done", "failed"}
    OBVIOUS
  <2> HIDE DEF res
  <2>4. x \in Acts
    BY <1>a, <2>3 DEF Acts
  <2>5. Only(a) /\ act'[a] = x
    BY <2>1, <2>2, <2>4, OnlyFacts
  <2>6. act'[a].pc = "settle" /\ act'[a].result = res
    BY <1>a, <2>5 DEF Acts
  <2>7. \A f \in {"user", "kind", "target", "known", "todo", "current", "read", "write", "shown"} :
            act'[a][f] = act[a][f]
    BY <1>a, <2>5 DEF Acts
  <2>8. act[a].shown \subseteq act[a].read
    BY DEF ActInv, Orderly
  <2> HIDE DEF x
  <2>9. Closes(a)
    BY <2>1, <2>3, <2>6, <2>7, <2>8 DEF Closes, ScopeKnown
  <2> QED
    BY <2>2, <2>5, <2>9 DEF Works
<1>11. CASE Settle(a)
  BY <1>11, ForgetWorks DEF Settle
<1>12. CASE Deny(a)
  <2> DEFINE to == IF a \in Web THEN "answered" ELSE "settle"
             x == [act[a] EXCEPT !.pc = to, !.current = None, !.todo = {}, !.result = "failed"]
  <2>1. act' = [act EXCEPT ![a] = x] /\ act[a].pc # "idle"
    BY <1>12, <1>a DEF Deny, TakeFailure, CallInv, Asking, ActInv, Orderly
  <2>2. CallStep(a) /\ UNCHANGED <<held, shifted, roster, level>>
    BY <1>12 DEF Deny, CallStep
  <2>3. to \in {"answered", "settle"}
    OBVIOUS
  <2> HIDE DEF to
  <2>4. x \in Acts
    BY <1>a, <2>3 DEF Acts
  <2>5. Only(a) /\ act'[a] = x
    BY <2>1, <2>2, <2>4, OnlyFacts
  <2>6. act'[a].pc = to /\ act'[a].current = None /\ act'[a].todo = {} /\ act'[a].result = "failed"
    BY <1>a, <2>5 DEF Acts
  <2>7. \A f \in {"user", "kind", "target", "known", "read", "write", "shown"} :
            act'[a][f] = act[a][f]
    BY <1>a, <2>5 DEF Acts
  <2>8. act[a].shown \subseteq act[a].read
    BY DEF ActInv, Orderly
  <2> HIDE DEF x
  <2>9. Closes(a)
    BY <2>1, <2>3, <2>6, <2>7, <2>8 DEF Closes
  <2> QED
    BY <2>2, <2>5, <2>9 DEF Works
<1> QED
  BY <1>1, <1>2, <1>3, <1>4, <1>5, <1>6, <1>7, <1>8, <1>9, <1>10, <1>11, <1>12
  DEF WebStep, WorkerStep

\* Membership changes, or one thread works, or nothing moves.
LEMMA StepShape ==
    ASSUME TypeOK, ActInv, CallInv, KnownInv, HeldInv, [Next]_vars
    PROVE  Membership \/ Rests \/ \E a \in Callers : Works(a)
<1>1. ASSUME NEW a \in Callers, NEW u \in Users, NEW k \in Kinds, Request(a, u, k)
      PROVE  Works(a)
  <2>1. PICK t \in Targets(k) : Start(a, u, k, t)
    BY <1>1 DEF Request
  <2>2. UNCHANGED <<roster, level>>
    BY <1>1 DEF Request, teamVars
  <2> QED
    BY <2>1, <2>2, TargetFacts, StartWorks
<1>2. ASSUME NEW a \in Callers, Waiting(a) \/ AttemptFails(a) PROVE Rests
  <2>1. UNCHANGED <<act, held, shifted, roster, level>>
    BY <1>2 DEF Waiting, AttemptFails, CountFailure, teamVars
  <2>2. call \in [Callers -> Calls] /\ Missed(call[a]).start = call[a].start
    BY DEF Missed, TypeOK, GatewayType, Calls
  <2>3. ASSUME SendAgain(a) \/ TrySlot(a) PROVE call'[a].start = call[a].start
    BY <2>2, <2>3 DEF SendAgain, TrySlot, Calls
  <2>4. ASSUME NEW m, PassingFailure(a, m) \/ LastingFailure(a)
        PROVE  call'[a].start = call[a].start
    BY <2>2, <2>4 DEF PassingFailure, LastingFailure, Calls
  <2>5. \A b \in Callers \ {a} : call'[b] = call[b]
    BY <1>2, OneCall DEF Waiting, AttemptFails, MethodOf, CallStep, TypeOK
  <2> QED
    BY <1>2, <2>1, <2>3, <2>4, <2>5 DEF Waiting, AttemptFails, Rests
<1>3. ASSUME NEW a \in Callers, Discovery(a) \/ ReadRepeatedPage(a) PROVE Works(a)
  BY <1>3, DiscoveryWorks, ThreadWorks DEF Discovery
<1>4. ASSUME NEW a \in Callers, WebStep(a) \/ WorkerStep(a) PROVE Works(a)
  BY <1>4, ThreadWorks
<1>5. ASSUME NEW a \in Callers, Crash(a) PROVE Works(a)
  BY <1>5, ForgetWorks DEF Crash, teamVars, CallStep
<1>6. CASE UNCHANGED vars
  BY <1>6 DEF vars, teamVars, gatewayVars, Rests
<1> QED
  BY <1>1, <1>2, <1>3, <1>4, <1>5, <1>6 DEF Next, Step

-----------------------------------------------------------------------------
(* Types. *)

\* A project keeps its group.
LEMMA ProjectsStay ==
    ASSUME TypeOK, ActInv, [Next]_vars
    PROVE  /\ project' \in [Projects -> Groups \cup {None}]
           /\ \A p \in Projects : project[p] # None => project'[p] = project[p]
<1> USE DEF TypeOK
<1>1. ASSUME NEW a \in Callers, CreateProject(a)
      PROVE  /\ project' \in [Projects -> Groups \cup {None}]
             /\ \A p \in Projects : project[p] # None => project'[p] = project[p]
  <2>1. act[a].target \in Groups
    BY <1>1 DEF CreateProject, ActInv, Orderly
  <2>2. project' = project \/ \E p \in FreeProjects : project' = [project EXCEPT ![p] = act[a].target]
    BY <1>1 DEF CreateProject, InsertProject
  <2> QED
    BY <2>1, <2>2 DEF FreeProjects
<1>2. ASSUME NEW a \in Callers, WebStep(a), ~CreateProject(a) PROVE project' = project
  BY <1>2 DEF WebStep, Authorize, View, Edit, CreateProtocol, AskNewGroup, Export, Download,
     Enqueue, Finish, dataVars
<1>3. ASSUME NEW a \in Callers, Waiting(a) \/ Discovery(a) \/ WorkerStep(a) \/ ReadRepeatedPage(a)
                                \/ AttemptFails(a) \/ Crash(a)
      PROVE  project' = project
  BY <1>3 DEF Waiting, Discovery, KnowIdentity, AskGroup, ReadPage, ReadRepeatedPage, KnowRole,
     Deny, WorkerStep, TakeJob, RunJob, Settle, AttemptFails, CountFailure, Crash, dataVars
<1>4. ASSUME NEW a \in Callers, NEW u \in Users, NEW k \in Kinds, Request(a, u, k)
      PROVE  project' = project
  BY <1>4 DEF Request, dataVars
<1>5. CASE Membership
  BY <1>5 DEF Membership, Leave, Join, Regrade, CountChange, dataVars
<1>6. CASE UNCHANGED vars
  BY <1>6 DEF vars, dataVars
<1> QED
  BY <1>1, <1>2, <1>3, <1>4, <1>5, <1>6 DEF Next, Step

\* What a change of membership leaves true: the lists are lists, the history of a
\* busy thread has the present roles, and where nobody left the list only grew.
MembershipShape ==
    /\ UNCHANGED <<act, call, project>>
    /\ roster' \in [Groups -> Seq(Members)]
    /\ \A g \in Groups : IsInjective(roster'[g])
    /\ level' \in [Groups -> [Users -> Levels]]
    /\ \A v \in Users, h \in Groups : RoleOf(v, h)' \in AnyRole
    /\ held' = [a \in Callers |->
           IF act[a].pc = "idle" THEN held[a]
           ELSE [g \in Groups |-> held[a][g] \cup {RoleOf(act[a].user, g)'}]]
    /\ shifted' \in [Callers -> SUBSET Groups]
    /\ \A a \in Callers :
           /\ act[a].pc = "idle" => shifted'[a] = shifted[a]
           /\ shifted[a] \subseteq shifted'[a]
           /\ \A g \in Groups \ shifted'[a] : act[a].pc # "idle" =>
                  /\ Len(roster[g]) <= Len(roster'[g])
                  /\ \A n \in 1 .. Len(roster[g]) : roster'[g][n] = roster[g][n]

\* Every change of membership leaves that true.
LEMMA MembershipFacts ==
    ASSUME TypeOK, ActInv, Membership
    PROVE  MembershipShape
<1> USE DEF TypeOK, CountChange, gatewayVars, dataVars
<1>a. \A a \in Callers : act[a].pc # "idle" => act[a].user \in Users
  BY DEF ActInv, Orderly
<1>1. ASSUME NEW g \in Groups, NEW u \in Members, Leave(g, u) PROVE MembershipShape
  <2>1. PICK n \in 1 .. Len(roster[g]) :
            roster[g][n] = u /\ roster' = [roster EXCEPT ![g] = RemoveAt(roster[g], n)]
    BY <1>1 DEF Leave
  <2>2. roster[g] \in Seq(Members) /\ IsInjective(roster[g])
    OBVIOUS
  <2>3. /\ RemoveAt(roster[g], n) \in Seq(Members) /\ IsInjective(RemoveAt(roster[g], n))
        /\ \A v : Contains(RemoveAt(roster[g], n), v) <=> Contains(roster[g], v) /\ v # u
    BY <2>1, <2>2, RemovalFacts
  <2>4. roster' \in [Groups -> Seq(Members)] /\ \A h \in Groups : IsInjective(roster'[h])
    BY <2>1, <2>3
  <2>5. ASSUME NEW v \in Users, NEW h \in Groups
        PROVE  /\ RoleOf(v, h)' = IF v = u /\ h = g THEN "none" ELSE RoleOf(v, h)
               /\ RoleOf(v, h)' \in AnyRole
    <3>1. level' = level /\ level[h][v] \in Levels
      BY <1>1 DEF Leave, Noted
    <3>2. roster'[h] = IF h = g THEN RemoveAt(roster[g], n) ELSE roster[h]
      BY <2>1
    <3>3. Contains(roster'[h], v) <=> Contains(roster[h], v) /\ ~(v = u /\ h = g)
      BY <2>3, <3>2
    <3> QED
      BY <3>1, <3>3 DEF RoleOf, AnyRole
  <2>6. /\ UNCHANGED <<act, call, project, level>>
        /\ shifted' = [a \in Callers |->
               IF act[a].pc = "idle" THEN shifted[a] ELSE shifted[a] \cup {g}]
        /\ held' = [a \in Callers |->
               IF act[a].pc = "idle" THEN held[a]
               ELSE [h \in Groups |-> held[a][h] \cup
                        {IF act[a].user = u /\ h = g THEN "none" ELSE RoleOf(act[a].user, h)}]]
    BY <1>1 DEF Leave, Noted
  <2>7. held' = [a \in Callers |->
           IF act[a].pc = "idle" THEN held[a]
           ELSE [h \in Groups |-> held[a][h] \cup {RoleOf(act[a].user, h)'}]]
    BY <1>a, <2>5, <2>6
  <2>8. \A h \in Groups : h # g => roster'[h] = roster[h]
    BY <2>1
  <2>9. ASSUME NEW a \in Callers, NEW h \in Groups \ shifted'[a], act[a].pc # "idle"
        PROVE  /\ Len(roster[h]) <= Len(roster'[h])
               /\ \A k \in 1 .. Len(roster[h]) : roster'[h][k] = roster[h][k]
    <3>1. roster'[h] = roster[h]
      BY <2>6, <2>8, <2>9
    <3> QED
      BY <3>1
  <2>10. /\ shifted' \in [Callers -> SUBSET Groups]
         /\ \A a \in Callers : /\ act[a].pc = "idle" => shifted'[a] = shifted[a]
                               /\ shifted[a] \subseteq shifted'[a]
    BY <2>6
  <2> QED
    BY <2>4, <2>5, <2>6, <2>7, <2>9, <2>10 DEF MembershipShape
<1>2. ASSUME NEW g \in Groups, NEW u \in Members, NEW l \in Levels, Join(g, u, l)
      PROVE  MembershipShape
  <2>1. ~Contains(roster[g], u) /\ roster' = [roster EXCEPT ![g] = Append(@, u)]
    BY <1>2 DEF Join
  <2>2. roster[g] \in Seq(Members) /\ IsInjective(roster[g])
    OBVIOUS
  <2>3. /\ Append(roster[g], u) \in Seq(Members) /\ IsInjective(Append(roster[g], u))
        /\ \A v : Contains(Append(roster[g], u), v) <=> Contains(roster[g], v) \/ v = u
    BY <2>1, <2>2, JoinFacts
  <2>4. roster' \in [Groups -> Seq(Members)] /\ \A h \in Groups : IsInjective(roster'[h])
    BY <2>1, <2>3
  <2>5. /\ level' \in [Groups -> [Users -> Levels]]
        /\ \A v \in Users, h \in Groups :
               level'[h][v] = IF v = u /\ h = g THEN l ELSE level[h][v]
    <3>1. CASE u \in Users
      <4>1. level' = [level EXCEPT ![g][u] = l]
        BY <1>2, <3>1 DEF Join
      <4> QED
        BY <4>1
    <3>2. CASE u \notin Users
      BY <1>2, <3>2 DEF Join
    <3> QED
      BY <3>1, <3>2
  <2>6. ASSUME NEW v \in Users, NEW h \in Groups
        PROVE  /\ RoleOf(v, h)' = IF v = u /\ h = g THEN l ELSE RoleOf(v, h)
               /\ RoleOf(v, h)' \in AnyRole
    <3>1. Contains(roster'[h], v) <=> Contains(roster[h], v) \/ (v = u /\ h = g)
      BY <2>1, <2>3
    <3> QED
      BY <2>5, <3>1 DEF RoleOf, AnyRole
  <2>7. /\ UNCHANGED <<act, call, project, shifted>>
        /\ held' = [a \in Callers |->
               IF act[a].pc = "idle" THEN held[a]
               ELSE [h \in Groups |-> held[a][h] \cup
                        {IF act[a].user = u /\ h = g THEN l ELSE RoleOf(act[a].user, h)}]]
    BY <1>2 DEF Join, Noted
  <2>8. held' = [a \in Callers |->
           IF act[a].pc = "idle" THEN held[a]
           ELSE [h \in Groups |-> held[a][h] \cup {RoleOf(act[a].user, h)'}]]
    BY <1>a, <2>6, <2>7
  <2>9. ASSUME NEW h \in Groups
        PROVE  /\ Len(roster[h]) <= Len(roster'[h])
               /\ \A k \in 1 .. Len(roster[h]) : roster'[h][k] = roster[h][k]
    <3>1. roster[h] \in Seq(Members) /\ roster'[h] = IF h = g THEN Append(roster[h], u)
                                                              ELSE roster[h]
      BY <2>1
    <3>2. u \in Members
      OBVIOUS
    <3> QED
      BY <3>1, <3>2, AppendProperties
  <2> QED
    BY <2>4, <2>5, <2>6, <2>7, <2>8, <2>9 DEF MembershipShape
<1>3. ASSUME NEW g \in Groups, NEW u \in Users, NEW l \in Levels, Regrade(g, u, l)
      PROVE  MembershipShape
  <2>1. /\ Contains(roster[g], u) /\ level' = [level EXCEPT ![g][u] = l]
        /\ UNCHANGED <<act, call, project, shifted, roster>>
        /\ held' = [a \in Callers |->
               IF act[a].pc = "idle" THEN held[a]
               ELSE [h \in Groups |-> held[a][h] \cup
                        {IF act[a].user = u /\ h = g THEN l ELSE RoleOf(act[a].user, h)}]]
    BY <1>3 DEF Regrade, Noted
  <2>2. level' \in [Groups -> [Users -> Levels]]
    BY <2>1
  <2>3. ASSUME NEW v \in Users, NEW h \in Groups
        PROVE  /\ RoleOf(v, h)' = IF v = u /\ h = g THEN l ELSE RoleOf(v, h)
               /\ RoleOf(v, h)' \in AnyRole
    BY <2>1, <2>2 DEF RoleOf, AnyRole
  <2>4. held' = [a \in Callers |->
           IF act[a].pc = "idle" THEN held[a]
           ELSE [h \in Groups |-> held[a][h] \cup {RoleOf(act[a].user, h)'}]]
    BY <1>a, <2>1, <2>3
  <2>5. \A h \in Groups : roster[h] \in Seq(Members) /\ roster'[h] = roster[h]
    BY <2>1
  <2>6. \A h \in Groups : Len(roster[h]) <= Len(roster'[h])
    BY <2>5
  <2> QED
    BY <2>1, <2>2, <2>3, <2>4, <2>5, <2>6 DEF MembershipShape
<1> QED
  BY <1>1, <1>2, <1>3 DEF Membership

\* The rows of protocols, reports and jobs.
TablesOK ==
    /\ protocol \in [Protocols -> [project : Projects \cup {None}, version : Nat]]
    /\ report \in [Reports -> [user : Users, ids : SUBSET Projects] \cup {None}]
    /\ jobs \in Seq([protocol : Protocols, user : Users, status : JobStatuses])

\* A status of a job keeps the queue a queue.
LEMMA StatusTyped ==
    ASSUME TablesOK, NEW j, NEW s \in JobStatuses, jobs' = [jobs EXCEPT ![j].status = s]
    PROVE  jobs' \in Seq([protocol : Protocols, user : Users, status : JobStatuses])
<1> DEFINE Rows == [protocol : Protocols, user : Users, status : JobStatuses]
<1>1. CASE j \in 1 .. Len(jobs)
  <2>1. jobs[j] \in Rows
    BY <1>1, ElementOfSeq DEF TablesOK
  <2>2. [jobs[j] EXCEPT !.status = s] \in Rows
    BY <2>1
  <2> QED
    BY <1>1, <2>2, ExceptSeq DEF TablesOK
<1>2. CASE j \notin 1 .. Len(jobs)
  <2>1. jobs' = jobs
    BY <1>2 DEF TablesOK
  <2> QED
    BY <2>1 DEF TablesOK
<1> QED
  BY <1>1, <1>2

\* Saving one more version of a protocol keeps its row a row.
LEMMA VersionTyped ==
    ASSUME TablesOK, NEW d, protocol' = [protocol EXCEPT ![d].version = @ + 1]
    PROVE  protocol' \in [Protocols -> [project : Projects \cup {None}, version : Nat]]
<1>1. CASE d \in Protocols
  <2>1. [protocol[d] EXCEPT !.version = @ + 1] \in [project : Projects \cup {None}, version : Nat]
    <3>1. protocol[d] \in [project : Projects \cup {None}, version : Nat]
      BY <1>1 DEF TablesOK
    <3> QED
      BY <3>1
  <2> QED
    BY <1>1, <2>1 DEF TablesOK
<1>2. CASE d \notin Protocols
  <2>1. protocol' = protocol
    BY <1>2 DEF TablesOK
  <2> QED
    BY <2>1 DEF TablesOK
<1> QED
  BY <1>1, <1>2

\* Requests and jobs keep the tables well formed.
LEMMA TablesTyped ==
    ASSUME TypeOK, ActInv, [Next]_vars
    PROVE  TablesOK'
<1> USE DEF dataVars
<1>a. TablesOK /\ \A a \in Callers : act[a] \in Acts
  BY DEF TypeOK, TablesOK
<1>1. ASSUME NEW a \in Callers, Edit(a) PROVE TablesOK'
  BY <1>1, <1>a, VersionTyped DEF Edit, TablesOK
<1>2. ASSUME NEW a \in Callers, CreateProtocol(a) PROVE TablesOK'
  <2>1. MayWrite(a, act[a].target) => act[a].target \in Projects
    BY <1>a DEF MayWrite, Acts
  <2>2. protocol' \in [Protocols -> [project : Projects \cup {None}, version : Nat]]
    BY <1>2, <1>a, <2>1 DEF CreateProtocol, FreeProtocols, TablesOK
  <2> QED
    BY <1>2, <1>a, <2>2 DEF CreateProtocol, TablesOK
<1>3. ASSUME NEW a \in Callers, Export(a) PROVE TablesOK'
  <2>1. act[a].user \in Users /\ act[a].read \in SUBSET Projects
    BY <1>3, <1>a DEF Export, ActInv, Orderly, Acts
  <2> QED
    BY <1>3, <1>a, <2>1 DEF Export, FreeReports, TablesOK
<1>4. ASSUME NEW a \in Callers, Enqueue(a) PROVE TablesOK'
  <2> DEFINE row == [protocol |-> act[a].target, user |-> act[a].user, status |-> "pending"]
  <2>1. row \in [protocol : Protocols, user : Users, status : JobStatuses]
    BY <1>4 DEF Enqueue, ActInv, Orderly, JobStatuses
  <2>2. jobs' = jobs \/ jobs' = Append(jobs, row)
    BY <1>4 DEF Enqueue
  <2>3. protocol' = protocol \/ protocol' = [protocol EXCEPT ![act[a].target].version = @ + 1]
    BY <1>4 DEF Enqueue
  <2> HIDE DEF row
  <2>4. jobs' \in Seq([protocol : Protocols, user : Users, status : JobStatuses])
    <3> DEFINE Rows == [protocol : Protocols, user : Users, status : JobStatuses]
    <3>1. jobs \in Seq(Rows) /\ row \in Rows
      BY <1>a, <2>1 DEF TablesOK
    <3> HIDE DEF Rows
    <3>2. jobs' \in Seq(Rows)
      BY <2>2, <3>1, AppendProperties
    <3> QED
      BY <3>2 DEF Rows
  <2>5. protocol' \in [Protocols -> [project : Projects \cup {None}, version : Nat]]
    BY <1>a, <2>3, VersionTyped DEF TablesOK
  <2> QED
    BY <1>4, <1>a, <2>4, <2>5 DEF Enqueue, TablesOK
<1>5. ASSUME NEW a \in Callers, RunJob(a) PROVE TablesOK'
  <2>1. protocol' = protocol \/ \E d : protocol' = [protocol EXCEPT ![d].version = @ + 1]
    BY <1>5 DEF RunJob
  <2>2. protocol' \in [Protocols -> [project : Projects \cup {None}, version : Nat]]
    BY <1>a, <2>1, VersionTyped DEF TablesOK
  <2> QED
    BY <1>5, <1>a, <2>2 DEF RunJob, TablesOK
<1>6. ASSUME NEW a \in Callers, (\E j \in DOMAIN jobs : TakeJob(a, j)) \/ Settle(a) PROVE TablesOK'
  <2>1. \E j, s : s \in JobStatuses /\ jobs' = [jobs EXCEPT ![j].status = s]
    BY <1>6 DEF TakeJob, Settle, ActInv, Orderly, JobStatuses
  <2>2. jobs' \in Seq([protocol : Protocols, user : Users, status : JobStatuses])
    BY <1>a, <2>1, StatusTyped
  <2> QED
    BY <1>6, <1>a, <2>2 DEF TakeJob, Settle, TablesOK
<1>7. ASSUME UNCHANGED <<protocol, report, jobs>> PROVE TablesOK'
  BY <1>7, <1>a DEF TablesOK
<1>8. ASSUME NEW a \in Callers, WebStep(a), ~Edit(a), ~CreateProtocol(a), ~Export(a), ~Enqueue(a)
      PROVE  UNCHANGED <<protocol, report, jobs>>
  BY <1>8 DEF WebStep, Authorize, View, AskNewGroup, CreateProject, InsertProject, Download, Finish
<1>9. ASSUME NEW a \in Callers, Waiting(a) \/ Discovery(a) \/ ReadRepeatedPage(a)
                                \/ AttemptFails(a) \/ Crash(a)
      PROVE  UNCHANGED <<protocol, report, jobs>>
  BY <1>9 DEF Waiting, Discovery, KnowIdentity, AskGroup, ReadPage, ReadRepeatedPage, KnowRole,
     Deny, AttemptFails, CountFailure, Crash
<1>10. ASSUME NEW a \in Callers, NEW u \in Users, NEW k \in Kinds, Request(a, u, k)
       PROVE  UNCHANGED <<protocol, report, jobs>>
  BY <1>10 DEF Request
<1>11. CASE Membership
  BY <1>11, <1>7 DEF Membership, Leave, Join, Regrade, CountChange
<1>12. CASE UNCHANGED vars
  BY <1>12, <1>7 DEF vars
<1> QED
  BY <1>1, <1>2, <1>3, <1>4, <1>5, <1>6, <1>7, <1>8, <1>9, <1>10, <1>11, <1>12
  DEF Next, Step, WorkerStep

\* Whose type the history and the lists keep, when a thread works.
LEMMA WorkTyped ==
    ASSUME TypeOK, NEW a \in Callers, Works(a)
    PROVE  /\ act' \in [Callers -> Acts]
           /\ held' \in [Callers -> [Groups -> SUBSET AnyRole]]
           /\ shifted' \in [Callers -> SUBSET Groups]
           /\ UNCHANGED <<roster, level>>
<1> USE DEF TypeOK
<1>1. act' \in [Callers -> Acts] /\ UNCHANGED <<roster, level>>
  BY DEF Works, Only
<1>2. CASE Starts(a)
  <2>1. \A u \in Users : Now(u) \in [Groups -> SUBSET AnyRole]
    BY DEF Now, RoleOf, AnyRole
  <2> QED
    BY <1>1, <1>2, <2>1 DEF Starts
<1>3. CASE Forget(a)
  BY <1>1, <1>3 DEF Forget
<1>4. CASE UNCHANGED <<held, shifted>>
  BY <1>1, <1>4
<1> QED
  BY <1>2, <1>3, <1>4 DEF Works

\* Type correctness is preserved.
LEMMA TypesKept ==
    ASSUME TypeOK, ActInv, CallInv, KnownInv, HeldInv, [Next]_vars
    PROVE  TypeOK'
<1>1. GatewayType'
  BY CallsOneByOne, CallTyped DEF TypeOK, GatewayType, gatewayVars
<1>2. project' \in [Projects -> Groups \cup {None}] /\ TablesOK'
  BY ProjectsStay, TablesTyped
<1>3. CASE Membership
  <2>1. act' \in [Callers -> Acts]
    BY <1>3, MembershipFacts DEF MembershipShape, TypeOK
  <2>2. held' \in [Callers -> [Groups -> SUBSET AnyRole]]
    <3>1. MembershipShape
      BY <1>3, MembershipFacts
    <3>2. \A b \in Callers, h \in Groups :
              act[b].pc # "idle" => RoleOf(act[b].user, h)' \in AnyRole
      BY <3>1 DEF MembershipShape, ActInv, Orderly
    <3> QED
      BY <3>1, <3>2 DEF MembershipShape, TypeOK
  <2> QED
    BY <1>1, <1>2, <1>3, <2>1, <2>2, MembershipFacts DEF MembershipShape, TablesOK, TypeOK
<1>4. CASE Rests
  BY <1>1, <1>2, <1>4 DEF Rests, TablesOK, TypeOK
<1>5. ASSUME NEW a \in Callers, Works(a) PROVE TypeOK'
  BY <1>1, <1>2, <1>5, WorkTyped DEF TablesOK, TypeOK
<1> QED
  BY <1>3, <1>4, <1>5, StepShape
-----------------------------------------------------------------------------
(* The work of threads. *)

\* What the steps of the discovery leave in a thread's record.
LEMMA RecordFacts ==
    ASSUME TypeOK, NEW a \in Callers
    PROVE  /\ KnowIdentity(a) =>
                  /\ act[a].pc = "identity" /\ act'[a].pc = "groups"
                  /\ act'[a].todo = {p \in Projects : project[p] # None}
                  /\ act'[a].known = {p \in Projects : project[p] # None}
                  /\ \A f \in {"user", "kind", "target", "current", "found", "read", "write", "shown"} :
                         act'[a][f] = act[a][f]
           /\ \A p \in Projects : AskGroup(a, p) =>
                  /\ act[a].pc = "groups" /\ p \in act[a].todo
                  /\ act'[a].current = p /\ act'[a].found = "none"
                  /\ \A f \in {"pc", "user", "kind", "target", "known", "todo", "read", "write", "shown"} :
                         act'[a][f] = act[a][f]
           /\ Reads(a) =>
                  /\ act'[a].found = Found(a)
                  /\ \A f \in {"pc", "user", "kind", "target", "known", "todo", "current", "read",
                               "write", "shown"} : act'[a][f] = act[a][f]
           /\ KnowRole(a) =>
                  /\ act[a].pc = "groups" /\ act[a].current # None
                  /\ act'[a].current = None /\ act'[a].todo = act[a].todo \ {act[a].current}
                  /\ act'[a].read = IF Found(a) \in Readers THEN act[a].read \cup {act[a].current}
                                                            ELSE act[a].read
                  /\ act'[a].write = IF Found(a) \in Writers THEN act[a].write \cup {act[a].current}
                                                             ELSE act[a].write
                  /\ \A f \in {"pc", "user", "kind", "target", "known", "shown"} :
                         act'[a][f] = act[a][f]
<1> USE DEF TypeOK, Acts
<1>1. ASSUME KnowIdentity(a)
      PROVE  /\ act[a].pc = "identity" /\ act'[a].pc = "groups"
             /\ act'[a].todo = {p \in Projects : project[p] # None}
             /\ act'[a].known = {p \in Projects : project[p] # None}
             /\ \A f \in {"user", "kind", "target", "current", "found", "read", "write", "shown"} :
                    act'[a][f] = act[a][f]
  <2> DEFINE all == {p \in Projects : project[p] # None}
             x == [act[a] EXCEPT !.pc = "groups", !.todo = all, !.known = all]
  <2>1. act' = [act EXCEPT ![a] = x] /\ act[a].pc = "identity"
    BY <1>1 DEF KnowIdentity
  <2> HIDE DEF all
  <2>2. act'[a] = x
    BY <2>1
  <2>3. /\ x.pc = "groups" /\ x.todo = all /\ x.known = all
        /\ \A f \in {"user", "kind", "target", "current", "found", "read", "write", "shown"} :
               x[f] = act[a][f]
    OBVIOUS
  <2> QED
    BY <2>1, <2>2, <2>3 DEF all
<1>2. ASSUME NEW p \in Projects, AskGroup(a, p)
      PROVE  /\ act[a].pc = "groups" /\ p \in act[a].todo
             /\ act'[a].current = p /\ act'[a].found = "none"
             /\ \A f \in {"pc", "user", "kind", "target", "known", "todo", "read", "write", "shown"} :
                    act'[a][f] = act[a][f]
  BY <1>2 DEF AskGroup
<1>3. ASSUME Reads(a)
      PROVE  /\ act'[a].found = Found(a)
             /\ \A f \in {"pc", "user", "kind", "target", "known", "todo", "current", "read",
                          "write", "shown"} : act'[a][f] = act[a][f]
  BY <1>3 DEF Reads
<1>4. ASSUME KnowRole(a)
      PROVE  /\ act[a].pc = "groups" /\ act[a].current # None
             /\ act'[a].current = None /\ act'[a].todo = act[a].todo \ {act[a].current}
             /\ act'[a].read = IF Found(a) \in Readers THEN act[a].read \cup {act[a].current}
                                                       ELSE act[a].read
             /\ act'[a].write = IF Found(a) \in Writers THEN act[a].write \cup {act[a].current}
                                                        ELSE act[a].write
             /\ \A f \in {"pc", "user", "kind", "target", "known", "shown"} :
                    act'[a][f] = act[a][f]
  <2> DEFINE r == Found(a)
             read == IF r \in Readers THEN act[a].read \cup {act[a].current} ELSE act[a].read
             write == IF r \in Writers THEN act[a].write \cup {act[a].current} ELSE act[a].write
             roles == [act[a].roles EXCEPT ![project[act[a].current]] = r]
             x == [act[a] EXCEPT !.current = None, !.todo = @ \ {act[a].current},
                                 !.roles = roles, !.read = read, !.write = write]
  <2>1. act' = [act EXCEPT ![a] = x]
    BY <1>4 DEF KnowRole
  <2>2. act[a].pc = "groups" /\ act[a].current # None
    BY <1>4 DEF KnowRole
  <2> HIDE DEF read, write, roles
  <2>3. act'[a] = x
    BY <2>1
  <2>4. /\ x.current = None /\ x.todo = act[a].todo \ {act[a].current}
        /\ x.read = read /\ x.write = write
        /\ \A f \in {"pc", "user", "kind", "target", "known", "shown"} : x[f] = act[a][f]
    OBVIOUS
  <2> QED
    BY <2>2, <2>3, <2>4 DEF read, write
<1> QED
  BY <1>1, <1>2, <1>3, <1>4

\* What a thread remembers stays in order.
LEMMA ActKept ==
    ASSUME TypeOK, ActInv, CallInv, KnownInv, HeldInv, [Next]_vars
    PROVE  ActInv'
<1>1. CASE act' = act
  BY <1>1 DEF ActInv
<1>2. ASSUME NEW a \in Callers, Works(a) PROVE ActInv'
  <2>1. \A b \in Callers \ {a} : act'[b] = act[b]
    BY <1>2 DEF Works, Only, TypeOK
  <2>2. ASSUME Starts(a) PROVE Orderly(act'[a])
    BY <2>2 DEF Starts, Orderly, Idle
  <2>3. ASSUME Forget(a) PROVE Orderly(act'[a])
    <3>1. act'[a] = Idle
      BY <2>3 DEF Forget, TypeOK
    <3> QED
      BY <3>1 DEF Orderly, Idle
  <2>4. CASE Closes(a)
    BY <2>1, <2>4 DEF ActInv, Orderly, Closes
  <2>5. ASSUME KnowIdentity(a) \/ (\E p \in Projects : AskGroup(a, p)) \/ Reads(a) \/ KnowRole(a)
        PROVE  Orderly(act'[a])
    <3>1. Orderly(act[a])
      BY DEF ActInv
    <3>2. CASE KnowIdentity(a)
      BY <3>1, <3>2, RecordFacts DEF Orderly
    <3>3. ASSUME NEW p \in Projects, AskGroup(a, p) PROVE Orderly(act'[a])
      BY <3>1, <3>3, RecordFacts DEF Orderly
    <3>4. CASE Reads(a)
      BY <3>1, <3>4, RecordFacts DEF Orderly, Reads, Asking
    <3>5. CASE KnowRole(a)
      BY <3>1, <3>5, RecordFacts DEF Orderly
    <3> QED
      BY <2>5, <3>2, <3>3, <3>4, <3>5
  <2> QED
    BY <1>2, <2>1, <2>2, <2>3, <2>4, <2>5 DEF Works, ActInv
<1> QED
  BY <1>1, <1>2, StepShape, MembershipFacts DEF MembershipShape, Rests

\* Only the discovery has calls.
LEMMA CallKept ==
    ASSUME TypeOK, ActInv, CallInv, KnownInv, HeldInv, [Next]_vars
    PROVE  CallInv'
<1>a. GatewayType /\ NoCall.pc = "idle" /\ \A b \in Callers : act[b] \in Acts /\ Orderly(act[b])
  BY DEF TypeOK, NoCall, ActInv
<1>1. ASSUME NEW a \in Callers, call'[a].pc = "idle" \/ act'[a].pc = "identity" \/ Asking(a)',
             \A b \in Callers \ {a} : call'[b] = call[b] /\ act'[b] = act[b]
      PROVE  CallInv'
  BY <1>1 DEF CallInv, Asking
<1>2. ASSUME NEW a \in Callers, Works(a), CallStep(a) \/ UNCHANGED call,
             call'[a].pc = "idle" \/ act'[a].pc = "identity" \/ Asking(a)'
      PROVE  CallInv'
  <2>1. \A b \in Callers \ {a} : call'[b] = call[b] /\ act'[b] = act[b]
    BY <1>2 DEF Works, Only, TypeOK
  <2> QED
    BY <1>1, <1>2, <2>1
<1>3. ASSUME NEW a \in Callers, NEW u \in Users, NEW k, NEW t, Start(a, u, k, t), Works(a)
      PROVE  CallInv'
  <2>1. act'[a].pc = "identity"
    BY <1>3 DEF Start, TypeOK, Idle
  <2>2. CallStep(a)
    BY <1>3 DEF Start, CallStep
  <2> QED
    BY <1>2, <1>3, <2>1, <2>2
<1>4. ASSUME NEW a \in Callers, Waiting(a) \/ AttemptFails(a) PROVE CallInv'
  <2>1. act' = act /\ call[a].pc # "idle"
    BY <1>4 DEF Waiting, TrySlot, SendAgain, AttemptFails, CountFailure, PassingFailure,
       LastingFailure
  <2>2. \A b \in Callers \ {a} : call'[b] = call[b]
    BY <1>4, <1>a, OneCall DEF Waiting, AttemptFails, MethodOf, CallStep
  <2> QED
    BY <2>1, <2>2 DEF CallInv, Asking
<1>5. ASSUME NEW a \in Callers,
             Answered(a) \/ LastPage(a) \/ TakeFailure(a) \/ GatewayDies(a), Works(a)
      PROVE  CallInv'
  <2>1. call'[a].pc = "idle"
    BY <1>5, <1>a DEF Answered, LastPage, TakeFailure, GatewayDies, GatewayType
  <2>2. CallStep(a)
    BY <1>5 DEF LastPage, CallStep
  <2> QED
    BY <1>2, <1>5, <2>1, <2>2
<1>6. ASSUME NEW a \in Callers, Discovery(a) \/ ReadRepeatedPage(a), Works(a) PROVE CallInv'
  <2>1. CASE KnowIdentity(a) \/ KnowRole(a) \/ Deny(a)
    BY <1>5, <1>6, <2>1 DEF KnowIdentity, KnowRole, Deny
  <2>2. ASSUME NEW p \in Projects, AskGroup(a, p) PROVE CallInv'
    <3>1. act'[a].current = p /\ p # None
      <4>1. act'[a].current = p
        BY <2>2, RecordFacts
      <4>2. p # None
        BY AccessAssumption
      <4> QED
        BY <4>1, <4>2
    <3>2. CallStep(a)
      BY <2>2 DEF AskGroup, CallStep
    <3> QED
      BY <1>2, <1>6, <3>1, <3>2 DEF Asking
  <2>3. CASE ReadPage(a) \/ ReadRepeatedPage(a)
    <3>1. act' = [act EXCEPT ![a].found = Found(a)] /\ Asking(a)
      BY <2>3 DEF ReadPage, ReadRepeatedPage
    <3>2. act'[a].pc = act[a].pc /\ act'[a].current = act[a].current
      BY <1>a, <3>1 DEF TypeOK, Acts
    <3>3. call[a].start + PageSize \in Nat /\ \A n \in call[a].seen : n \in Nat
      BY <1>a, AccessAssumption DEF GatewayType, Calls
    <3>4. CallStep(a)
      BY <2>3, <3>3 DEF ReadPage, ReadRepeatedPage, CallStep
    <3> QED
      BY <1>2, <1>6, <3>1, <3>2, <3>4 DEF Asking
  <2> QED
    BY <1>6, <2>1, <2>2, <2>3 DEF Discovery
<1>7. ASSUME NEW a \in Callers, act[a].pc \in {"idle", "ready", "answered", "settle"} \/ ScopeKnown(a),
             UNCHANGED gatewayVars, Works(a)
      PROVE  CallInv'
  <2>1. act[a].pc # "identity" /\ ~Asking(a)
    BY <1>a, <1>7 DEF Asking, Orderly, ScopeKnown
  <2>2. call'[a].pc = "idle" /\ UNCHANGED call
    BY <1>7, <2>1 DEF CallInv, gatewayVars
  <2> QED
    BY <1>2, <1>7, <2>2
<1>8. ASSUME NEW a \in Callers, WebStep(a) \/ WorkerStep(a), Works(a) PROVE CallInv'
  <2>1. CASE AskNewGroup(a)
    <3>1. act'[a].pc = "guard" /\ CallStep(a)
      BY <2>1 DEF AskNewGroup, CallStep, TypeOK, Acts
    <3> QED
      BY <1>2, <1>8, <3>1 DEF Asking
  <2>2. CASE CreateProject(a)
    BY <1>5, <1>7, <1>8, <2>2 DEF CreateProject
  <2>3. ASSUME NEW j \in DOMAIN jobs, TakeJob(a, j) PROVE CallInv'
    <3>1. jobs[j].user \in Users
      <4>1. j \in 1 .. Len(jobs)
        BY DEF TypeOK
      <4>2. jobs[j] \in [protocol : Protocols, user : Users, status : JobStatuses]
        BY <4>1, ElementOfSeq DEF TypeOK
      <4> QED
        BY <4>2
    <3> QED
      BY <1>3, <1>8, <2>3, <3>1 DEF TakeJob
  <2> QED
    BY <1>7, <1>8, <2>1, <2>2, <2>3 DEF WebStep, Authorize, View, Edit, CreateProtocol,
       Export, Download, Enqueue, Finish, WorkerStep, RunJob, Settle
<1>9. CASE Membership \/ UNCHANGED vars
  BY <1>9, MembershipFacts DEF MembershipShape, vars, gatewayVars, CallInv, Asking
<1>10. ASSUME NEW a \in Callers, NEW u \in Users, NEW k \in Kinds, Request(a, u, k) PROVE CallInv'
  <2>1. PICK t \in Targets(k) : Start(a, u, k, t)
    BY <1>10 DEF Request
  <2>2. Works(a)
    BY <1>10, <2>1, TargetFacts, StartWorks DEF Request, teamVars
  <2> QED
    BY <1>3, <2>1, <2>2
<1>11. ASSUME NEW a \in Callers, Crash(a) PROVE CallInv'
  <2>1. Works(a)
    BY <1>11, ForgetWorks DEF Crash, teamVars, CallStep
  <2> QED
    BY <1>5, <1>11, <2>1 DEF Crash
<1>12. ASSUME NEW a \in Callers, Step(a) \/ ReadRepeatedPage(a) PROVE CallInv'
  <2>1. Waiting(a) \/ Works(a)
    BY <1>12, DiscoveryWorks, ThreadWorks DEF Step, Discovery
  <2> QED
    BY <1>4, <1>6, <1>8, <1>12, <2>1 DEF Step
<1> QED
  BY <1>4, <1>9, <1>10, <1>11, <1>12 DEF Next

\* The projects a thread knows of have a group for ever.
LEMMA KnownKept ==
    ASSUME TypeOK, ActInv, CallInv, KnownInv, HeldInv, [Next]_vars
    PROVE  KnownInv'
<1> DEFINE Named(r) == r.known \cup r.todo \cup r.read \cup r.write \cup ({r.current} \ {None})
<1>a. \A b \in Callers : act[b] \in Acts /\ Named(act[b]) \subseteq Projects
  BY DEF TypeOK, Acts
<1>b. \A b \in Callers : \A p \in Named(act[b]) : project[p] # None
  BY DEF KnownInv
<1>c. \A p \in Projects : project[p] # None => project'[p] # None
  BY ProjectsStay
<1>d. ASSUME NEW b \in Callers,
             \A p \in Named(act'[b]) : p \in Projects /\ project[p] # None
      PROVE  \A p \in Named(act'[b]) : project'[p] # None
  BY <1>c, <1>d
<1>1. CASE act' = act
  <2>1. \A b \in Callers : \A p \in Named(act'[b]) : project'[p] # None
    BY <1>1, <1>a, <1>b, <1>c
  <2> QED
    BY <2>1 DEF KnownInv
<1>2. ASSUME NEW a \in Callers, Works(a) PROVE KnownInv'
  <2>1. \A b \in Callers \ {a} : act'[b] = act[b]
    BY <1>2 DEF Works, Only, TypeOK
  <2>2. Named(act'[a]) \subseteq Named(act[a]) \cup {p \in Projects : project[p] # None}
    <3>1. CASE Starts(a)
      BY <3>1 DEF Starts, Idle
    <3>2. CASE Forget(a)
      <4>1. act'[a] = Idle
        BY <3>2 DEF Forget, TypeOK
      <4> QED
        BY <4>1 DEF Idle
    <3>3. CASE KnowIdentity(a)
      BY <3>3, RecordFacts
    <3>4. ASSUME NEW p \in Projects, AskGroup(a, p)
          PROVE  Named(act'[a]) \subseteq Named(act[a])
      <4>1. /\ p \in act[a].todo /\ act'[a].current = p
            /\ act'[a].known = act[a].known /\ act'[a].todo = act[a].todo
            /\ act'[a].read = act[a].read /\ act'[a].write = act[a].write
        BY <3>4, RecordFacts
      <4> QED
        BY <4>1
    <3>5. CASE Reads(a)
      BY <3>5, RecordFacts
    <3>6. CASE KnowRole(a)
      <4>1. /\ act[a].current # None /\ act'[a].current = None
            /\ act'[a].known = act[a].known /\ act'[a].todo \subseteq act[a].todo
            /\ act'[a].read \subseteq act[a].read \cup {act[a].current}
            /\ act'[a].write \subseteq act[a].write \cup {act[a].current}
        BY <3>6, RecordFacts
      <4> QED
        BY <4>1
    <3>7. CASE Closes(a)
      BY <3>7 DEF Closes
    <3> QED
      BY <1>2, <3>1, <3>2, <3>3, <3>4, <3>5, <3>6, <3>7 DEF Works
  <2>3. \A p \in Named(act'[a]) : p \in Projects /\ project[p] # None
    BY <1>a, <1>b, <2>2
  <2>4. \A b \in Callers : \A p \in Named(act'[b]) : p \in Projects /\ project[p] # None
    BY <1>a, <1>b, <2>1, <2>3
  <2>5. \A b \in Callers : \A p \in Named(act'[b]) : project'[p] # None
    BY <1>c, <2>4
  <2> QED
    BY <2>5 DEF KnownInv
<1> QED
  BY <1>1, <1>2, StepShape, MembershipFacts DEF MembershipShape, Rests

-----------------------------------------------------------------------------
(* The history. *)

\* As long as a thread works for its user the history only grows.
LEMMA HistoryGrows ==
    ASSUME TypeOK, ActInv, CallInv, KnownInv, HeldInv, [Next]_vars, NEW b \in Callers
    PROVE  \/ Starts(b) \/ Forget(b)
           \/ \A g \in Groups : held[b][g] \subseteq held'[b][g]
<1>1. CASE Membership
  BY <1>1, MembershipFacts DEF MembershipShape
<1>2. CASE Rests
  BY <1>2 DEF Rests
<1>3. ASSUME NEW a \in Callers, Works(a) PROVE Starts(b) \/ Forget(b) \/ held'[b] = held[b]
  BY <1>3 DEF Works, Only
<1> QED
  BY <1>1, <1>2, <1>3, StepShape

\* The history has every role of the busy users up to now, and what was found.
LEMMA HeldKept ==
    ASSUME TypeOK, ActInv, CallInv, KnownInv, HeldInv, [Next]_vars
    PROVE  HeldInv'
<1> DEFINE Has(b) == \A g \in Groups : RoleOf(act[b].user, g) \in held[b][g]
           Knows(b) == act[b].current # None /\ act[b].found # "none" =>
                           act[b].found \in held[b][project[act[b].current]]
<1>a. ASSUME \A b \in Callers : act'[b].pc # "idle" => Has(b)' /\ Knows(b)'
      PROVE  HeldInv'
  BY <1>a DEF HeldInv, HeldIn
<1>b. \A b \in Callers : act[b].pc # "idle" => Has(b) /\ Knows(b)
  BY DEF HeldInv, HeldIn
<1>c. ASSUME NEW b \in Callers, act[b].current # None
      PROVE  /\ act[b].current \in Projects /\ project[act[b].current] \in Groups
             /\ project'[act[b].current] = project[act[b].current]
  BY <1>c, ProjectsStay DEF TypeOK, Acts, KnownInv
<1> HIDE DEF Has, Knows
<1>1. CASE Membership
  <2> USE <1>1, MembershipFacts DEF MembershipShape
  <2>1. ASSUME NEW b \in Callers, act'[b].pc # "idle" PROVE Has(b)' /\ Knows(b)'
    <3>1. \A g \in Groups : held'[b][g] = held[b][g] \cup {RoleOf(act[b].user, g)'}
      BY <2>1
    <3>2. Has(b)'
      BY <3>1 DEF Has
    <3>3. Knows(b)'
      BY <3>1, <2>1, <1>b, <1>c DEF Knows
    <3> QED
      BY <3>2, <3>3
  <2> QED
    BY <2>1, <1>a
<1>2. ASSUME UNCHANGED <<roster, level>>, NEW b \in Callers, act'[b] = act[b],
             held'[b] = held[b], act'[b].pc # "idle"
      PROVE  Has(b)' /\ Knows(b)'
  <2>1. Has(b)'
    BY <1>2, <1>b DEF Has, RoleOf
  <2>2. Knows(b)'
    BY <1>2, <1>b, <1>c DEF Knows
  <2> QED
    BY <2>1, <2>2
<1>3. CASE Rests
  BY <1>2, <1>3, <1>a DEF Rests
<1>4. ASSUME NEW a \in Callers, Works(a) PROVE HeldInv'
  <2>1. UNCHANGED <<roster, level>> /\ \A u, g : RoleOf(u, g)' = RoleOf(u, g)
    BY <1>4 DEF Works, Only, RoleOf
  <2>2. \A b \in Callers \ {a} : act'[b] = act[b] /\ held'[b] = held[b]
    BY <1>4 DEF Works, Only, TypeOK
  <2>3. SUFFICES ASSUME act'[a].pc # "idle" PROVE Has(a)' /\ Knows(a)'
    BY <1>2, <1>a, <2>1, <2>2
  <2>4. CASE Starts(a)
    <3>1. PICK u \in Users : /\ act'[a].user = u /\ act'[a].current = None
                             /\ held' = [held EXCEPT ![a] = Now(u)]
      BY <2>4 DEF Starts, Idle
    <3>2. held'[a] = [g \in Groups |-> {RoleOf(u, g)}]
      BY <3>1 DEF Now, TypeOK
    <3>3. Has(a)'
      BY <2>1, <3>1, <3>2 DEF Has
    <3> QED
      BY <3>1, <3>3 DEF Knows
  <2>5. CASE Forget(a)
    BY <2>3, <2>5 DEF Forget, Idle, TypeOK
  <2>6. ASSUME act'[a].user = act[a].user, act[a].pc # "idle", held' = held PROVE Has(a)'
    BY <2>1, <2>6, <1>b DEF Has
  <2>7. CASE KnowIdentity(a) /\ held' = held
    <3>1. /\ act'[a].user = act[a].user /\ act'[a].current = act[a].current
          /\ act[a].pc = "identity"
      BY <2>7, RecordFacts
    <3>2. act[a].current = None
      BY <3>1 DEF ActInv, Orderly
    <3> QED
      BY <2>6, <2>7, <3>1, <3>2 DEF Knows
  <2>8. ASSUME NEW p \in Projects, AskGroup(a, p), held' = held PROVE Has(a)' /\ Knows(a)'
    <3>1. act'[a].user = act[a].user /\ act'[a].found = "none" /\ act[a].pc # "idle"
      BY <2>8, RecordFacts
    <3> QED
      BY <2>6, <2>8, <3>1 DEF Knows
  <2>9. CASE Reads(a) /\ held' = held
    <3>1. /\ act'[a].user = act[a].user /\ act'[a].found = Found(a) /\ act[a].pc # "idle"
          /\ act'[a].current = act[a].current
      BY <2>9, RecordFacts DEF Reads, Asking, ActInv, Orderly
    <3>2. act[a].current # None /\ Found(a) # "none" =>
              Found(a) \in held[a][project[act[a].current]]
      BY <2>9, FoundFacts DEF Reads, HeldIn
    <3>3. Knows(a)'
      BY <2>9, <3>1, <3>2, <1>c DEF Knows
    <3> QED
      BY <2>6, <2>9, <3>1, <3>3
  <2>10. CASE KnowRole(a) /\ held' = held
    <3>1. act'[a].user = act[a].user /\ act'[a].current = None /\ act[a].pc # "idle"
      BY <2>10, RecordFacts
    <3> QED
      BY <2>6, <2>10, <3>1 DEF Knows
  <2>11. CASE Closes(a) /\ held' = held
    BY <2>6, <2>11 DEF Closes, Knows
  <2> QED
    BY <1>4, <2>4, <2>5, <2>7, <2>8, <2>9, <2>10, <2>11 DEF Works
<1> QED
  BY <1>1, <1>3, <1>4, StepShape

\* Rights that were found in the history stay in it.
LEMMA EarnedKept ==
    ASSUME TypeOK, ActInv, CallInv, KnownInv, HeldInv, EarnedInv, [Next]_vars
    PROVE  EarnedInv'
<1> DEFINE Readable(b, p) == HeldIn(b, p) \cap Readers # {}
           Writable(b, p) == HeldIn(b, p) \cap Writers # {}
<1>a. ASSUME NEW b \in Callers, NEW p \in act[b].read \cup act[b].write
      PROVE  p \in Projects /\ project[p] \in Groups /\ project'[p] = project[p]
  BY <1>a, ProjectsStay DEF TypeOK, Acts, KnownInv
<1>b. ASSUME NEW b \in Callers, act'[b].read \subseteq act[b].read,
             act'[b].write \subseteq act[b].write, ~Starts(b), ~Forget(b)
      PROVE  /\ \A p \in act'[b].read : Readable(b, p)'
             /\ \A p \in act'[b].write : Writable(b, p)'
  <2>1. \A g \in Groups : held[b][g] \subseteq held'[b][g]
    BY <1>b, HistoryGrows
  <2>2. ASSUME NEW p \in act[b].read \cup act[b].write PROVE HeldIn(b, p) \subseteq HeldIn(b, p)'
    BY <1>a, <2>1, <2>2 DEF HeldIn
  <2>3. \A p \in act'[b].read : Readable(b, p)'
    BY <1>b, <2>2 DEF EarnedInv
  <2>4. \A p \in act'[b].write : Writable(b, p)'
    BY <1>b, <2>2 DEF EarnedInv
  <2> QED
    BY <2>3, <2>4
<1>c. ASSUME NEW b \in Callers, Starts(b) \/ Forget(b)
      PROVE  act'[b].read = {} /\ act'[b].write = {}
  <2>1. CASE Starts(b)
    BY <2>1 DEF Starts, Idle
  <2>2. CASE Forget(b)
    <3>1. act'[b] = Idle
      BY <2>2 DEF Forget, TypeOK
    <3> QED
      BY <3>1 DEF Idle
  <2> QED
    BY <1>c, <2>1, <2>2
<1>d. ASSUME NEW a \in Callers, KnowRole(a), UNCHANGED held
      PROVE  /\ \A p \in act'[a].read : Readable(a, p)'
             /\ \A p \in act'[a].write : Writable(a, p)'
  <2> DEFINE q == act[a].current
  <2>1. Asking(a) /\ q # None /\ q \in Projects
    BY <1>d DEF KnowRole, Asking, TypeOK, Acts
  <2>2. Found(a) # "none" => Found(a) \in HeldIn(a, q)
    BY <2>1, FoundFacts
  <2>3. project'[q] = project[q]
    BY <2>1, ProjectsStay DEF KnownInv
  <2>4. \A p \in act[a].read \cup act[a].write \cup {q} : HeldIn(a, p)' = HeldIn(a, p)
    BY <1>a, <1>d, <2>3 DEF HeldIn
  <2>5. Found(a) \in Readers => Readable(a, q)
    BY <2>2 DEF Readers
  <2>6. Found(a) \in Writers => Writable(a, q)
    BY <2>2 DEF Writers
  <2>7. /\ act'[a].read = IF Found(a) \in Readers THEN act[a].read \cup {q} ELSE act[a].read
        /\ act'[a].write = IF Found(a) \in Writers THEN act[a].write \cup {q} ELSE act[a].write
    BY <1>d, RecordFacts
  <2>8. /\ \A p \in act[a].read : Readable(a, p)
        /\ \A p \in act[a].write : Writable(a, p)
    BY DEF EarnedInv
  <2> HIDE DEF q
  <2>9. \A p \in act'[a].read : Readable(a, p)'
    BY <2>4, <2>5, <2>7, <2>8
  <2>10. \A p \in act'[a].write : Writable(a, p)'
    BY <2>4, <2>6, <2>7, <2>8
  <2> QED
    BY <2>9, <2>10
<1>1. SUFFICES ASSUME NEW b \in Callers
               PROVE  /\ \A p \in act'[b].read : Readable(b, p)'
                      /\ \A p \in act'[b].write : Writable(b, p)'
  BY DEF EarnedInv
<1>2. CASE act'[b] = act[b]
  BY <1>2, <1>b, <1>c
<1>3. ASSUME Works(b)
      PROVE  /\ \A p \in act'[b].read : Readable(b, p)'
             /\ \A p \in act'[b].write : Writable(b, p)'
  <2>1. CASE KnowRole(b) /\ UNCHANGED held
    BY <1>d, <2>1
  <2>2. CASE Starts(b) \/ Forget(b)
    BY <1>c, <2>2
  <2>3. CASE KnowIdentity(b) \/ (\E p \in Projects : AskGroup(b, p)) \/ Reads(b) \/ Closes(b)
    <3>1. act'[b].read = act[b].read /\ act'[b].write = act[b].write
      BY <2>3, RecordFacts DEF Closes
    <3> QED
      BY <1>b, <1>c, <3>1
  <2> QED
    BY <1>3, <2>1, <2>2, <2>3 DEF Works
<1>4. act'[b] = act[b] \/ Works(b)
  BY StepShape, MembershipFacts DEF MembershipShape, Rests, Works, Only, TypeOK
<1> QED
  BY <1>2, <1>3, <1>4

-----------------------------------------------------------------------------
(* Lists that are read page by page. *)

\* What was read of a list does not have the user, unless somebody left.
LEMMA ListKept ==
    ASSUME TypeOK, ActInv, CallInv, KnownInv, HeldInv, ListInv, [Next]_vars
    PROVE  ListInv'
<1> DEFINE Missing(b) ==
               LET g == project[act[b].current]
               IN  act[b].current # None /\ act[b].found = "none" /\ g \notin shifted[b] =>
                       /\ call[b].start <= Len(roster[g])
                       /\ \A n \in 1 .. call[b].start : roster[g][n] # act[b].user
<1>a. \A b \in Callers : Missing(b)
  BY DEF ListInv
<1>b. ASSUME NEW b \in Callers, act[b].current # None
      PROVE  /\ act[b].current \in Projects /\ project[act[b].current] \in Groups
             /\ project'[act[b].current] = project[act[b].current]
             /\ act[b].pc # "idle"
             /\ call[b].start \in Nat /\ roster[project[act[b].current]] \in Seq(Members)
  <2>1. act[b].current \in Projects /\ project[act[b].current] \in Groups /\ act[b].pc = "groups"
    BY <1>b DEF TypeOK, Acts, KnownInv, ActInv, Orderly
  <2>2. project'[act[b].current] = project[act[b].current]
    BY <2>1, <1>b, ProjectsStay DEF KnownInv
  <2> QED
    BY <2>1, <2>2 DEF TypeOK, GatewayType, Calls
<1>1. SUFFICES ASSUME NEW b \in Callers PROVE Missing(b)'
  BY DEF ListInv
<1> DEFINE p == act[b].current
           g == project[p]
<1>2. CASE Membership
  <2>1. /\ act' = act /\ call' = call /\ project' = project /\ shifted[b] \subseteq shifted'[b]
        /\ p # None /\ g \notin shifted'[b] =>
               /\ Len(roster[g]) <= Len(roster'[g])
               /\ \A n \in 1 .. Len(roster[g]) : roster'[g][n] = roster[g][n]
    BY <1>2, <1>b, MembershipFacts DEF MembershipShape
  <2>2. ASSUME p # None, act[b].found = "none", g \notin shifted'[b]
        PROVE  /\ call[b].start <= Len(roster'[g])
               /\ \A n \in 1 .. call[b].start : roster'[g][n] # act[b].user
    <3>1. /\ call[b].start <= Len(roster[g])
          /\ \A n \in 1 .. call[b].start : roster[g][n] # act[b].user
      BY <1>a, <2>1, <2>2
    <3>2. Len(roster[g]) \in Nat /\ Len(roster'[g]) \in Nat /\ call[b].start \in Nat
      BY <1>b, <1>2, <2>2, MembershipFacts DEF MembershipShape
    <3>3. 1 .. call[b].start \subseteq 1 .. Len(roster[g])
      BY <3>1, <3>2
    <3> QED
      BY <2>1, <2>2, <3>1, <3>2, <3>3
  <2> QED
    BY <2>1, <2>2
<1>3. ASSUME act'[b] = act[b], shifted'[b] = shifted[b], roster' = roster,
             call'[b].start = call[b].start
      PROVE  Missing(b)'
  BY <1>3, <1>a, <1>b
<1>4. ASSUME Works(b) PROVE Missing(b)'
  <2>1. roster' = roster
    BY <1>4 DEF Works, Only
  <2>2. CASE Starts(b)
    BY <2>2 DEF Starts, Idle
  <2>3. CASE Forget(b)
    <3>1. act'[b].current = None
      BY <2>3 DEF Forget, TypeOK, Idle
    <3> QED
      BY <3>1
  <2>4. CASE Closes(b) \/ KnowRole(b)
    BY <2>4, RecordFacts DEF Closes
  <2>5. CASE KnowIdentity(b)
    <3>1. act'[b].current = act[b].current /\ act[b].pc = "identity"
      BY <2>5, RecordFacts
    <3>2. act[b].current = None
      BY <3>1 DEF ActInv, Orderly
    <3> QED
      BY <3>1, <3>2
  <2>6. ASSUME NEW q \in Projects, AskGroup(b, q) PROVE Missing(b)'
    <3>1. act'[b].current = q /\ q \in act[b].todo
      BY <2>6, RecordFacts
    <3>2. call'[b].start = 0
      BY <2>6 DEF AskGroup, Begin, Asked, NoCall, TypeOK, GatewayType
    <3>3. project'[q] \in Groups
      BY <3>1, ProjectsStay DEF KnownInv
    <3>4. Len(roster[project'[q]]) \in Nat
      BY <3>3 DEF TypeOK
    <3> QED
      BY <2>1, <3>1, <3>2, <3>4
  <2>7. CASE Reads(b) /\ UNCHANGED shifted
    <3>1. /\ act'[b].current = p /\ act'[b].found = Found(b) /\ act'[b].user = act[b].user
      BY <2>7, RecordFacts
    <3>2. ASSUME p # None, Found(b) = "none", g \notin shifted[b]
          PROVE  /\ call'[b].start <= Len(roster[g])
                 /\ \A n \in 1 .. call'[b].start : roster[g][n] # act[b].user
      <4>1. act[b].user \in Users /\ GroupAsked(b) = g /\ g \in Groups
        BY <2>7, <3>2, <1>b, FoundFacts DEF Reads, GroupAsked, ActInv, Orderly
      <4>2. act[b].found = "none" /\ ~Contains(Page(b), act[b].user)
        BY <3>2, <4>1 DEF Found, TypeOK, Levels
      <4>3. /\ call[b].start <= Len(roster[g])
            /\ \A n \in 1 .. call[b].start : roster[g][n] # act[b].user
        BY <1>a, <3>2, <4>2
      <4>4. CASE call'[b].start = call[b].start
        BY <4>3, <4>4
      <4>5. CASE ~LastPageReached(b) /\ call'[b].start = call[b].start + PageSize
        <5>1. \A n \in 1 .. call[b].start + PageSize : roster[g][n] # act[b].user
          BY <4>1, <4>2, <4>3, <4>5, PageFacts
        <5>2. call[b].start + PageSize <= Len(roster[g])
          <6>1. call[b].start \in Nat /\ PageSize \in Nat /\ Len(roster[g]) \in Nat
            BY <1>b, <3>2, AccessAssumption
          <6> QED
            BY <4>1, <4>5, <6>1 DEF LastPageReached
        <5> QED
          BY <4>5, <5>1, <5>2
      <4> QED
        BY <2>7, <4>4, <4>5 DEF Reads
    <3> QED
      BY <2>1, <2>7, <3>1, <3>2, <1>b
  <2> QED
    BY <1>4, <2>2, <2>3, <2>4, <2>5, <2>6, <2>7 DEF Works
<1>5. \/ Membership \/ Works(b)
      \/ /\ act'[b] = act[b] /\ shifted'[b] = shifted[b] /\ roster' = roster
         /\ call'[b].start = call[b].start
  BY StepShape DEF Rests, Works, Only, TypeOK
<1> QED
  BY <1>2, <1>3, <1>4, <1>5

\* A project that was asked for and is not in the scope is not there for a reason.
LEMMA CompleteKept ==
    ASSUME TypeOK, ActInv, CallInv, KnownInv, HeldInv, ListInv, CompleteInv, [Next]_vars
    PROVE  CompleteInv'
<1> DEFINE Lost(b, p) == ~(HeldIn(b, p) \subseteq Readers) \/ project[p] \in shifted[b]
           Judged(r) == r.known \ (r.todo \cup r.read)
<1>a. \A b \in Callers : act[b].pc = "groups" => \A p \in Judged(act[b]) : Lost(b, p)
  BY DEF CompleteInv
<1>b. ASSUME NEW b \in Callers, NEW p \in act[b].known
      PROVE  p \in Projects /\ project[p] \in Groups /\ project'[p] = project[p]
  BY <1>b, ProjectsStay DEF TypeOK, Acts, KnownInv
<1>c. ASSUME NEW b \in Callers, NEW p \in act[b].known, Lost(b, p), ~Starts(b), ~Forget(b)
      PROVE  Lost(b, p)'
  <2>1. held[b][project[p]] \subseteq held'[b][project[p]]
    BY <1>b, <1>c, HistoryGrows
  <2>2. shifted[b] \subseteq shifted'[b]
    <3>1. CASE Membership
      BY <3>1, MembershipFacts DEF MembershipShape
    <3>2. Membership \/ shifted'[b] = shifted[b]
      BY <1>c, StepShape DEF Rests, Works, Only
    <3> QED
      BY <3>1, <3>2
  <2> QED
    BY <1>b, <1>c, <2>1, <2>2 DEF HeldIn
<1>1. SUFFICES ASSUME NEW b \in Callers, act'[b].pc = "groups", NEW p \in Judged(act'[b])
               PROVE  Lost(b, p)'
  BY DEF CompleteInv
<1>d. ~Starts(b) /\ ~Forget(b)
  <2>1. ~Starts(b)
    BY <1>1 DEF Starts, Idle
  <2>2. Forget(b) => act'[b] = Idle
    BY DEF Forget, TypeOK
  <2> QED
    BY <1>1, <2>1, <2>2 DEF Idle
<1> HIDE DEF Lost
<1>2. CASE act[b].pc = "groups" /\ act'[b].known = act[b].known /\ act'[b].todo = act[b].todo
           /\ act'[b].read = act[b].read
  BY <1>1, <1>2, <1>a, <1>c, <1>d
<1>3. CASE KnowIdentity(b)
  <2>1. act'[b].known = act'[b].todo
    BY <1>3, RecordFacts
  <2> QED
    BY <1>1, <2>1
<1>4. CASE KnowRole(b) /\ UNCHANGED <<held, shifted>>
  <2> DEFINE q == act[b].current
             g == project[q]
  <2>1. /\ act[b].pc = "groups" /\ q # None /\ act'[b].known = act[b].known
        /\ act'[b].todo = act[b].todo \ {q}
        /\ act'[b].read = IF Found(b) \in Readers THEN act[b].read \cup {q} ELSE act[b].read
    BY <1>4, RecordFacts
  <2>2. CASE p # q
    <3>1. p \in Judged(act[b])
      BY <1>1, <2>1, <2>2
    <3> QED
      BY <2>1, <3>1, <1>a, <1>c, <1>d
  <2>3. CASE p = q
    <3>1. Asking(b) /\ LastPageReached(b) /\ q \in act[b].known
      BY <1>1, <1>4, <2>1, <2>3 DEF KnowRole, Asking
    <3>2. /\ act[b].user \in Users /\ GroupAsked(b) = g /\ g \in Groups /\ Found(b) \in AnyRole
      BY <3>1, <2>1, FoundFacts DEF GroupAsked, ActInv, Orderly
    <3>3. Found(b) = "none"
      BY <1>1, <2>1, <2>3, <3>2 DEF AnyRole, Levels, Readers
    <3>4. act[b].found = "none" /\ ~Contains(Page(b), act[b].user)
      BY <3>2, <3>3 DEF Found, TypeOK, Levels
    <3>5. ASSUME g \notin shifted[b] PROVE ~(HeldIn(b, q) \subseteq Readers)
      <4>1. \A n \in 1 .. call[b].start : roster[g][n] # act[b].user
        BY <3>4, <3>5, <2>1 DEF ListInv
      <4>2. ~Contains(roster[g], act[b].user)
        BY <3>1, <3>2, <3>4, <4>1, PageFacts
      <4>3. RoleOf(act[b].user, g) = "none"
        BY <4>2 DEF RoleOf
      <4>4. "none" \in HeldIn(b, q)
        BY <2>1, <3>2, <4>3 DEF HeldInv, HeldIn
      <4> QED
        BY <4>4 DEF Readers
    <3>6. Lost(b, q)
      BY <3>5 DEF Lost
    <3> QED
      BY <2>3, <3>1, <3>6, <1>c, <1>d
  <2> QED
    BY <2>2, <2>3
<1>5. ASSUME NEW q \in Projects, AskGroup(b, q)
      PROVE  act[b].pc = "groups" /\ act'[b].known = act[b].known /\ act'[b].todo = act[b].todo
             /\ act'[b].read = act[b].read
  BY <1>5, RecordFacts
<1>6. CASE Reads(b)
  <2>1. /\ act'[b].pc = act[b].pc /\ act'[b].known = act[b].known /\ act'[b].todo = act[b].todo
        /\ act'[b].read = act[b].read
    BY <1>6, RecordFacts
  <2> QED
    BY <1>1, <1>2, <2>1
<1>7. CASE act'[b] = act[b]
  BY <1>1, <1>2, <1>7
<1>8. \/ act'[b] = act[b] \/ KnowIdentity(b) \/ (\E q \in Projects : AskGroup(b, q)) \/ Reads(b)
      \/ KnowRole(b) /\ UNCHANGED <<held, shifted>>
  <2>1. act'[b] = act[b] \/ Works(b)
    BY StepShape, MembershipFacts DEF MembershipShape, Rests, Works, Only, TypeOK
  <2>2. ~Closes(b)
    BY <1>1 DEF Closes
  <2> QED
    BY <1>d, <2>1, <2>2 DEF Works
<1> QED
  BY <1>2, <1>3, <1>4, <1>5, <1>6, <1>7, <1>8

-----------------------------------------------------------------------------
(* Theorems. *)

\* The inductive invariant holds of the program's start.
LEMMA InitIInv == Init => IInv
<1> SUFFICES ASSUME Init PROVE IInv
  OBVIOUS
<1> USE AccessAssumption, GatewayAssumption DEF Init
<1>1. GatewayType /\ NoSlotLeaks /\ CallInv
  <2>1. NoCall \in Calls /\ NoCall.pc = "idle"
    BY DEF NoCall, Calls
  <2> QED
    BY <2>1 DEF GatewayInit, GatewayType, NoSlotLeaks, CallInv
<1>2. Idle \in Acts /\ Orderly(Idle)
  BY DEF Idle, Acts, AnyRole, Orderly
<1>3. TypeOK
  <2>1. \A d \in Protocols : [project |-> Protocol0[d], version |-> 0]
                                 \in [project : Projects \cup {None}, version : Nat]
    OBVIOUS
  <2>2. jobs \in Seq([protocol : Protocols, user : Users, status : JobStatuses])
    OBVIOUS
  <2>3. level \in [Groups -> [Users -> Levels]]
    BY DEF Levels
  <2> QED
    BY <1>1, <1>2, <2>1, <2>2, <2>3 DEF TypeOK, AnyRole
<1>4. ActInv /\ KnownInv /\ EarnedInv
  BY <1>2 DEF ActInv, KnownInv, EarnedInv, Idle
<1>5. HeldInv /\ ListInv /\ CompleteInv
  BY DEF HeldInv, ListInv, CompleteInv, Idle
<1> QED
  BY <1>1, <1>3, <1>4, <1>5 DEF IInv

\* Every step keeps the inductive invariant.
LEMMA NextIInv == IInv /\ [Next]_vars => IInv'
<1> SUFFICES ASSUME IInv, [Next]_vars PROVE IInv'
  OBVIOUS
<1> USE DEF IInv
<1>1. TypeOK' /\ ActInv' /\ CallInv' /\ KnownInv' /\ HeldInv'
  BY TypesKept, ActKept, CallKept, KnownKept, HeldKept
<1>2. EarnedInv' /\ ListInv' /\ CompleteInv'
  BY EarnedKept, ListKept, CompleteKept
<1>3. NoSlotLeaks'
  BY CallsOneByOne, CallFrees DEF gatewayVars, TypeOK, NoSlotLeaks
<1> QED
  BY <1>1, <1>2, <1>3

\* The inductive invariant holds for any number of users, groups, projects,
\* threads and slots.
THEOREM Invariance == Spec => []IInv
<1> QED
  BY InitIInv, NextIInv, PTL DEF Spec

\* Type correctness of the gateway's calls, of membership, of the tables and of
\* what the threads know.
THEOREM TypeCorrect == Spec => []TypeOK
<1>1. IInv => TypeOK
  BY DEF IInv
<1> QED
  BY <1>1, Invariance, PTL

\* No ending of a call, by an answer, a failure, the end of a list or the death of
\* its process, leaves a slot taken (gateway.py:131-139, 205-217).
THEOREM SlotsNeverLeak == Spec => []NoSlotLeaks
<1>1. IInv => NoSlotLeaks
  BY DEF IInv
<1> QED
  BY <1>1, Invariance, PTL

\* What a request shows, an archived report included, comes from projects its
\* user could read at some moment since the request began (main.py:430-433).
THEOREM OnlyReadableShown == Spec => []ShownIsReadable
<1>1. IInv => ShownIsReadable
  <2> SUFFICES ASSUME IInv, NEW a \in Callers, NEW p \in act[a].shown
               PROVE  HeldIn(a, p) \cap Readers # {}
    BY DEF ShownIsReadable
  <2>1. p \in act[a].read
    BY DEF IInv, ActInv, Orderly
  <2> QED
    BY <2>1 DEF IInv, EarnedInv
<1> QED
  BY <1>1, Invariance, PTL

\* A scope that was not refused lacks no project its user could read all the time,
\* unless somebody left its group meanwhile (project_access.py:27-38).
THEOREM NothingMissing == Spec => []ScopeIsComplete
<1>1. IInv => ScopeIsComplete
  BY DEF IInv, CompleteInv, ScopeIsComplete, ScopeKnown
<1> QED
  BY <1>1, Invariance, PTL

\* Every row of a protocol that is created or changed belongs to a project its
\* user could write at some moment since that request or that run of the job began
\* (project_access.py:88-112, jobs.py:42-45).
THEOREM OnlyEarnedWrites == Spec => WritesAreEarned
<1>1. ASSUME IInv, [Next]_vars, NEW d \in Protocols, protocol'[d] # protocol[d]
      PROVE  \E a \in Callers : /\ act'[a] # act[a]
                                /\ HeldIn(a, protocol'[d].project) \cap Writers # {}
  <2> USE DEF dataVars
  <2>a. protocol \in [Protocols -> [project : Projects \cup {None}, version : Nat]]
    BY <1>1 DEF IInv, TypeOK
  <2>b. ASSUME NEW a \in Callers, MayWrite(a, protocol'[d].project), act'[a].pc # act[a].pc
        PROVE  \E b \in Callers : /\ act'[b] # act[b]
                                  /\ HeldIn(b, protocol'[d].project) \cap Writers # {}
    BY <1>1, <2>b DEF IInv, EarnedInv, MayWrite
  <2>c. ASSUME NEW e, protocol' = [protocol EXCEPT ![e].version = @ + 1]
        PROVE  e = d /\ protocol'[d].project = protocol[d].project
    BY <1>1, <2>a, <2>c
  <2>1. ASSUME NEW a \in Callers, Edit(a) \/ Enqueue(a)
        PROVE  MayWrite(a, protocol'[d].project) /\ act'[a].pc # act[a].pc
    <3>1. /\ MayWrite(a, protocol[act[a].target].project)
          /\ protocol' = [protocol EXCEPT ![act[a].target].version = @ + 1]
      BY <1>1, <2>1 DEF Edit, Enqueue
    <3>2. act[a].pc = "ready" /\ act'[a].pc = "answered"
      BY <1>1, <2>1 DEF Edit, Enqueue, Answer, IInv, TypeOK, Acts
    <3>3. act[a].target = d /\ protocol'[d].project = protocol[d].project
      BY <3>1, <2>c
    <3> QED
      BY <3>1, <3>2, <3>3
  <2>2. ASSUME NEW a \in Callers, CreateProtocol(a)
        PROVE  MayWrite(a, protocol'[d].project) /\ act'[a].pc # act[a].pc
    <3>1. MayWrite(a, act[a].target) /\ \E e \in FreeProtocols :
              protocol' = [protocol EXCEPT ![e].project = act[a].target]
      BY <1>1, <2>2 DEF CreateProtocol
    <3>2. protocol'[d].project = act[a].target
      BY <1>1, <2>a, <3>1
    <3>3. act[a].pc = "ready" /\ act'[a].pc = "answered"
      BY <1>1, <2>2 DEF CreateProtocol, Answer, IInv, TypeOK, Acts
    <3> QED
      BY <3>1, <3>2, <3>3
  <2>3. ASSUME NEW a \in Callers, RunJob(a)
        PROVE  MayWrite(a, protocol'[d].project) /\ act'[a].pc # act[a].pc
    <3> DEFINE e == jobs[act[a].target].protocol
    <3>1. /\ MayWrite(a, protocol[e].project)
          /\ protocol' = [protocol EXCEPT ![e].version = @ + 1]
      BY <1>1, <2>3 DEF RunJob
    <3>2. act[a].pc = "groups" /\ act'[a].pc = "settle"
      BY <1>1, <2>3 DEF RunJob, ScopeKnown, IInv, TypeOK, Acts
    <3> HIDE DEF e
    <3>3. e = d /\ protocol'[d].project = protocol[d].project
      BY <3>1, <2>c
    <3> QED
      BY <3>1, <3>2, <3>3
  <2>4. \E a \in Callers : Edit(a) \/ Enqueue(a) \/ CreateProtocol(a) \/ RunJob(a)
    <3>1. ~Membership /\ ~UNCHANGED vars
      BY <1>1 DEF Membership, Leave, Join, Regrade, CountChange, vars, Noted
    <3>2. ASSUME NEW a \in Callers, NEW u \in Users, NEW k \in Kinds PROVE ~Request(a, u, k)
      BY <1>1 DEF Request
    <3>3. ASSUME NEW a \in Callers
          PROVE  ~(Waiting(a) \/ Discovery(a) \/ ReadRepeatedPage(a) \/ AttemptFails(a) \/ Crash(a))
      BY <1>1 DEF Waiting, Discovery, KnowIdentity, AskGroup, ReadPage, ReadRepeatedPage, KnowRole,
         Deny, AttemptFails, CountFailure, Crash
    <3>4. ASSUME NEW a \in Callers, WebStep(a) PROVE Edit(a) \/ Enqueue(a) \/ CreateProtocol(a)
      BY <1>1, <3>4 DEF WebStep, Authorize, View, AskNewGroup, CreateProject, InsertProject,
         Export, Download, Finish
    <3>5. ASSUME NEW a \in Callers, WorkerStep(a) PROVE RunJob(a)
      BY <1>1, <3>5 DEF WorkerStep, TakeJob, Settle
    <3> QED
      BY <1>1, <3>1, <3>2, <3>3, <3>4, <3>5 DEF Next, Step
  <2> QED
    BY <2>b, <2>1, <2>2, <2>3, <2>4
<1>2. IInv /\ [Next]_vars =>
          [\A d \in Protocols : protocol'[d] # protocol[d] =>
               \E a \in Callers : /\ act'[a] # act[a]
                                  /\ HeldIn(a, protocol'[d].project) \cap Writers # {}]_vars
  BY <1>1
<1> QED
  BY <1>2, Invariance, PTL DEF Spec, WritesAreEarned
=============================================================================
