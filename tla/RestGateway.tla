------------------------------ MODULE RestGateway ------------------------------
(****************************************************************************)
(* Calls of the Bitrix24 REST gateway (src/app/services/tasks/gateway.py).  *)
(*                                                                          *)
(* All processes of the program share a few request slots, each of them an  *)
(* operation lock.  A call tries the slots one after the other, sleeps and  *)
(* starts again, and gives up after a fixed number of rounds.  With a slot  *)
(* it sends its request, reads are sent again after a passing failure, and  *)
(* the slot is freed however the call ends.  A list is read page by page,   *)
(* one call for each page.                                                  *)
(*                                                                          *)
(* The module has no specification of its own: its actions change only slot *)
(* and call, and the component that calls conjoins them with what it does   *)
(* with the answer.                                                         *)
(****************************************************************************)
EXTENDS Naturals, FiniteSets

CONSTANTS
    Callers,    \* threads of the program that call Bitrix24
    SlotCount,  \* settings.bitrix_parallel_requests
    Rounds,     \* passes over the slots before a call gives up (100)
    PageLimit,  \* different pages a list may have (10000)
    None

ASSUME GatewayAssumption ==
    /\ SlotCount \in Nat
    /\ Rounds \in Nat \ {0}
    /\ PageLimit \in Nat
    /\ None \notin Callers

VARIABLES
    slot,  \* the holder of each slot's lock, or None
    call   \* what each caller is doing with the gateway

gatewayVars == <<slot, call>>

Slots == 0 .. SlotCount - 1

\* Nothing asked, or an answer that has been taken.
NoCall == [pc |-> "idle", next |-> 0, round |-> 0, attempt |-> 0,
           start |-> 0, seen |-> {}]

\* A request for the page at start, when the pages in seen were announced.
Asked(start, seen) ==
    [NoCall EXCEPT !.pc = "slot", !.start = start, !.seen = seen]

Calls ==
    [pc : {"idle", "slot", "sent", "pause", "failed"},
     next : Nat, round : Nat, attempt : Nat, start : Nat, seen : SUBSET Nat]

GatewayType ==
    /\ slot \in [Slots -> Callers \cup {None}]
    /\ call \in [Callers -> Calls]

GatewayInit ==
    /\ slot = [s \in Slots |-> None]
    /\ call = [c \in Callers |-> NoCall]

Begin(c) ==
    /\ call[c].pc = "idle"
    /\ call' = [call EXCEPT ![c] = Asked(0, {})]
    /\ slot' = slot

\* The slot was busy: the next one is tried.  When every slot was, the caller
\* sleeps and tries them again, or gives up after the last round.
Missed(r) ==
    IF r.next + 1 < SlotCount THEN [r EXCEPT !.next = r.next + 1]
    ELSE IF r.round + 1 < Rounds
    THEN [r EXCEPT !.round = r.round + 1, !.next = 0]
    ELSE [r EXCEPT !.pc = "failed"]

\* One attempt to take the next slot's lock.
TrySlot(c) ==
    LET i == call[c].next
    IN  /\ call[c].pc = "slot"
        /\ IF i < SlotCount /\ slot[i] = None
           THEN /\ slot' = [slot EXCEPT ![i] = c]
                /\ call' = [call EXCEPT ![c].pc = "sent", ![c].attempt = 1]
           ELSE /\ slot' = slot
                /\ call' = [call EXCEPT ![c] = Missed(call[c])]

\* The finally clause of _call, and the end of a process that holds a lock.
Freed(c) == [s \in Slots |-> IF slot[s] = c THEN None ELSE slot[s]]

\* Reads are sent up to three times, everything else once.
Attempts(method) ==
    IF method \in {"user.current", "user.get", "user.search",
                   "sonet_group.get", "tasks.task.get"}
    THEN 3 ELSE 1

\* A timeout, a lost connection or HTTP 429, 502, 503, 504.  The slot is kept
\* during the pause before the next attempt.
PassingFailure(c, method) ==
    /\ call[c].pc = "sent"
    /\ IF call[c].attempt < Attempts(method)
       THEN /\ call' = [call EXCEPT ![c].pc = "pause"]
            /\ slot' = slot
       ELSE /\ call' = [call EXCEPT ![c].pc = "failed"]
            /\ slot' = Freed(c)

SendAgain(c) ==
    /\ call[c].pc = "pause"
    /\ call' = [call EXCEPT ![c].pc = "sent", ![c].attempt = @ + 1]
    /\ slot' = slot

\* The definitions named "...Bug" are the one that follows them with a plausible
\* mistake; nothing uses them but the checks that a property notices the mistake.
\* Here: the slot is freed only by a call that succeeds.
LastingFailureBug(c) ==
    /\ call[c].pc = "sent"
    /\ call' = [call EXCEPT ![c].pc = "failed"]
    /\ slot' = slot

\* A refusal, any other HTTP status or an unreadable answer.
LastingFailure(c) ==
    /\ call[c].pc = "sent"
    /\ call' = [call EXCEPT ![c].pc = "failed"]
    /\ slot' = Freed(c)

\* The answer of a call that is not a list.
Answered(c) ==
    /\ call[c].pc = "sent"
    /\ call' = [call EXCEPT ![c] = NoCall]
    /\ slot' = Freed(c)

\* A page that announces no further one ends the list.
LastPage(c) == Answered(c)

\* An announced page that was announced before, or too many of them.
Repeats(c, next) ==
    next \in call[c].seen \/ Cardinality(call[c].seen) >= PageLimit

\* A page that announces another one: the next call of the list, or an error.
FurtherPage(c, next) ==
    /\ call[c].pc = "sent"
    /\ call' = [call EXCEPT ![c] =
                   IF Repeats(c, next) THEN [@ EXCEPT !.pc = "failed"]
                                       ELSE Asked(next, @.seen \cup {next})]
    /\ slot' = Freed(c)

\* The exception of a failed call reaches the caller.
TakeFailure(c) ==
    /\ call[c].pc = "failed"
    /\ call' = [call EXCEPT ![c] = NoCall]
    /\ slot' = slot

\* The process ends: its locks are freed by the system.
GatewayDies(c) ==
    /\ call' = [call EXCEPT ![c] = NoCall]
    /\ slot' = Freed(c)

\* A slot is held only by a caller whose request is on its way: no ending of a
\* call, good, bad or by the death of its process, leaves a slot taken, which
\* would take one request from every process for as long as the program runs
\* (gateway.py:131-139).
NoSlotLeaks ==
    \A s \in Slots : slot[s] # None => call[slot[s]].pc \in {"sent", "pause"}
=============================================================================
