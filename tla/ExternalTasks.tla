----------------------------- MODULE ExternalTasks -----------------------------
(***************************************************************************)
(* What publication promises, without operations, requests, locks or runs: *)
(* Bitrix24 tasks and the local links to them.  A task is created for a    *)
(* publication key at most once; a link names a task that exists; two      *)
(* links never name the same task; a link is written once and then only    *)
(* moved by an operator or removed with its instruction.                   *)
(***************************************************************************)
CONSTANTS Keys, Root, Ext, LegacyExt, None, Foreign

VARIABLES
    remote,      \* the key a Bitrix24 task was created for, None before it exists
    link,        \* the Bitrix24 task of a key
    legacy,      \* tasks linked without a key
    rootErased   \* the record of the root task was deleted with an instruction

ledger == <<remote, link, legacy, rootErased>>

LedgerKeys == Keys \cup {Root}
Linked     == legacy \cup {link[k] : k \in {j \in LedgerKeys : link[j] # None}}

LedgerInit ==
    /\ remote = [e \in Ext |-> IF e \in LegacyExt THEN Foreign ELSE None]
    /\ link = [k \in LedgerKeys |-> None]
    /\ legacy = LegacyExt
    /\ rootErased = FALSE

\* One task per key; Root may get another once its record is gone.
Create(k, e) ==
    /\ remote[e] = None
    /\ (\A f \in Ext : remote[f] # k) \/ (k = Root /\ rootErased)
    /\ remote' = [remote EXCEPT ![e] = k]
    /\ UNCHANGED <<link, legacy, rootErased>>

\* A link is only ever written for a task created under the same key.
Attach(k, e) ==
    /\ link[k] = None
    /\ remote[e] = k
    /\ e \notin Linked
    /\ link' = [link EXCEPT ![k] = e]
    /\ UNCHANGED <<remote, legacy, rootErased>>

Move(e, k) ==
    /\ e \in Linked
    /\ remote[e] # None
    /\ link[k] \in {None, e}
    /\ link' = [j \in LedgerKeys |-> IF j = k THEN e
                                     ELSE IF link[j] = e THEN None ELSE link[j]]
    /\ legacy' = legacy \ {e}
    /\ UNCHANGED <<remote, rootErased>>

\* Links disappear with an instruction, and the root's record may go with them.
Remove(ks) ==
    /\ link' = [k \in LedgerKeys |-> IF k \in ks THEN None ELSE link[k]]
    /\ legacy' \in SUBSET legacy
    /\ rootErased' \in {rootErased, TRUE}
    /\ UNCHANGED remote

LedgerNext ==
    \/ \E k \in LedgerKeys, e \in Ext : Create(k, e) \/ Attach(k, e) \/ Move(e, k)
    \/ \E ks \in SUBSET LedgerKeys : Remove(ks)

LedgerSpec == LedgerInit /\ [][LedgerNext]_ledger
=============================================================================
