----------------------------- MODULE PromptHistory -----------------------------
(***************************************************************************)
(* The prompt history and template library (extension/src/lib/            *)
(* prompt-history.ts): one list in chrome.storage.local.  Content scripts  *)
(* save to it on a commit, the popup pins, unpins and deletes.  Every      *)
(* operation reads the whole list, awaits, and writes a whole list, with   *)
(* no transaction around the two.                                          *)
(*                                                                         *)
(* The list is a set of entries: a save puts its entry in front and stamps *)
(* it with the time, no other operation inserts or moves one, so the order *)
(* of the list is that of the stamps.                                      *)
(***************************************************************************)
EXTENDS Naturals, FiniteSets

CONSTANTS
  Prompts,        \* texts of compiled prompts, trimmed and not empty
  Callers,        \* operations that can be under way at the same time
  UnpinnedLimit,  \* PROMPT_HISTORY_UNPINNED_LIMIT
  PinnedLimit,    \* PROMPT_HISTORY_PINNED_LIMIT
  MaxSaves        \* bound on the number of saves

ASSUME LimitsAssumption ==
  /\ UnpinnedLimit \in Nat
  /\ PinnedLimit \in Nat
  /\ MaxSaves \in Nat

VARIABLES
  history,  \* promptcompiler.history
  clock,    \* number of saves so far: Date.now() and the source of fresh ids
  op        \* op[c]: the operation of c, with the list it has read

vars == <<history, clock, op>>

Entry == [id : Nat, prompt : Prompts, saved : Nat, pinned : BOOLEAN]

Idle == [kind |-> "idle", read |-> {}]
Operation ==
       {Idle}
  \cup [kind : {"save"}, prompt : Prompts, read : SUBSET Entry]
  \cup [kind : {"pin"}, id : Nat, pinned : BOOLEAN, read : SUBSET Entry]
  \cup [kind : {"delete"}, id : Nat, read : SUBSET Entry]

TypeOK ==
  /\ history \subseteq Entry
  /\ clock \in Nat
  /\ op \in [Callers -> Operation]

Init ==
  /\ history = {}
  /\ clock = 0
  /\ op = [c \in Callers |-> Idle]

-------------------------------------------------------------------------------
Pinned(entries)   == {e \in entries : e.pinned}
Unpinned(entries) == {e \in entries : ~e.pinned}

(* Mutant: the latest entries are kept, pinned or not.                      *)
KeptOfAll(entries) ==
  {e \in entries : Cardinality({f \in entries : f.saved > e.saved}) < UnpinnedLimit}

(* Mutant: one entry too many is kept.                                      *)
KeptAndOneMore(entries) ==
  Pinned(entries)
    \cup {e \in Unpinned(entries) :
            Cardinality({f \in Unpinned(entries) : f.saved > e.saved}) <= UnpinnedLimit}

(* The pinned entries and the latest UnpinnedLimit of the others.           *)
Kept(entries) ==
  Pinned(entries)
    \cup {e \in Unpinned(entries) :
            Cardinality({f \in Unpinned(entries) : f.saved > e.saved}) < UnpinnedLimit}

Read(c, operation) ==
  /\ op[c] = Idle
  /\ op' = [op EXCEPT ![c] = operation]
  /\ UNCHANGED <<history, clock>>

Write(c, entries) ==
  /\ history' = entries
  /\ op' = [op EXCEPT ![c] = Idle]

-------------------------------------------------------------------------------
(* Mutant: an empty prompt is saved.                                        *)
StartSaveOfAny(c) ==
  \E prompt \in Prompts \cup {""} :
    Read(c, [kind |-> "save", prompt |-> prompt, read |-> history])

(* savePromptToHistory, after a commit.                                     *)
StartSave(c) ==
  \E prompt \in Prompts :
    Read(c, [kind |-> "save", prompt |-> prompt, read |-> history])

(* The entry a save puts in front: a new one, or the one of that prompt     *)
(* with its id and its pinned flag.                                         *)
Saved(prompt, entries, now) ==
  LET same == {e \in entries : e.prompt = prompt}
  IN  IF same = {}
      THEN [id |-> now, prompt |-> prompt, saved |-> now, pinned |-> FALSE]
      ELSE [(CHOOSE e \in same : TRUE) EXCEPT !.saved = now]

(* Mutant: the entry of the same prompt stays in the list.                  *)
SaveTwice(c) ==
  /\ op[c].kind = "save"
  /\ clock < MaxSaves
  /\ clock' = clock + 1
  /\ Write(c, Kept(op[c].read \cup {Saved(op[c].prompt, op[c].read, clock + 1)}))

Save(c) ==
  /\ op[c].kind = "save"
  /\ clock < MaxSaves
  /\ clock' = clock + 1
  /\ Write(c, Kept({e \in op[c].read : e.prompt # op[c].prompt}
                     \cup {Saved(op[c].prompt, op[c].read, clock + 1)}))

(* setPromptPinned, of an entry the popup shows or has shown.               *)
StartPin(c) ==
  \E id \in 1..clock, pinned \in BOOLEAN :
    Read(c, [kind |-> "pin", id |-> id, pinned |-> pinned, read |-> history])

(* Mutant: the limit is not looked at.                                      *)
MayPinAlways(e, pinned, entries) == TRUE

MayPin(e, pinned, entries) ==
  pinned /\ ~e.pinned => Cardinality(Pinned(entries)) < PinnedLimit

SetPinned(c) ==
  /\ op[c].kind = "pin"
  /\ \E e \in op[c].read :
       /\ e.id = op[c].id
       /\ MayPin(e, op[c].pinned, op[c].read)
       /\ Write(c, (op[c].read \ {e}) \cup {[e EXCEPT !.pinned = op[c].pinned]})
  /\ UNCHANGED clock

(* "not-found" or "pin-limit": nothing is written.                          *)
RefusePin(c) ==
  /\ op[c].kind = "pin"
  /\ \A e \in op[c].read : e.id = op[c].id => ~MayPin(e, op[c].pinned, op[c].read)
  /\ op' = [op EXCEPT ![c] = Idle]
  /\ UNCHANGED <<history, clock>>

(* deletePromptHistoryEntry.                                                *)
StartDelete(c) ==
  \E id \in 1..clock : Read(c, [kind |-> "delete", id |-> id, read |-> history])

Delete(c) ==
  /\ op[c].kind = "delete"
  /\ Write(c, {e \in op[c].read : e.id # op[c].id})
  /\ UNCHANGED clock

(* The get or the set is rejected, or the page or the popup goes away.      *)
Fail(c) ==
  /\ op[c] # Idle
  /\ op' = [op EXCEPT ![c] = Idle]
  /\ UNCHANGED <<history, clock>>

-------------------------------------------------------------------------------
Next ==
  \E c \in Callers :
    \/ StartSave(c) \/ Save(c)
    \/ StartPin(c) \/ SetPinned(c) \/ RefusePin(c)
    \/ StartDelete(c) \/ Delete(c)
    \/ Fail(c)

Spec == Init /\ [][Next]_vars

-------------------------------------------------------------------------------
(* Properties.                                                              *)

(* However saves, pins and deletes overlap, a prompt is listed once and an  *)
(* id names one entry: a pin or a delete of the popup means one prompt.     *)
EntriesAreUnique ==
  \A e, f \in history : e.prompt = f.prompt \/ e.id = f.id => e = f

(* The template limit holds although it is checked on a list that may be    *)
(* outdated when the pin is written.                                        *)
PinLimitHolds == Cardinality(Pinned(history)) <= PinnedLimit

(* Unpinning can exceed the cap of unpinned entries, but the list as a      *)
(* whole never exceeds the two caps together.                               *)
HistoryIsBounded == Cardinality(history) <= UnpinnedLimit + PinnedLimit

Has(entries, id) == \E e \in entries : e.id = id

(* An entry that was pinned when an operation read the list, and still is,  *)
(* is removed by that operation only if it deletes that very entry.         *)
KnownPinsSurvive ==
  [][\A c \in Callers : op[c] # Idle /\ op'[c] = Idle =>
       \A e \in Pinned(history) :
         (\E f \in Pinned(op[c].read) : f.id = e.id) /\ ~Has(history', e.id)
           => op[c].kind = "delete" /\ op[c].id = e.id]_vars
===============================================================================
