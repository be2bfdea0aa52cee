------------------------------ MODULE Phonebook ------------------------------
(***************************************************************************)
(* The phonebook (phonebook/): a doubly linked list of entries, edited by  *)
(* the menu of phonebook_interactive and, when the menu is left, by a      *)
(* caller of phonebook.h.  An entry is its id; memory is not used again.   *)
(* Names and numbers are left out: nothing here depends on them.           *)
(***************************************************************************)
EXTENDS Integers, FiniteSets

CONSTANT MaxEntries      \* bound on the entries created

Null  == -1
Ids   == 0..(MaxEntries - 1)

VARIABLES
    first_entry, size, latest_id,
    next_entry, prev_entry,
    live,        \* entries allocated and not freed
    state,       \* pb_state of the menu; EXIT: a caller has its turn
    pentry,      \* where phonebook_delete is
    lost         \* history: an entry at an end of its list was deleted

links == <<next_entry, prev_entry>>
vars  == <<first_entry, size, latest_id, links, live, state, pentry, lost>>

-----------------------------------------------------------------------------
(* The list: what next_entry leads to from first_entry is in every set     *)
(* that has the first entry and, with an entry, the next.                  *)
Closed(entries) ==
    /\ first_entry \in entries \cup {Null}
    /\ \A e \in entries : next_entry[e] \in entries \cup {Null}

Listed == {e \in Ids : \A entries \in SUBSET Ids : Closed(entries) => e \in entries}

LastEntry == CHOOSE e \in Listed : next_entry[e] = Null

AddEntry ==
    /\ latest_id < MaxEntries
    /\ LET e == latest_id IN
          IF first_entry = Null
          THEN /\ first_entry' = e
               /\ prev_entry' = [prev_entry EXCEPT ![e] = Null]
               /\ next_entry' = [next_entry EXCEPT ![e] = Null]
          ELSE /\ prev_entry' = [prev_entry EXCEPT ![e] = LastEntry]
               /\ next_entry' = [next_entry EXCEPT ![e] = Null, ![LastEntry] = e]
               /\ UNCHANGED first_entry
    /\ live' = live \cup {latest_id}
    /\ latest_id' = latest_id + 1
    /\ size' = size + 1

(* Mutant: the entry behind keeps its link to the one deleted.             *)
UnlinkOneWay(e) ==
    IF prev_entry[e] = Null \/ next_entry[e] = Null
    THEN first_entry' = Null /\ lost' = TRUE /\ UNCHANGED links
    ELSE /\ next_entry' = [next_entry EXCEPT ![prev_entry[e]] = next_entry[e]]
         /\ UNCHANGED <<first_entry, prev_entry, lost>>

(* The test is "or", so an entry at either end takes the list with it.     *)
Unlink(e) ==
    IF prev_entry[e] = Null \/ next_entry[e] = Null
    THEN first_entry' = Null /\ lost' = TRUE /\ UNCHANGED links
    ELSE /\ next_entry' = [next_entry EXCEPT ![prev_entry[e]] = next_entry[e]]
         /\ prev_entry' = [prev_entry EXCEPT ![next_entry[e]] = prev_entry[e]]
         /\ UNCHANGED <<first_entry, lost>>

(* Writing to a neighbour that was freed: anything may follow.             *)
ReachesFreed(e) == Null \notin {prev_entry[e], next_entry[e]}
                   /\ ~ {prev_entry[e], next_entry[e]} \subseteq live

DeleteEntry(e) ==
    /\ Unlink(e)
    /\ live' = live \ {e}
    /\ size' = size - 1
    /\ UNCHANGED latest_id

-----------------------------------------------------------------------------
(* The menu.  It creates a book that nobody frees.                         *)

MenuInput ==
    /\ state = "MENU"
    /\ state' \in {"PRINT", "ADD", "EXIT", "INPUT_ERR"}
    /\ UNCHANGED <<first_entry, size, latest_id, links, live, pentry, lost>>

MenuAdd ==
    /\ state = "ADD"
    /\ AddEntry
    /\ state' = "MENU"
    /\ UNCHANGED <<pentry, lost>>

MenuBack ==
    /\ state \in {"PRINT", "INPUT_ERR"}
    /\ state' = "MENU"
    /\ UNCHANGED <<first_entry, size, latest_id, links, live, pentry, lost>>

(* A caller: adds, deletes an entry it holds, opens the menu on the book,  *)
(* deletes the book.                                                       *)

CallerAdd ==
    /\ state = "EXIT"
    /\ AddEntry
    /\ UNCHANGED <<state, pentry, lost>>

CallerDelete(e) ==
    /\ state = "EXIT" /\ e \in live
    /\ IF ReachesFreed(e)
       THEN /\ state' = "undefined"
            /\ UNCHANGED <<first_entry, size, latest_id, links, live, lost>>
       ELSE DeleteEntry(e) /\ UNCHANGED state
    /\ UNCHANGED pentry

CallerMenu ==
    /\ state = "EXIT"
    /\ state' = "MENU"
    /\ UNCHANGED <<first_entry, size, latest_id, links, live, pentry, lost>>

DeleteBook ==
    /\ state = "EXIT"
    /\ state' = "deleting" /\ pentry' = first_entry
    /\ UNCHANGED <<first_entry, size, latest_id, links, live, lost>>

(* One turn of the loop of phonebook_delete; next is read before the entry *)
(* is freed.                                                               *)
DeleteNext ==
    /\ state = "deleting"
    /\ IF pentry = Null
       THEN /\ state' = "freed"
            /\ UNCHANGED <<first_entry, size, latest_id, links, live, pentry, lost>>
       ELSE IF ReachesFreed(pentry)
       THEN /\ state' = "undefined"
            /\ UNCHANGED <<first_entry, size, latest_id, links, live, pentry, lost>>
       ELSE /\ DeleteEntry(pentry)
            /\ pentry' = next_entry[pentry]
            /\ UNCHANGED state

-----------------------------------------------------------------------------
Init ==
    /\ first_entry = Null /\ size = 0 /\ latest_id = 0
    /\ next_entry = [e \in Ids |-> Null] /\ prev_entry = [e \in Ids |-> Null]
    /\ live = {}
    /\ state = "MENU"
    /\ pentry = Null
    /\ lost = FALSE

Next ==
    \/ MenuInput \/ MenuAdd \/ MenuBack
    \/ CallerAdd \/ CallerMenu \/ DeleteBook \/ DeleteNext
    \/ \E e \in Ids : CallerDelete(e)

Spec == Init /\ [][Next]_vars

-----------------------------------------------------------------------------
(* The list holds no freed entry and size counts the entries that are not  *)
(* freed; and as long as only entries between two others were deleted, it  *)
(* holds them all, linked both ways, and no deletion reaches freed memory. *)
Sound ==
    /\ Listed \subseteq live
    /\ size = Cardinality(live)
    /\ ~lost => /\ Listed = live
                /\ state # "undefined"
                /\ \A e \in Listed : next_entry[e] # Null => prev_entry[next_entry[e]] = e
=============================================================================
