------------------------------- MODULE Plugins -------------------------------
(***************************************************************************)
(* The calculator whose functions are plugins (ldl_calculator/main.c):     *)
(* every file of a directory is opened as a library, asked for the name of *)
(* its function and then for the function, and a menu calls what was       *)
(* stored.  dlerror tells of the last error since it was last called.      *)
(***************************************************************************)
EXTENDS Naturals, Sequences, FiniteSets

CONSTANTS
    arr_size,       \* 20 in the code
    MaxFiles        \* bound on the directory

(* What a file may be: no library, one without func_name, one whose        *)
(* function does not exist under that name, one that is whole.             *)
Files == {"other", "nameless", "hollow", "whole"}

VARIABLES
    folder,         \* history: the files read so far
    func_arr,       \* the files whose functions are stored
    dlerr,          \* an error dlerror has not told of yet
    menu            \* "load", "choose", "exit" or "crashed"

vars == <<folder, func_arr, dlerr, menu>>

-----------------------------------------------------------------------------
(* Mutant: dlerror is not called before the name is looked up.             *)
NotCleared == dlerr

(* dlerror, line 39.                                                       *)
Cleared == FALSE

(* dlopen fails, and dlerror tells why.                                    *)
Unopened(f) ==
    /\ f = "other"
    /\ dlerr' = FALSE
    /\ UNCHANGED <<func_arr, menu>>

Opened(f) == f # "other"
NameMissing(f) == Cleared \/ f = "nameless"

Nameless(f) ==
    /\ Opened(f) /\ NameMissing(f)
    /\ dlerr' = FALSE
    /\ UNCHANGED <<func_arr, menu>>

(* The error of the second dlsym is not asked for: the test in line 51 is  *)
(* of the earlier answer, which was NULL, and a NULL is stored as function.*)
Stored(f) ==
    /\ Opened(f) /\ ~NameMissing(f)
    /\ func_arr' = Append(func_arr, f)
    /\ dlerr' = (f = "hollow")
    /\ menu' = IF Len(func_arr') >= arr_size THEN "choose" ELSE menu

ReadFile ==
    /\ menu = "load" /\ Len(folder) < MaxFiles
    /\ \E f \in Files :
          /\ folder' = Append(folder, f)
          /\ Unopened(f) \/ Nameless(f) \/ Stored(f)

FolderEnds ==
    /\ menu = "load"
    /\ menu' = "choose"
    /\ UNCHANGED <<folder, func_arr, dlerr>>

(* calc_menu; a NULL called ends the process.                              *)
Call ==
    /\ menu = "choose"
    /\ \E i \in DOMAIN func_arr : menu' = IF func_arr[i] = "hollow" THEN "crashed" ELSE menu
    /\ UNCHANGED <<folder, func_arr, dlerr>>

Leave ==
    /\ menu = "choose"
    /\ menu' = "exit"
    /\ UNCHANGED <<folder, func_arr, dlerr>>

-----------------------------------------------------------------------------
Init ==
    /\ folder = <<>> /\ func_arr = <<>>
    /\ dlerr = FALSE
    /\ menu = "load"

Next == ReadFile \/ FolderEnds \/ Call \/ Leave

Spec == Init /\ [][Next]_vars

-----------------------------------------------------------------------------
(* The files read that name a function, and how many of them come up to    *)
(* the k-th file.                                                          *)
Naming == {k \in DOMAIN folder : folder[k] \in {"hollow", "whole"}}
Place(k) == Cardinality({j \in Naming : j <= k})

(* A plugin is left out only for a fault of its own, never for an error    *)
(* the one before it left behind: stored are, in the order of the          *)
(* directory, the plugins that name a function, no more than have a place. *)
OwnFaultsOnly ==
    /\ Len(func_arr) = Cardinality(Naming)
    /\ \A k \in Naming : func_arr[Place(k)] = folder[k]
    /\ Len(func_arr) <= arr_size
    /\ menu = "crashed" => \E k \in Naming : folder[k] = "hollow"
=============================================================================
