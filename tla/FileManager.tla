----------------------------- MODULE FileManager -----------------------------
(***************************************************************************)
(* The file manager (file_manager/): a cursor and a window of lines over   *)
(* the listing of a directory, and two panels that share them.  A listing  *)
(* is the sequence of what its entries lead to; what is painted is left    *)
(* out, but not which names are read for it.  Directories do not change.   *)
(***************************************************************************)
EXTENDS Integers, Sequences

CONSTANTS
    Listing,        \* of each directory: what each entry is, in alphasort's order
    File,           \* an entry that chdir refuses
    Home,           \* where the program is started
    screen_height,
    MaxDrift        \* bound: how far the window may move off the listing

Dirs == DOMAIN Listing
NoPath == "NULL"                \* memorized_path before the first switch

top_padding == 1
bottom_padding == 1

VARIABLES
    cwd,
    n, selection, line_first, line_last, active_window, memorized_path,
    pc,             \* "start", "first", "second": before the loop
    shown           \* history: directory each panel was last painted from

vars == <<cwd, n, selection, line_first, line_last, active_window,
          memorized_path, pc, shown>>

-----------------------------------------------------------------------------
(* Mutant: line_last is kept, as line_first is.                            *)
NamelistKeepsLast(d, s) ==
    /\ cwd' = d
    /\ n' = Len(Listing[d])
    /\ selection' = s
    /\ line_last' = IF n = 0 THEN screen_height - bottom_padding - top_padding - 1 ELSE line_last
    /\ UNCHANGED line_first

(* chdir and get_namelist, with the entry s, from 0, selected in the end.  *)
(* line_first is not set.                                                  *)
Namelist(d, s) ==
    /\ cwd' = d
    /\ n' = Len(Listing[d])
    /\ selection' = s
    /\ line_last' = IF n' > screen_height
                    THEN screen_height - bottom_padding - top_padding - 1
                    ELSE n' - 1
    /\ UNCHANGED line_first

Paint(w) == shown' = [shown EXCEPT ![w] = cwd']

Start ==
    /\ pc = "start"
    /\ Namelist(cwd, 1)
    /\ Paint(active_window)
    /\ pc' = "first"
    /\ UNCHANGED <<active_window, memorized_path>>

(* switch_directory at the first entry of d: chdir refuses a file, and then*)
(* nothing is painted.                                                     *)
EnterFirst(d) ==
    IF Listing[d][1] = File
    THEN Namelist(d, 0) /\ UNCHANGED shown
    ELSE Namelist(Listing[d][1], 1) /\ Paint(active_window')

Memorized == IF memorized_path = NoPath THEN cwd ELSE memorized_path

(* Mutant: the path to come back to is read after chdir.                   *)
SwitchWindowLate ==
    /\ active_window' = (active_window + 1) % 2
    /\ EnterFirst(Memorized)
    /\ memorized_path' = cwd'

(* switch_active_window: to the path memorized, and on into the first entry*)
(* there, which is "." unless a name sorts before it.                      *)
SwitchWindow ==
    /\ active_window' = (active_window + 1) % 2
    /\ EnterFirst(Memorized)
    /\ memorized_path' = cwd

(* The loop is entered after two switches.                                 *)
FirstSwitches ==
    /\ pc \in {"first", "second"}
    /\ SwitchWindow
    /\ pc' = IF pc = "first" THEN "second" ELSE "loop"

KeyTab ==
    /\ pc = "loop"
    /\ SwitchWindow
    /\ UNCHANGED pc

(* scroll_if_necessary with the selection s.  In a window left behind by   *)
(* another directory dif may be negative, and grows with every change to   *)
(* and fro; MaxDrift ends that.                                            *)
Scroll(s) ==
    LET dif == line_last - line_first IN
    CASE s < line_first -> line_first' = s /\ line_last' = s + dif
      [] s >= line_first /\ s > line_last -> line_last' = s /\ line_first' = s - dif
      [] OTHER -> UNCHANGED <<line_first, line_last>>

Select(s) ==
    /\ selection' = s
    /\ Scroll(s)
    /\ line_first' <= MaxDrift
    /\ UNCHANGED <<cwd, n, active_window, memorized_path, pc>>
    /\ Paint(active_window)

KeyDown == pc = "loop" /\ selection < n - 1 /\ Select(selection + 1)

KeyUp == pc = "loop" /\ selection > 0 /\ Select(selection - 1)

(* A file is not entered.                                                  *)
KeyEnter ==
    LET d == Listing[cwd][selection + 1] IN
    /\ pc = "loop"
    /\ d # File
    /\ Namelist(d, 1)
    /\ Paint(active_window)
    /\ UNCHANGED <<active_window, memorized_path, pc>>

KeyQuit ==
    /\ pc = "loop"
    /\ pc' = "quit"
    /\ UNCHANGED <<cwd, n, selection, line_first, line_last, active_window,
                   memorized_path, shown>>

-----------------------------------------------------------------------------
Init ==
    /\ cwd = Home
    /\ n = 0 /\ selection = 0 /\ line_first = 0 /\ line_last = 0
    /\ active_window = 0
    /\ memorized_path = NoPath
    /\ pc = "start"
    /\ shown = [w \in 0..1 |-> NoPath]

Next == Start \/ FirstSwitches \/ KeyTab \/ KeyDown \/ KeyUp \/ KeyEnter \/ KeyQuit

Spec == Init /\ [][Next]_vars

-----------------------------------------------------------------------------
(* What print_text reads of namelist.                                      *)
Painted == line_first..(selection - 1) \cup {selection} \cup (selection + 1)..line_last

(* Although a listing is entered with the line_first of another one, and   *)
(* the window may even end before it begins, print_text reads no name that *)
(* the listing does not have.                                              *)
PaintsListed == pc # "start" => Painted \subseteq 0..(n - 1)

(* The panel in use shows the working directory, and the other one the     *)
(* directory to come back to, but for those a switch came to whose first   *)
(* entry is a file: there nothing is painted until a key is pressed.       *)
Unpainted(d) == Listing[d][1] = File
PanelsKept ==
    pc \in {"loop", "quit"} =>
        /\ shown[active_window] = cwd \/ (Unpainted(cwd) /\ selection = 0)
        /\ shown[1 - active_window] = memorized_path \/ Unpainted(memorized_path)
=============================================================================
