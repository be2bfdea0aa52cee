-------------------------------- MODULE Main --------------------------------
(***************************************************************************)
(* main (source/main.c) runs one task: the one whose call is not commented *)
(* out.  Here it may be any of those that share nothing with the others    *)
(* and are not modelled on their own; calculators are programs beside it.  *)
(* A launcher runs a server and its clients, as a user does who starts the *)
(* program several times.  The select server is taken in under its own     *)
(* names, the others as instances.                                         *)
(***************************************************************************)
EXTENDS SelectServer, FiniteSets

CONSTANTS
    MaxEntries,                                     \* see Phonebook
    Listing, File, Home, screen_height, MaxDrift,   \* see FileManager
    MaxSize, Negatives,                             \* see Matrix
    Base,                                           \* see Bytes
    arr_size, MaxFiles,                             \* see Plugins
    MaxCommands, PipeMax, MaxOutput,                \* see Shell
    MaxRuns,                                        \* see ShmTest
    MaxSends,                                       \* see MsgTask
    MaxProcesses                                    \* see SocketTask

(* A directory has at least . and .. in it, and none is called NULL.       *)
ASSUME Directories ==
    /\ Home \in DOMAIN Listing
    /\ \A d \in DOMAIN Listing :
           /\ Listing[d] \in Seq(DOMAIN Listing \cup {File})
           /\ Len(Listing[d]) >= 2
    /\ "NULL" \notin DOMAIN Listing
    /\ screen_height \in Int /\ MaxDrift \in Int

(* There is room for a function, a byte has a value, a line has a command, *)
(* a pipe holds something, and the bounds are numbers.                     *)
ASSUME Amounts ==
    /\ arr_size \in Nat \ {0} /\ MaxFiles \in Nat
    /\ MaxProcesses \in Nat
    /\ Base \in Nat \ {0}
    /\ MaxEntries \in Nat
    /\ MaxCommands \in Nat \ {0} /\ PipeMax \in Nat \ {0} /\ MaxOutput \in Nat
    /\ MaxRuns \in Nat /\ MaxSends \in Nat

VARIABLES
    task,
    first_entry, size, latest_id, next_entry, prev_entry, live, state, pentry, lost,
    cwd, n, selection, line_first, line_last, active_window, memorized_path, pc, shown,
    matrix_size, parray, walk, stage,
    word,
    folder, func_arr, dlerr, menu,
    line, todo, child, pipe, rd, wr, at, i,
    process, pids, waits,
    shm_name, segment, parent, reader, shmem_fd,
    task1_queue, posix, sysv_mq, keyed, sender, receiver, mq,
    family, address, pending, accepted, srv, cli

Phonebook == INSTANCE Phonebook
FileManager == INSTANCE FileManager
Matrix == INSTANCE Matrix
Bytes == INSTANCE Bytes
Plugins == INSTANCE Plugins
Shell == INSTANCE Shell
ForkTask == INSTANCE ForkTask
ShmTest == INSTANCE ShmTest
MsgTask == INSTANCE MsgTask
SocketTask == INSTANCE SocketTask

book     == <<first_entry, size, latest_id, next_entry, prev_entry, live, state, pentry, lost>>
files    == <<cwd, n, selection, line_first, line_last, active_window, memorized_path, pc, shown>>
matrix   == <<matrix_size, parray, walk, stage>>
plugins  == <<folder, func_arr, dlerr, menu>>
pipes    == <<line, todo, child, pipe, rd, wr, at, i>>
family_tree == <<process, pids, waits>>
shm_test == <<shm_name, segment, parent, reader, shmem_fd>>
msg_task == <<task1_queue, posix, sysv_mq, keyed, sender, receiver, mq>>
select   == <<backlog, stream, datagrams, server, client, raw, copies>>
sockets  == <<family, address, pending, accepted, srv, cli>>

sequential == <<book, files, matrix, word, plugins>>
processes  == <<pipes, family_tree, shm_test, msg_task>>
servers    == <<select, sockets>>
main_vars  == <<task, sequential, processes, servers>>

-----------------------------------------------------------------------------
Tasks == {"test_pb", "file_manager", "test_1", "test_byte_edit", "ldl_calculator",
          "shell_start", "fork_task", "shared_mem_test_1", "msg_task_1",
          "socket_launcher", "server_model_selecting_launcher"}

MainInit ==
    /\ task \in Tasks /\ Init
    /\ Phonebook!Init /\ FileManager!Init /\ Matrix!Init /\ Bytes!Init /\ Plugins!Init
    /\ Shell!Init /\ ForkTask!Init /\ ShmTest!Init /\ MsgTask!Init /\ SocketTask!Init

RunPhonebook ==
    /\ task = "test_pb" /\ Phonebook!Next
    /\ UNCHANGED <<task, files, matrix, word, plugins, processes, servers>>

RunFileManager ==
    /\ task = "file_manager" /\ FileManager!Next
    /\ UNCHANGED <<task, book, matrix, word, plugins, processes, servers>>

RunMatrix ==
    /\ task = "test_1" /\ Matrix!Next
    /\ UNCHANGED <<task, book, files, word, plugins, processes, servers>>

RunBytes ==
    /\ task = "test_byte_edit" /\ Bytes!Next
    /\ UNCHANGED <<task, book, files, matrix, plugins, processes, servers>>

RunPlugins ==
    /\ task = "ldl_calculator" /\ Plugins!Next
    /\ UNCHANGED <<task, book, files, matrix, word, processes, servers>>

RunShell ==
    /\ task = "shell_start" /\ Shell!Next
    /\ UNCHANGED <<task, sequential, family_tree, shm_test, msg_task, servers>>

RunForkTask ==
    /\ task = "fork_task" /\ ForkTask!Next
    /\ UNCHANGED <<task, sequential, pipes, shm_test, msg_task, servers>>

RunShmTest ==
    /\ task = "shared_mem_test_1" /\ ShmTest!Next
    /\ UNCHANGED <<task, sequential, pipes, family_tree, msg_task, servers>>

RunMsgTask ==
    /\ task = "msg_task_1" /\ MsgTask!Next
    /\ UNCHANGED <<task, sequential, pipes, family_tree, shm_test, servers>>

RunSocketTask ==
    /\ task = "socket_launcher" /\ SocketTask!Next
    /\ UNCHANGED <<task, sequential, processes, select>>

RunSelectServer ==
    /\ task = "server_model_selecting_launcher" /\ Next
    /\ UNCHANGED <<task, sequential, processes, sockets>>

RunTask ==
    \/ RunPhonebook \/ RunFileManager \/ RunMatrix \/ RunBytes \/ RunPlugins
    \/ RunShell \/ RunForkTask \/ RunShmTest \/ RunMsgTask \/ RunSocketTask
    \/ RunSelectServer

MainSpec == MainInit /\ [][RunTask]_main_vars

(* What waits for others: its fairness is stated in its module.            *)
FairSpec ==
    MainSpec /\ Shell!Fairness /\ ShmTest!Fairness /\ MsgTask!Fairness /\ Fairness

-----------------------------------------------------------------------------
(* Each property is one of the module it names, where its comment says     *)
(* what it is about; AnswersSound and RequestsEnd are SelectServer's.      *)

(* The list of the phonebook has no freed entry, size counts the entries   *)
(* not freed, and deletions between two entries lose nothing.              *)
PhonebookSound == Phonebook!Sound

(* print_text reads only names the listing has, although line_first may be *)
(* left over from another directory.                                       *)
PaintsListed == FileManager!PaintsListed

(* Each panel of the file manager shows the directory it stands for, but   *)
(* for one that was switched to and begins with a file.                    *)
PanelsKept == FileManager!PanelsKept

(* The matrix is filled in a spiral, and printed in columns as wide as the *)
(* longest number.                                                         *)
MatricesRight == Matrix!FillsSpiral /\ Matrix!PrintsAligned

(* Which bytes an edit sets, keeps and clears.                             *)
BytesSound == Bytes!BytesSound

(* A plugin is left out only for a fault of its own.                       *)
OwnFaultsOnly == Plugins!OwnFaultsOnly

(* The shell comes back to its prompt after just those pipelines in which  *)
(* no command reads a pipe to its end and no pipe is overfilled.           *)
PromptReturns == Shell!PromptReturns

(* No process of the fork task ends before a child of its own.             *)
ParentsOutlive == ForkTask!ParentsOutlive

(* A child that waits on an initialised segment prints the whole text, or  *)
(* another on the same segment does.                                       *)
OneChildPrints == ShmTest!OneChildPrints

(* Each child gets both messages unless a queue in use lost its name.      *)
ReceivedOrCutOff == MsgTask!ReceivedOrCutOff

(* A client prints a server's text just if a server accepted it.           *)
AcceptedGetsAnswer == SocketTask!AcceptedGetsAnswer
=============================================================================
