# A TLA+ model of the eltex training tasks

The repository (`src/eltex_tasks`) is one C program made of small, independent
tasks; `source/main.c` starts one of them, at this commit the shared-memory
chat. Modelled here are two chats, three servers with their clients, the
exercises on threads, processes, queues, segments and sockets, the shell, and
the sequential tasks: phonebook, file manager, matrices, bytes and the
calculator of plugins. For each there is a module with one action per
step of the code and a run of TLC on a small instance; every safety property
the passing runs check, but the width of printed numbers, is also a theorem
checked by TLAPS for every value of the constants, and so is what lies under
most of the liveness properties: who waits waits for somebody who can go on,
and nothing that is still to come has got lost.

## Inventory

| Part | State | Operations | What is hard | What makes it correct |
|---|---|---|---|---|
| Shared-memory chat, `shared_mem/source/shm_chat_*.c` | one `shm_chat_t`: semaphore, `message_new`, counters, a status byte per participant, `msg_buf`; per process a slot number, a typed line, a copy of the message | server loop (register, count, retire, stop); client: attach, join, publish, read, stop | a joiner posts the semaphore twice, so sections overlap: torn copies, lost increments; joiners who skip the announcement; leaving with the semaphore taken; a client that dies at the end of its input, wherever its main thread is | the semaphore's law; a message is retired when all have read it; at most one client is counted per announcement; joining gets through; closing reaches everybody |
| Typing thread, `input_routine` in `msg_queue/source/chat_client.c` | `input_buf`, `flag`, a mutex | fetch a line, hand it over; the main thread takes it | one client uses the mutex, the other only the flag; the main thread may wait for others for ever, or leave its loop | each line is taken whole, once, in order |
| Message-queue chat, `msg_queue/source/chat_*.c` | a queue for the server and one per client, all bounded, with priorities; the server's array of clients | connect, choose a name, join, send, stop; register, store, send on, stop; drain, quit | both sides block on full queues; priorities overtake; an array of ten; a lookup that may miss; a client that dies leaves its queue at the server | all members see one order of messages; who waits for whom; a stop reaches everyone |
| Message ring, `add_message` and `send_updates` | ten slots with ids, an iterator, the id sent last | store; choose what to send | empty, full and wrapped ring told apart by one slot and by ids | each message is sent on once, in order |
| Thread-pool server, `server_models/source/man_con_server.c` | per thread an order, an address and a flag; arrays of free and occupied threads | receive, hand over, collect; poll, work, reply, clear | no lock; `memcpy` of a count taken for bytes | the arrays never run over; replies never outrun requests |
| Thread-per-request server, `thread_creating_server.c` | a doubly linked list of threads, a count | accept, ignore, join and delete, end; work, reply | deletion under the iterator; an uninitialised link; the count never falls | the list leads to no freed node; a running thread keeps its data |
| Shops, `threads_task/source/shop.c` | stocks, demands, loads, a flag, a mutex per shop | look, enter, buy, clear, leave; supply, load; create, draw, join | threads run before they are told what to do; an id never written | goods are neither lost nor sold twice; the task ends |
| Shared counter, `threads_task/source/threads.c` | one variable, a copy in each thread | read, add, write back; create, join | nothing protects the variable | increments may be lost, none gained, not all lost |
| Phonebook, `phonebook/` | a doubly linked list, its size | menu: add, print; caller: add, delete an entry, delete the book | deletion at an end empties the list and leaves entries behind | the list reaches no freed entry; `size` counts what is not freed |
| File manager, `file_manager/` | selection, window of lines, two panels over one listing | keys up, down, enter, tab | a window left over from another directory; a switch of panels enters whatever entry sorts first | no name is read outside the listing; each panel keeps its directory |
| Shell, `fork_task/source/shell.c` | pipes and their holders, the commands of a line | make a pipe, fork, wait, write six bytes, close | pipe ends inherited by every later command; full pipes | the prompt comes back |
| Fork task, `fork_task/source/fork_task.c` | six processes and what their forks returned | introduce oneself, fork, wait, exit | a fork that failed is waited for as process -1, which is any child | nobody ends before a child of its own |
| Select server and clients, `server_models/source/selecting_server.c`, `test_clients.c`, `raw_socket/` | one buffer, two sockets, descriptors left open; requests and answers under way | poll, accept, receive, answer; connect, send, print; raw packets | one buffer for both sockets; a closed connection answered from it; descriptors never closed; raw sockets see everybody's answers | a client is answered its own request; every request ends unless the server has left it unread |
| Shared-memory test, `shared_mem/source/shm_test_1.c` | a name, segments, a semaphore in each | parent: open, size, map, prepare, write, post; child: poll, map, wait, print, unlink | children of earlier runs open the same name; one post for all | of those that wait on one segment one prints the whole text |
| Message-queue test, `msg_queue/source/msg_task1.c` | a named queue, a keyed queue | parent: open, send, send; child: poll, receive, unlink, receive | the child removes a name that may be another queue's by then | each child gets both messages unless a queue in use lost its name |
| Sockets, `socket_task/source/` | an address, connections | bind, accept, send, receive, end; connect, send, receive | the name is taken over or removed while others use it; the result of `recv` is not looked at | a client prints a server's text just if a server accepted it |
| Matrices, `spiral_matrix/` | a matrix, the limits of the spiral | fill in a spiral, fill below the diagonal, print | limits that move while the spiral turns; a count of blanks without sign | it is a spiral; columns are wide enough |
| Bytes, `modifying_bytes/` | a word | read a byte, edit a byte | the eraser has zeros in all places below | which bytes an edit sets, keeps and clears |
| Calculator of plugins, `ldl_calculator/main.c` | an array of functions, the pending error of `dlerror` | load a directory, call, leave | an error of one plugin is still pending for the next | a plugin is left out only for a fault of its own |
| Error texts, other calculators, overflow and struct exercises | little or none | one call, one computation | - | see "What is not modelled" |

The parts interact only inside a chat or a server: processes through shared
memory, queues or sockets, threads through shared variables. The two chats share the
typing thread: the client of the shared-memory chat starts the `input_routine`
of the other.

## Modules

| Module | Models | Actions |
|---|---|---|
| `ShmChat` | both sides of the shared-memory chat | one per access to the shared segment |
| `InputRoutine`, which implements `Handover` | the typing thread and the main thread's loop around it | one per access to `flag`, `input_buf` or the mutex; the wait, the turn and the end of the loop |
| `MqChat`, which implements `Broadcast` | both sides of the message-queue chat | one per call on a queue |
| `MessageRing` | the ring | one per call of `add_message` and `send_updates` |
| `ManConServer` | the pool server | one per access to a `thread_info_t`; the turns of the loops |
| `ThreadCreating` | the thread-per-request server | one per request and per turn of the joining loop |
| `Shop` | the shops | one per access to a stock, a demand, a load or a mutex |
| `SharedCounter` | the first threads task | create, join; read and write of each thread |
| `ThreadsTasks`, which composes the last two | `main`, which runs one of them | a step of the task chosen |
| `Phonebook` | the list, its menu and a caller of `phonebook.h` | one per menu state and per call; a turn of `phonebook_delete` |
| `FileManager` | cursor, window, panels | start, one per key |
| `Shell` | the shell and the commands of a pipeline | one per pipe, fork, wait, write, close; read, write, exit of a command |
| `ForkTask` | the tree of processes | introduction, fork, wait, exit of each process |
| `ShmTest`, `MsgTask` | parents and children of several runs | one per call on the segment, its semaphore or a queue |
| `SelectServer` | the polling server, test clients, raw clients | poll, accept, the TCP and the UDP half; one per call of a client |
| `SocketTask` | servers and clients of both families | bind, accept, send, receive; connect, send, receive |
| `Matrix` | both fills and the printed width | one per turn of the spiral; the diagonal fill; the test with negatives |
| `Bytes` | getters and the edit by shifts | an edit |
| `Plugins` | the calculator that loads plugins | one per file of the directory; call, leave |
| `Parts`, which runs `ThreadsTasks`, `InputRoutine` and `MessageRing` | nothing of its own: the parts without a run of their own | a step of the part chosen |
| `Main`, which composes the last eleven of the modules above but `Parts` | `main`, which runs one task | a step of the task chosen |
| `MC...` | | constants and symmetry for TLC |
| `...Proofs` | | theorems and proofs |

`ShmChat` and `MqChat` do not repeat the typing thread: their action `Type`
puts a line into a place that holds one, and `InputRoutine` shows that this is
what the two threads do. What the typing thread does besides, killing the
process, is their action `Die`. `MqChat` does not repeat the ring: its server sends on
the message it has just stored, and `MessageRing` shows that `send_updates`
chooses just that. So each detail is checked once, where it can be checked for
longer runs.

Operators named after a mistake (`JoinPost2Missing`, `RecvStale`, ...) stand
before the definition they vary. They are not part of any specification; with
one of them in the place of that definition the property it belongs to fails,
which shows what the property rests on.

### How state and actions correspond

*ShmChat.* The variables named as in `shm_chat_t` are its fields; `sem` is the
semaphore's value; `pc` is the next shared access of a process; what a process
does with its own data is folded into that access. A text is one of four kinds,
because the code looks only at its first character and at `"/new"`. `strcpy` is
not atomic: while a process copies, readers and other writers of `msg_buf` may
get either text or a mixture, which may be any text or any command
(`MixedWith`). `++msg_recvd_clients` is a load and a store. A slot number past
the table reaches the first bytes of `msg_buf`, as the structure is laid out.
The order of a process's writes is that of the source.
`*strchr(str, '\n') = 0` (`chat_client.c:27-28`) writes through NULL when the
input ends or a line is too long, and kills the process: `Die` may happen
whenever the typing thread reads (`Reading`), with the main thread at any of its
accesses. The dead client stays where its `pc` says, with what it took of the
semaphore and with half a copy of `/new`, if it was at that. `announced` is
history: how often `message_new` rose from 0 to 1.

*InputRoutine.* `locks` tells the two callers apart: the message-queue client
tries the mutex, the shared-memory client looks at the flag alone. `fgets` is
two steps with a torn buffer between them. `NoNewline` is the death of the
process just described. `TestFlag` and `TryLock` are the two halves of line
112. `Copy` is the `mq_send` or the `strcpy`, `Turn` and `Leave` the end of a
turn that finds no command to stop or one, with a line waiting or without.
`Outside` is where the main thread waits for others: a full queue it sends to, a
queue it empties while others fill it, the semaphore.

*MqChat.* A queue is one FIFO per priority. `mq_send` is enabled while the
queue has room. A name that is taken ends the client (`O_EXCL`), a lookup by
the unterminated name may miss and end the server, and the write past
`clients[9]` may end it or not. A stop unlinks the queue, which clients who
opened it keep. `Die` is as in `ShmChat`, at the prompt for the name as well; the
queue of a dead client keeps its name and its place at the server. The seconds of `sleep` between polls are not modelled. The
message queues themselves are the operating system's: those definitions are
marked external.

*MessageRing.* One action is one call. A slot never written has text `NULL`
and id 0, as `calloc` leaves it. The array of updates that `send_updates`
allocates (`chat_server.c:87`) is a sequence, so its size in bytes is left out.

*ManConServer.* The worker's and the main thread's accesses to one
`thread_info_t` are separate steps, but `Work`, which reads and writes back the
order, and `Send`, which reads order and address, are one each. `CopyBack` is the `memcpy`: of the bytes it
is told to copy it completes whole pointers, and the pointer it ends in holds
the old one, the new one or a pointer to no thread. Following that one ends the
model (`pc = "undefined"`).

*ThreadCreating.* Request, client, node and thread bear one number. A link
that `malloc` left unwritten is null or leads nowhere; using it ends the model.
A real program might also damage its memory and go on, which is not followed.

*Shop.* A thread is created in one step and told its demand or load in a later
one, as in the code. The supplier's id is read from memory never written: it
may be in range, or the run ends.

*Phonebook.* Entries are their ids; texts are left out, and with them the
search, which changes nothing. A caller has its turn when the menu is left. It
may delete any entry it once added and has not deleted, also one that is no
longer in the list, which is what `next_entry` leads to (`Listed`). Writing to a freed neighbour ends the model.

*FileManager.* A listing is a sequence of what its entries lead to, in the order
of `alphasort`. `Namelist` is `chdir` and `get_namelist`, which leaves
`line_first` as it was; then `dif` in `scroll_if_necessary` may be negative, and
the window drifts further off with each change of directory. `MaxDrift` bounds
that. `Painted` is what `print_text` reads; actions that change the window
end by painting, with one exception: `SwitchWindow` enters the first entry of
the directory it came to (`file_edit.c:202-203`). That is `.` in most
directories, but a name such as `#x` sorts before it; then another directory is
entered, or `chdir` refuses a file and nothing is painted (`EnterFirst`).

*Shell.* A command is how much it writes, how much it reads and which it does
first; the six bytes the shell writes are one unit. Each end of a pipe has a
set of holders: `Fork` adds the child to every end the shell has open. Parsing
is abstracted to its result, a sequence of commands (a trailing or double space
counts as a pipe in `separate_args`, which gives one more command).

*SharedCounter.* The loop of a thread touches a local copy only, so it is one
addition of `Adds` between a read and a write of `a`.

*ForkTask.* `pids` is what the forks of a process returned, `Failed` for -1.
`Wait` is `waitpid` of the next of them; of -1 it takes any child that ended
and was not waited for, and a wait for a child already taken returns at once.

*ShmTest*, *MsgTask.* A segment or a queue bears the number of the run that
created it, and the name leads to at most one of them. A run begins when
the parent of the one before is over; its child may still poll. The seconds of
`sleep` order nothing.

*SelectServer.* A request is a number; `buf` is the one buffer of the server,
and what `recv` leaves unwritten stays in it. A turn of the loop is `Poll`,
then the TCP half (`Accept`, `Recv`) and the UDP half if there is something
for it. `Copied` gives each raw socket the answers that pass. A client may be
killed at any time; that stands for the user who ends it. The test clients of
the other two UDP servers are the free requests of their modules.

*SocketTask.* `family` is chosen by the first server; a local address is taken
over by the next server and removed by any that ends, an internet address is
refused while in use and for a while after. `Bind` is `unlink`, `bind` and
`listen` in one step, so a `bind` that fails between those of two servers is
left out.

*Matrix.* `walk` holds the variables of `fill_spiral_matrix`; each of the four
loops is one action. *Bytes.* A word is four digits of base `Base`; a shift by
`n` bytes multiplies with or divides by `Shifted(n)`, a mask cuts. *Plugins.* A
file is no library, one without a name for its function, one whose function is missing, or whole;
`dlerr` is what `dlerror` has not told of yet.

*Main.* One task is chosen at the start, as by taking the comment marks off its
call in `main`; calculators are programs of their own. Where the user starts a
program several times, the module of the task has all of its processes.
*ThreadsTasks* does the same for the two tasks on threads. Each of the two takes
in one module under its own names (`SelectServer`, `SharedCounter`), so that its
run checks the very definitions the theorems are about, and the others as
instances. *Parts* runs *ThreadsTasks* or one of two modules that stand for
parts of the chats; a behaviour is one of one of them, and the variables of the
others keep a fixed value.

## Runs

| Run | Instance | Shows |
|---|---|---|
| `shm_two` | two clients, table of 3, one line, one death | what a full table writes stays in the segment (types); the semaphore's law; it is a lock until the first join; at most one client is counted per announcement; the chat halts only for those who died inside their join |
| `shm_join` | two clients, table of 2, a line that stops the server, one death, fair | the join completes unless the client dies or the chat has halted |
| `shm_close` | two clients, table of 3, a line that stops the server, fair | **violated**: closing the server stops the clients |
| `shm_retire` | two clients, table of 3, one line | **violated**: a message is retired before a counted client has read it |
| `parts` | six lines, with and without mutex; ring of 3, eight messages; two shops, two customers, one supplier; five threads adding three each; fair | implements `Handover`, nothing torn, a waiting line is taken or left for a stated reason; ids run without a gap, all is sent once in order; goods are conserved, who may leave unsatisfied, the task ends; no increment is gained, not all are lost |
| `mq_chat` | two clients, queues of 2, an array of 1, four lines, one death | implements `Broadcast`; senders' order; registration |
| `mq_live` | two clients, queues of 1, an array of 1, three lines, one death, fair | who holds up whom; delivery; the stop |
| `man_con` | three threads, five requests | counts add up; replies do not outrun requests |
| `man_con_handed` | three threads, seven requests | **violated**: a busy thread is handed a request |
| `thread_creating` | limit 3, five requests, fair | list and thread data stay sound; accepted requests are answered |
| `thread_ignored` | limit 1, four requests | **violated**: a request is ignored with no thread left |
| `tasks` | the eleven tasks of `Main`, see "Bounds", fair | list and size of the phonebook; names painted, panels; spiral and columns; bytes; plugins; processes of the fork task; whose answer a client gets; which requests end; exactly which pipelines return to the prompt; which children of the two tests get what they wait for |

Deadlock is not reported in any run: each program can stop (a server that was
closed, users who type nothing more), and some can get stuck or leave somebody
waiting. `HeldUpOnlyMutually`, `PromptReturns`, `OneChildPrints`,
`ReceivedOrCutOff` and `RequestsEnd` say when for the message-queue chat, the
shell, the two tests and the select server; the shared-memory chat with two
clients may lose an increment and wait for it, and waits at its semaphore only
for those who died (`HaltedOnlyByDeaths`).

Of a system that gets somewhere in the end, fairness is one half and a safety
property the other: where nobody is stuck and nothing is lost, fair steps get
there. Eight properties have that half as a conjunct, so that a run checks it and
a theorem proves it for every instance: `NotHeldUpByLeaver`, `LackedIsOnItsWay`,
`StopIsOnItsWay`, `LockedFromInside` with `JoinsSomebody`, `GoesOn` with
`ReturnsHarmless`, `PostUsedOnce`, `HaltedOnlyCutOff`, `RequestKept` with
`CopyKept` and `RecvInTurn`. For `JoinCompletes` the invariant
`HaltedOnlyByDeaths` is that half, for `AcceptedAnswered` the invariant
`ThreadsKeepInfo`; for `LineIsTaken` it is `PollsUnlocked`, which is proved only.

### Bounds

Every bound is a constant. `MaxLines`, `MaxMessages`, `MaxRequests` and
`MaxLoads` bound the input, `MaxDeaths` the clients that die; the other constants
are the code's sizes made small. Two clients are enough for every race of two
processes inside, and in `shm_two` two joiners, one line of any kind but the
empty one and a death give all overlaps of joining, publishing, reading and dying
(about 1.6 million states). One death is the case that matters: with two
clients, after a second one nobody is left. In `shm_join` and in `shm_close` the
line is one that stops the server, the one kind that takes a participant away;
in `shm_join` a table of 2 lets the second joiner reach the limit. Queues of one
place are full with one message, so that all who wait for each other do so at once. Queues of two places fill at once and let a stop overtake a text,
and an array of one client is passed by the second. A ring of 3 wraps twice in
eight messages; rings of 1, 2 and 5 give the same answer. A pool of three is
the smallest in which the byte-wise copy keeps one pointer, mixes one and loses
one. A limit of 3 with five requests allows a list of four, a deletion at each
end and in the middle, and an ignored request. Once `MaxLoads` is reached a
supplier draws 0, a value `random() % 1000` may give, so it keeps running.
Three commands are a first, a middle and a last one, with every combination of
writing nothing to more than a pipe holds and reading nothing, one unit or all.
Four entries give a list with two inner ones. The directories of the file
manager are longer than, shorter than and as long as the screen, and one of them
has a directory and one a file before its `.`.

Five threads of three each give every order of reads and writes that loses
none, some or all but one of their sums. Three runs of a test give a
child that waits beside two others, and a name removed under both. Two test
clients and a raw one, with room for two connections, one copied answer and one unread
datagram, meet on both sockets, run the descriptors out and overflow the
raw socket; two clients of two servers give a name taken over and a
client in the queue of a server that ended. Matrices run to a size of six, one
above that of the tests, even and odd. `Base` is 4 in place of 256: four places
of it have every carry and cut. Two places for functions and four files fill
the array.

### Fairness

Processes and threads are scheduled, so each step that stays enabled is taken
(`WF`). `sem_wait`, `mq_send` and `pthread_mutex_lock` block, and what they wait
for comes and goes; that a waiter is not passed over for ever is `SF`, which
the kernel gives by queueing waiters. In `Shell` the shell and each command
have `WF`, in `ShmTest` and `MsgTask` each parent and child, in `SelectServer`
the server, a test client that has sent, and a raw client with an answer to
take. The two threads of a chat client have `WF` but for the steps that wait on others:
`InputRoutine` has no fairness for a main thread that is `Outside`, since the
queue it sends to may stay full and the one it empties may be filled as fast, and
none for `fgets`. In the chats a client that died takes no step and is excused by
name in each property, as is the server that waits for its queue. Nobody is
obliged to type, to die, to send a request, to start a program, to kill a client
or to end a server: those actions have no fairness. `random()` has none either,
so no property says that a customer finds goods.

### What the violations say

* `shm_retire`: `shm_tasks.h:15-16` promises that a message is replaced when
  `msg_recvd_clients == client_count`, the number of those who finished reading.
  A client that attaches while a message is under way does not announce itself
  (`shm_chat_client.c:79`) but counts as a reader all the same (`:109`): the
  counts are equal while a client that was counted has not read the message.
* `shm_close`: `shm_chat_server.c:55-56` says of a command that stops the server
  that "clients will read the same message and now they should stop". A client
  that has read one message and is late to mark it (`shm_chat_client.c:108`) may
  mark after the server cleared the slots and another client published the
  command; the mark passes for having read that, and this client never stops.
  With one client this cannot happen.
* `man_con_handed`: `man_con_server.c:104` says a request is ignored if there is
  no free thread. `memcpy` at line 126 copies as many bytes as there are
  threads, so a thread already collected as free stays in `occupied_threads`, is
  collected again, and is handed a request while it works.
* `thread_ignored`: `thread_creating_server.c:123` says a request is ignored if
  there are too many threads. `thread_cur` is never lowered, so after
  `thread_max + 1` requests all others are ignored.

## Proofs

All theorems are `Spec => []P` (two are refinements, one is about steps) for
every value of the constants that satisfies the named assumptions of the module: finite sets of
processes, sizes that are positive, marks that are no values, at least one
thread, shop and customer (`Amounts` of `SharedCounter`, `SomeOfEach`), no
process that is a test client and a raw one, and raw sockets with room for an
answer (`Parameters`), room for one plugin and one command, and for one unit in a
pipe (`Amounts` of `Main`), directories with at least two entries (`Directories`).
With pipes that hold nothing a harmless line could get stuck: the attempt to
prove `HarmlessLinesGoOn` showed that the assumption is needed.

| Module | Theorems | Argument |
|---|---|---|
| `ShmChatProofs` | `TypeCorrect`, `SemaphoreLaw`, `ParticipantsNeverExcluded`, `LockBeforeFirstJoin`, `MessagesCountedOnce` | The law itself is inductive with the types: every step moves one process between the lobby, the guests and neither, and changes `sem` by as much (`LobbyCount`, `GuestCount`, `MoveKeepsLaw`). A death moves nobody. The next two follow from the law by counting. For the last, `CountInv` follows the server's slot of `client_status` from one count to the next, beside `message_new` and how often it rose. |
| | `NobodyWaitsForNobody` | From the law: when nobody who lives is inside, every guest is dead, and at zero the lobby matches the guests. |
| `InputRoutineProofs` | `CopiesWholeLines`, `ImplementsHandover`, `NobodyPollsLocked` | `Inv` says where both threads are while a line waits and who has the mutex; without it nothing keeps `fgets` from a buffer being copied. Each step maps to putting, taking or a stutter. |
| `MessageRingProofs` | `RingLaw`, `SendsAsStored` | `Ring` gives the id in every slot, hence the slot behind the message sent last; just one message is unsent when `send_updates` runs. |
| `ManConServerProofs` | `TypeCorrect`, `PoolCounts`, `RepliesNeverOutrun` | The counts need no assumption on what the arrays hold. For replies the invariant adds that a worker past its poll finds its flag set; a reply takes a thread out of `Unanswered`, a handover adds at most one. |
| `MqChatProofs` | `MembersKeepTheirNames`, `ImplementsBroadcast` | `Delivered` says that what a member was shown, what waits in its queue and what is due to it add up to what was stored since it joined, and that the queue holds the log's next texts. To keep it, a join must be of a client the array does not have (`JoinsFresh`), which needs names to be owned (`Owned`) and nobody to leave before the stop (`NobodyStopped`). Registration maps to joining, storing to publishing, printing to showing, all else to a stutter. |
| | `SendersKeepOrder` | `OrderInv`: the log, with the queue behind it, has the texts each user has sent, by number; storing moves the first of the queue to the end of the log, sending adds the next number, and a name without an owner has sent nothing. |
| | `NobodyLeavesTheServerWaiting`, `NothingLackedIsLost`, `StopIsForEverybody` | `StopInv`: a stopping server has told the clients before `next` (`Told`) and none from there on (`Untold`), and nobody sends a client a join. So the one it waits for is still in its loop, or died there, and its full queue holds a text or a stop. The second is `Delivered` once more. |
| `ThreadCreatingProofs` | `ListStaysSound`, `InfoOutlivesThread` | Links run from older to younger nodes, so a node is not its own neighbour and deletion joins two others; the last node's link is the only one possibly unwritten, so the loop's test of `next_node` finds the end. |
| `ThreadsTasksProofs` | `NothingGained` | A thread that counts has read at most what those that left added, so its sum is bounded when it leaves too; the set of those that left grows by one. |
| | `NobodyLeavesHalfServed`, `NoGoodsLost` | Whoever buys or supplies is alone in the shop (`OneInEachShop`), and main draws for one thread after the other, which until then has bought nothing (`DrawnInTurn`). That one term changes a sum over shops or customers by as much (`TotalChanged`) is proved of the fold itself, part by part of its domain. |
| | `NobodyLockedOut` | The converse of `OneInEachShop`: a mutex taken has its customer or supplier inside (`HeldFromInside`). Suppliers are created and joined in turn, so the flag is set before the first of them is waited for (`SuppliersInTurn`). |
| `MainProofs` | | A step of `Main` is one of the task chosen or leaves its variables alone, so each task has an invariant and a part of the module: |
| | `NobodyMisled` | While the server is up a stream holds at most the request its client still keeps (`Streams`), a datagram is of a client that waits for just that answer and has no other (`Owed`), and a 0 was copied only by a server that has ended (`Ends`). So the stale buffer answers only clients that are gone. |
| | `NoRequestForgotten` | Each connected client is in the queue once or the one the server serves, what it sent is in its stream (`Connections`), and whoever waits for an answer has a datagram or a copy under way (`Waiting`). |
| | `BookStaysWhole` | Links in the list lead both ways and to larger ids (`Chained`), so it has a last entry (`LastIsListed`); entries neither freed nor in the list do not lead into it (`Apart`), so deleting one leaves the list as it is; `phonebook_delete` is at the first entry or at one whose neighbour it has freed (`Deleting`). What putting an entry behind the last and taking one out make of a list is stated for any links (`FromAppended`, `FromWithout`, `FromStays`). |
| | `PanelsKeepTheirDirectories`, `NamesReadAreListed` | `Panels` says what is shown while the program starts and only one panel is painted, and that a panel unpainted since a switch is at a directory that begins with a file, `Window` that a window, wherever it begins, ends before the listing does. |
| | `EditsClearOnlyBelow` | Division by a product is division by one factor, then the other (`Twice`); so a word falls into what is above a byte, the byte and what is below, whatever `Base` is. |
| | `SpiralsOfEverySize` | What is blank is a rectangle at a corner of which the next turn begins (`AtCorner`, `Blanks`); a turn writes one side of it, so the limits close in on each other and no turn leaves the matrix. That what is written is a path that goes straight on while it can and else to the right (`Path`) is kept because a turn begins where the last one could not go on (`PathGoesOn`); when no cell is blank, the path is the spiral (`SpiralWritten`). |
| | `FaultsAreTheirOwn` | The files that name a function keep their places when one more is read (`PlacesStay`, `OneFileMore`), and while files are read there is room for one. |
| | `ReturnsFromHarmlessOnly`, `HarmlessLinesGoOn` | A running command holds the writing end of the pipe it reads and the reading end of the one it writes (`EndsHeld`), so it meets neither the end of its input nor a broken pipe; what was written into a pipe was read or is in it (`Flow`). When all have exited, no command read to the end and the counts of `Flow` are the bounds of `Harmless`. Conversely, on a harmless line the command the shell waits for, or the one behind it while the shell waits to write its six bytes into a full pipe, can always go on: the commands before it have exited, so what it reads is in its pipe (`Flow`), and what it writes fits (`Harmless`). |
| | `ChildrenAreWaitedFor` | A process forks its children in its order, a fork that failed leaves none, and of the first forks, as many as were waited for, all have ended (`FamilyInv`). The tree has one parent for each (`OneParent`). |
| | `TextsPrintedOnce` | A segment that was opened is followed by the child that opened it (`SegmentsOpened`), it is written and posted in this order (`Prepared`), and the one post is there or one child has it (`OnePrinter`). |
| | `LeftBehindOnlyCutOff` | No message of either queue is lost or made up: what is in the queues and what was received is what was sent, counted over all runs (`Counted`); where every child may be follows from whose queue it opened (`Places`). With no queue cut off, a child that waits on an empty queue would make the counts differ. |
| | `ServersKeepTheirClients` | A client waits at one server, once, or talks to one, never both (`Queued`, `Served`); one that was reset waits at a server that has ended, where nobody accepts it (`Told`). |

Two definitions have the form they have so that runs and proofs use the same:
`Listed` of the phonebook is the least set closed under `next_entry`, and the
shifts of `Bytes` are products; neither is recursive. `CountedOncePerMessage`
bounds the count by the rises of `message_new`, not by the clients: with three
clients TLC finds one counted twice, when a later message meets a copy of `/new`
still under way.

Only model-checked: that something is reached in the end, for which tlapm has
no rules of fairness. What is proved under it are the safety halves listed
under "Runs"; that fair steps lead from there to the end is TLC's. Of `MatricesRight` the
half that says how wide columns are (`PrintsAligned`) is model-checked: it is
about what `ToString` prints, which has no definition to expand. Its other half,
`FillsSpiral`, is `SpiralsOfEverySize`.

## What is not modelled, and why

The error texts (`reentrable.c`) have a buffer per thread and are asked for by
one thread; the plain calculators are menus around four functions; the overflow
and struct exercises are about memory layout. `test_man_con_server` and
`test_creating_server` send the requests that are free inputs of `ManConServer`
and `ThreadCreating`. Of the raw clients the bytes of the headers are left out:
which packets they take is modelled, how they are laid out is not. Datagrams are
not lost, all ends being on one host, and a server is not started again while
its clients run. Printing and curses output are layout; the shell's splitting of
a line and the search of the phonebook change nothing that is modelled.
What a thread writes to memory freed at the end of a chat client is left out too.
Failures of `malloc`, `shm_open`, `ftruncate`, `mmap` and `sem_init`, which end
a process before or between the steps above, are left out, and with them the
parent of the shared-memory test that kills its child; so are, in the chat, the
start of a client before `sem_init` has run (in the test it is modelled) and
compilers that reorder shared accesses.

## Plan

1. Done: the modules above, in the order shared-memory chat, message-queue chat
   with ring and typing thread, pool server, thread-per-request server, shops,
   phonebook, file manager and shell; then the select server with its clients,
   the tests of queues and segments, sockets, fork task, counter, matrices,
   bytes and plugins.
2. Done: a theorem for each safety property a passing run checks, the widths
   in `MatricesRight` apart.
3. Done: for the liveness properties, the safety half, in the property or beside it,
   and as a theorem.
4. Models to follow: failing calls of the parent in the shared-memory test, and
   a chat client that attaches before the server has called `sem_init`.
