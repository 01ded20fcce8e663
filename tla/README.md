# Verification of System_Programming_Lab

The repository is the work of a system programming course: three larger
assignments (`pa1` text search, `pa2` a shell, `pa3` a seat reservation service)
and a dozen weekly exercises (`p2` to `p14`), all in C. They are separate
programs and share no code. This directory holds TLA+ models of those whose
behaviour is hard to test, TLC configurations that check the models on small
instances, and TLAPS proofs of what matters most for all instances.

## 1. Inventory

| part | state | operations | what is hard | correct when |
|---|---|---|---|---|
| **pa3 server** (`pa3_server.c`) | `is_user_login`, `passwd_of_user`, `user_of_seat`, `thread_using_flag`, one mutex per table and per seat; per thread a descriptor, the query, `success`, `is_logged_in` | `main()`: accept, take a slot, create a thread. `client_thread()`: log in, reserve, check, cancel, log out, exit | one thread per connection on shared tables; checks and updates in different critical sections; reads without the lock; failing calls; clients that vanish | sessions, passwords and seats change as if each operation were one step; every query gets its own answer; EXIT ends everything |
| **pa3 client** (`pa3_client.c`) | the outstanding query | send a query, wait, print | what is printed must be what the server did | one query at a time, prints agree with the server |
| **pa2 shell** (`pa2.c`) | the words of the line; the shell, a job, a stage, a program; pipe ends, standard input and output of each; files | built-ins, programs, redirections, pipelines, the SIGCHLD handler | stages run one after the other; handler and `wait()` compete for the same children; the line is cut up in several places that must agree | commands run as typed and read all that was written; the prompt means that nothing is left, and comes back |
| **pa1 search** (`pa1.c`, `custom.h`) | the shift table, the stride, the lists of places, the chunk | search for a word, words in a line, a phrase, two words with something in between | shifts that look at one character; the pattern is lowered while it is used; chunks | all that is there is found, and nothing else |
| **p14** (`p14.c`) | circular array, two indices, `length`, a mutex, two condition variables | `put_data()`, `get_data()`, `qdelete()` | signal after unlock, spurious wakeups, wrap-around and reset of the indices | a bounded FIFO; nobody sleeps for ever |
| **p12** (`server.c`, `client.c`) | `read_set`, `copy_set`, `usr_cnt`, a buffer that is not always cleared | `select()` loop: accept and read the name, relay, leave; the clients: name, lines, quit | streams without message boundaries; a pass over a copy of the ready set; a blocking read in the loop; writes to clients that are gone | every member hears every line once and in order; the count is right |
| **p8** (`p8.c`) | processes and the pipe ends they hold | single commands, one pipe or one redirection a line | ends that the shell never closes and all later children inherit | readers come to the end of their input; the prompt comes back |
| **p7** (`main.c`) | counters of two processes, handlers | SIGALRM, SIGUSR1 both ways, SIGINT | standard signals do not queue, come in any order, and kill before there is a handler | nothing counted twice; how much can be lost; both processes end |
| **p6** (`main.c`) | the crontab, the clock, the daemon and its jobs | test the minute, fork, become the job, sleep | the time tested is the time before the sleep; the process that starts a job is the daemon itself | a job a minute, one daemon |
| p13 (`p13.c`) | a counter and a mutex | threads add to it | nothing but the mutex around the sum | the total |
| p10 (`server.c`, `client.c`) | a socket, a file | send a name, copy a file | the server copies the name it receives through a null pointer (`server.c:65`), where its behaviour ends | |
| p2, p3, p4, p5, the utilities of pa2 | | sequential file I/O; building and scripting | nothing interleaves | |

The hazards of each part, with the line where each bites and the properties that
watch it, are in `PROJECT.json` under `hazards`.

## 2. Modules

| module | models |
|---|---|
| `SeatNet` | the query struct, replies, the TCP connection of each client (pa3) |
| `SeatServer` | `pa3_server.c`: `main()` and `client_thread()` |
| `SeatClient` | `pa3_client.c` |
| `SeatSystem` | server and clients together; fairness; the properties |
| `SeatRaces` | `SeatSystem` with a history variable: has a login overwritten a session |
| `SeatBooking` | abstract: the reservation service with one step per operation |
| `SeatSystemProofs` | proofs about `SeatSystem` and `SeatRaces`: types, passwords, seats and owners; where the queries are, EXIT and LOGIN, the refinement of `SeatBooking`, what clients are told |
| `MiniShell`, `MiniShellProofs` | `pa2.c`, and proofs about it |
| `Search`, `SearchProofs` | `pa1.c` and `custom.h`, and proofs about them |
| `BoundedQueue` | `p14.c` |
| `Fifo` | abstract: a bounded first-in first-out queue |
| `BoundedQueueProofs` | proofs about `BoundedQueue`, refinement of `Fifo` included |
| `Chat` | `p12/server.c` and `p12/client.c` |
| `ChatRoom` | abstract: a room in which all the others hear what one says |
| `ChatProofs` | proofs about `Chat`, refinement of `ChatRoom` included |
| `PipeShell`, `PipeShellProofs` | `p8/p8.c`, and proofs about it |
| `AckSignals`, `AckSignalsProofs` | `p7/main.c`, and proofs about it |
| `Cron`, `CronProofs` | `p6/main.c`, and proofs about it |
| `MCSeat`, `MCSeatRaces`, `MCMiniShell`, `MCSearch`, `MCBoundedQueue`, `MCChat`, `MCPipeShell`, `MCCron` | values of the constants for TLC |

### pa3: reservations

A connection has the name of the descriptor `accept()` returns for it. The server
never closes one, so no name is used twice. A thread is named after the
connection it was created for; `fd[t]`, the connection it serves, is what it
read from the pointer main() gave it (line 57), and that need not be `t`.

A step ends where another thread can see or change what the next step uses: a
critical section is one step, and each unlocked read of a table is a step of its
own. LOGIN is `LoginCheck` (lines 86-98), `LoginPasswd` (100-109) and `LoginSet`
(111-121); RESERVE is `ReserveCheck` and `Reserve`; CHECK_RSV is `CheckLogin`, one
`CheckScan` per seat and `CheckReply`; CANCEL_RSV is `CancelLogin`, `CancelOwner`
(the unlocked read of line 192) and `Cancel`; LOGOUT is `LogoutCheck` and `Logout`;
EXIT is one `ExitClear` per user, `ExitReply`, and `Release` after the reply. Each
variable of the model has the name of the C variable; the `-1` that memset puts
where a descriptor is expected is `NoFd`. Locals that every query sets before it
reads them are cleared with the reply, to merge states that cannot be told apart.

Undefined behaviour. Line 135 locks `seat_lock[seat_num]` before anything stops a
seat that is out of range. What lies there need not be a mutex: the call may
return, or never (`ReserveHangs`). It might also crash the process, which is only
the end of every behaviour and is not modelled. The race on `connected_fd` is the
choice of the moment at which `Start` reads it. Line 173 formats a buffer into
itself; the model takes the outcome of the build in the Makefile, which appends.

LOGIN tests for a session and sets one in two critical sections, so that two logins to
one account may both succeed: the second overwrites the session of the first. From then
on the unlocked reads of RESERVE, CANCEL_RSV and LOGOUT may be stale when they are acted
on: a cancellation can free a seat that is another user's by now. `overwritten`
(`SeatRaces`) is set by such a login and by nothing else.

The client is one query at a time: `Ask`, then `Hear`. `told` is what the person at
the terminal has read about reservations. A client may be killed (`Die`).

### pa2: the shell

Whoever forks waits before it forks again, so that there is at most one process
of each kind: the shell, the job it forks for a redirection or a pipeline, the
stage the job forks for each command of a pipeline, and the program `execution()`
forks. `Plan` is what `main()` makes of a line: `red_or_pipe`, `isValid` and
`pipe_commands` are what its variables of that name hold, `Jobs` is the loop over the
words, and `Split` the loop that fills `pipe_commands`. A pipe has the number of the stage that writes to it; the ends a process
holds are a set, copied by `Fork` and let go by `Exit`. `KeptEnds` is the
`close(fd[1])` of the job, `fd_backup` the reading end it remembers for the next
stage, `-1` as long as there is an input file to open. Each `wait()` is a state
`"wait"` that is left when the child is a zombie or there is none.

`sigchld_handler` competes with those waits. When it is first it reaps the child.
When it comes second its `wait()` fails, and what it then tests (lines 75-77) is a
local that was never set: the handler may do nothing, or call `kill(-1, SIGKILL)`,
which `KillAll` spells out. When a program is stopped because it reads the
terminal, its parents get SIGCHLD too.

A program is one that reads its input to the end or does not, then writes
`Size` units, one at a time; a pipe holds `PIPE` of them. Files are sequences of
who wrote each unit, written at the position or at the end; none is emptied when it is opened (there is no
`O_TRUNC`).

### pa1: the search

One step is one turn of the search loop: the comparison from right to left
(`Mismatch`), and `Hit` or `Shift`. `characters` is the table of the last places,
which holds 0 where a character does not occur. The comparison lowers the letters
it looks at in the text and in the pattern: for the text this cannot be told from
lowering what is read, and for the pattern it is kept (`word`), because the table
for the next chunk is built from it. At the beginning of a chunk the code looks at
the character in front of the buffer: it may be anything (`Begins`). `NextWord` and
`NextChunk` are the loops around it, `Report` the combination of the lists for the four kinds of
query (`intersection`, `intersection4`, `Distinct`), with lines and columns counted
from the beginning of the file. These three say which places of a list are kept, and
`Pick` is the list of them: the arrays the code fills one entry after the other.

### p14: the queue

`main()` starts one producer and one consumer; the model takes any sets of them. A
step is one of: take the lock, test and fall asleep (releasing the lock), the body
of the critical section, unlock, signal, wake up with the lock. A signalled thread
is out of the waiting set and competes for the lock; `SpuriousWakeup` takes a
thread out that nobody signalled.

### p12: the chat

`Select` computes the ready set; each turn of the loop (`Accept`, `Relay`, `Leave`,
`ReadEnd`) is one step, in the order of descriptor numbers, and between `Accept` and
`ReadName` the server is blocked in the read of line 76. Closed numbers are given
out again, lowest first. The listening descriptor is below them all, so that its turn
is the first of a pass, and a number that a pass has closed is given out in a later one. What a client has written and the server has not read is
a number of lines, `wrote[u] - taken[u]`, and a read takes any number of them, at
least one: so a quit read together with an earlier line is relayed (line 97 compares
the whole buffer), and what comes along with the name is lost (its zero byte ends
it). `dirty` says that the buffer may show something behind a shorter line: at the
start, since it is not initialised, and after an accept, since only a client's turn
clears it (line 120). A quit read into a dirty buffer may be missed. A connection
whose client is gone refuses what it is sent (`rst`), and a write after the refusal
has arrived raises SIGPIPE: the server is killed between two writes of a
broadcast. A client that quits can cause that too, when a line of a lower numbered
member is relayed in the pass in which its quit is waiting.

### p8: the shell with pipes

For a line with a pipe the shell forks the left command, which forks the right one;
the shell waits for the left one only. `ends` holds every descriptor of a pipe that
a process has, its own and those it has inherited. The right side executes the
program of the left one with its own arguments (`RightCommand`: line 84 passes
`path`). A shell that has no descriptors left exits (`TypeTooMany`).

### p7: signals

What is pending for a process is a set, since a standard signal is not queued
twice. Signals pending together are handled in any order; one without a handler
kills. `late` is a history variable: it counts the sends that did not wait until
the child was done with what it had been sent before.

### p6: the daemon

Time is a tick of the day that goes round. A turn of the loop is `Skip` or `Start`,
then `Read` (the clock), `Sleep` (what was left of the minute when it was read) and
`Wake`. In `Start` the process that was the daemon executes the job and its child
goes on in the loop, so that `proc` says for each process whether it is a daemon
or a job. `due` is a history variable: the minutes for which a job was wanted and
not started yet.

## 3. Runs

Passing runs:

| run | instance | shows |
|---|---|---|
| `seat_shared` | 2 connections, 2 users, 1 seat, both clients may type either user id, three passwords, a seat out of range; symmetric | each change of a table is one whole operation of the service until a login overwrites a session (`AtomicUntilOverwritten`); types, and no write or cancellation out of range (`TypeOK`); who reads "Login success" has typed the account's password (`LoginProvesPassword`); seats and sessions belong to registered users (`OwnersAreRegistered`); no session survives EXIT (`ExitEndsSessions`); a password is set once (`PasswordSetOnce`) |
| `seat_private` | 2 connections with an account each, 2 seats, both clients may die | the many steps implement the atomic service (`ImplementsBooking`); what was printed, and the list that answers CHECK_RSV, is what the server holds (`ToldIsTrue`) |
| `seat_live` | 2 connections, 1 slot, failing `accept()` and `pthread_create()`, one client may die, queries that hang, are refused or not understood; fair | the outstanding query is in exactly one place even when two threads serve one client (`OneQueryInFlight`); queries are answered (`Answered`); an EXIT completes (`ExitCompletes`) |
| `shell` | 2 of 22 lines in turn, one for each way through the code; pipes of 2 units, programs that write 1 to 3; one failing `fork()`; fair | the prompt means quiet (`PromptMeansQuiet`); commands run in the order typed, each once (`RunsAsTyped`); each reads all that the one before it wrote (`InputIsComplete`); a single `>>` only adds, and what another line opens is written over from its beginning (`AddsOrOverwrites`); the prompt comes back when pipes hold what is written into them (`PromptReturns`), and only then (`NoPromptWithoutRoom`) |
| `search` | queries of the four kinds on every file of 6, 7 or 10 characters over small alphabets, in chunks of 7; three of them, one each of the kinds 2 to 4, on every file of 14 characters that begins with a given chunk; fair | shifts skip no word (`NoneSkipped`); what is found is there, and once (`HitsAreWords`); the answer is what was asked for, against a definition on the whole file (`AnswerIsRight`); every search ends (`Ended`) |
| `queue` | 2 producers, 2 consumers, 2 places, 3 data each, 1 spurious wakeup; fair | `TypeOK`, `IndexInv`, `NoLostWakeup`, the queue is a FIFO (`ImplementsFifo`), all finish (`Termination`) |
| `chat` | 3 users, one of whom writes a line between name and quit and one of whom may be killed; fair | descriptors, members and `usr_cnt` agree in the middle of every pass (`DescriptorsAgree`); all who were told a number of users were told the same, the present one less at most those gone before their name was read (`CountIsKnown`); the loop is a chat room (`ImplementsRoom`); everything written is read (`EveryLineIsRead`) |
| `pipes` | 3 of 7 lines: pipes that are read, not read, or not read and too small, redirections, single commands; one failing `fork()`, 7 descriptors; fair | a reader sees the end of its input only after the shell and all later commands are gone (`ReadersEndLast`); then all end (`AllEnd`); the prompt comes back when the pipe is read or holds all (`PromptReturns`) |
| `signals` | 6 signals; fair | `TypeOK`; nothing is counted twice (`CountsAgree`); each late send costs at most one signal (`OneLossPerLateSend`); both processes end (`BothEnd`) |
| `cron` | a day of 2 hours of 2 minutes of 3 ticks, 6 crontabs, 4 processes, 2 failures each of `fork()` and `execl()`; symmetric | from one turn to the next the clock is in the following minute, over midnight too (`EachMinuteOnce`); while calls succeed no job is more than a minute late (`NoneMissed`); one daemon, less one for each failed `fork()` and plus one for each failed `execl()` (`OneDaemon`) |

`ImplementsBooking` and `ToldIsTrue` hold only when no user id is typed on two
connections; the server does not enforce that. For shared accounts
`AtomicUntilOverwritten` says how far atomicity goes: up to the first login that
overwrites a session, see the races below.

Runs that find what a comment says violated (each is a finding in `PROJECT.json`):

| run | violated | why |
|---|---|---|
| `seat_wrong_thread` | a thread serves the client it was made for (pa3, lines 264-265) | it reads main()'s variable, which the next accept() may have replaced |
| `search_capitals` | "Change all characters to lower letters" (pa1, line 70) | the shift table is built from the pattern as it was typed |

Other disagreements of code and comments, which the models contain and no run is
spent on:

- pa3, "If the user is already logged in, fail" (line 95): the test and the update
  (line 114) are two critical sections, and two logins can both succeed.
- pa3, "if the user of seat is not user_id" (line 191): the owner is read without
  the lock of the seat that line 195 takes: with an account used on
  two connections, one cancels what the other has reserved since.
- pa3, "infinite loop" (line 284): a `pthread_create()` that fails leaves
  `thread_num_lock` held (line 305) and the loop stops at the next client.
- pa3 client, "Seat %d is reserved" (lines 154, 190-194): seat 0 is taken for a failure.
- p7, "When all signals are sent and received" (line 84): a pending signal is not
  queued again, and SIGINT may overtake it.

### Bounds

The instances are small because each hazard needs few actors: two connections for
every race of pa3 (a race is between a check and one other thread's update, and two
threads on one connection appear with two), one seat where it is fought over and two
where a list is read while it changes, one slot to have none left. The queue wraps
around and is reset many times in six data and two places, and has two threads
asleep on each condition. In the chat three users are needed for a leave with two
left to tell, and for a descriptor number that is used again. The second line of
`shell` begins with whatever the first has left, files and late signals included.
The chunk of `search` is longer than each of its words, and the files of 10 and of 14
characters go on in a second one, so that words lie in, at and across its end; words with repeated letters make
every kind of shift. Three lines in `pipes` make a reader that two later ones keep
waiting, and with 7 descriptors the third pipe is refused. The day of `cron` is short
enough to go round, and a minute long enough for late wakeups.

The bounds in the modules are `MaxSpurious` (spurious wakeups, p14), `n_loops` (the
code's own), `NLines` (lines a user writes in p12, lines typed in pa2 and p8),
`MaxFails` (failing calls of `fork()`), `PIPE` and `MaxFd` (stand for the capacity of
a pipe and the limit of descriptors), `MAX_INPUT` (the code's chunk, made small),
`Procs`, `MaxDelay` and `MaxFailures` (processes at a time, ticks a turn may take and
failing calls of each kind, p6),
`Seconds`, `Minutes` and `Hours` (the calendar, made small) and `NSignals` (the
code's own). pa3 has no counter to bound: one query is outstanding per client, and
the tables are finite.

All runs but `cron` set `CHECK_DEADLOCK FALSE` because their system really may stop:
clients need not ask anything, nobody has to type a line, and p7, p12's clients, p14
and a search end. The daemon of p6 never stops, and its run checks that.

### Fairness

- pa3: weak fairness of main()'s accept and spawn, of each thread, and of each
  client's reading of replies: threads are scheduled, and no critical section but
  that of a failed create lasts. A client need not ask. Nothing is assumed of
  failures.
- pa2: weak fairness of each process, and of each handler: processes are scheduled
  and a pending signal is delivered. Nobody has to type.
- pa1: weak fairness of the one thread there is.
- p14: weak fairness of each thread. Nothing is assumed of who gets a contended
  mutex; the loops are finite, so the others get out of the way.
- p12: weak fairness of the server, and of the steps a client takes by itself (its
  name follows connect() directly, exit() follows quit).
- p8: weak fairness of the shell's wait and of each of its children.
- p7: weak fairness of each process and of the alarm.
- p6: none; that a turn of the loop takes less than a minute is an assumption on
  the steps (`MaxDelay`), as the code needs it.

## 4. Proofs

All proofs hold for all values of the constants that satisfy the named assumptions
(`NetAssumption`, `ServerAssumption`, `QueueAssumption`, `SignalsAssumption`,
`ChatAssumption`, `SearchAssumption`, `PipeShellAssumption`, `CronAssumption`,
`ShellAssumption`), which TLC evaluates in the runs.

pa3 (`SeatSystemProofs`)

- `TypeCorrect`: `Spec => []TypeOK`. `TypeOK` is not inductive: that `LoginSet` stores
  a session for a valid user needs that a thread inside an operation holds a valid
  query (`QueryIsValid`), which `Receive` establishes. The invariant is their
  conjunction `TypeInv`, with a lemma for main(), one for the threads (one step per
  action) and one for the clients. The part `IndicesInRange` of `TypeOK` says that a
  thread about to write `user_of_seat`, or to read it for a cancellation, has a seat of
  the table in hand: the types alone would not, since an EXCEPT outside the domain
  changes nothing.
- `PasswordsAreSetOnce`, `SeatsAreNotStolen`: the action properties, from `TypeInv`
  and lemmas that say which steps write which table. `NoSeatTheft` is close to the guard
  of line 136, and no run checks it.
- `OwnersAlwaysRegistered`: the check that admits a request and the step that acts on
  it are several steps apart, so `RegisteredInv` adds what each thread that has
  decided on success knows about its user; a password once set stays, by the lemma of
  `PasswordsAreSetOnce`.
- `QueriesInOnePlace`: `FlightInv` says where the one query of each client is, from the
  client's side and from the thread's. `BacklogInv` says that a descriptor waits once, for
  a thread that does not exist yet, so that `Spawn` starts no thread twice. Two threads may
  serve one connection; what keeps them apart is that the client waits for its answer.
- `ExitsEndSessions`: `ExitInv` follows the scan of lines 77-83 over the users. A client
  that has, or will get, the answer to EXIT asks nothing more (`Left`), so no other thread
  of its connection can set a session the scan has passed.
- `LoginsProvePasswords`: `LoginInv` carries the comparison (`Proven`) from the thread that
  made it to the answer in the stream; it needs `RegisteredInv` and that a password stays.
- `ServerIsBooking`: `PrivateUsers /\ Spec => ImplementsBooking`. `DecidedInv` says that
  what a thread has decided still holds when it acts. Only a thread with the same user
  could make it stale; with an account for each connection that thread would serve the same
  client, and by `FlightInv` there is only one (`OneActs`). EXIT clears the sessions of its
  own connection alone.
- `SharedIsBooking`: `RaceSpec => AtomicUntilOverwritten`, for any accounts. As long as no
  session was overwritten, a session belongs to the connection that set it until that
  connection ends it, so that what a thread has decided for its user still holds.
- `ClientsAreToldTheTruth`: `PrivateUsers /\ Spec => []ToldIsTrue`. `ToldInv` compares the
  seats held with what the client will have been told once it has read the reply that is
  composed or on its way (`Learned`), and the list that is being read seat by seat with
  the seats its user holds.

p14 (`BoundedQueueProofs`)

- `QueueTypeCorrect`, `IndicesAgree`: `Inv` joins `TypeOK`, `IndexInv` (mutual
  exclusion, and `put_index` is `length` places ahead of `get_index`) and `LoopInv`
  (a thread inside the loop has rounds left).
- `QueueIsFifo`: the refinement of `Fifo`. `CountInv` relates each consumer's data to
  its loop counter; `PutRefines` and `GetRefines` show that the two bodies map to the
  abstract steps, position by position, through wrap-around and reset; every other
  step stutters.
- `NoWakeupIsLost`: `NoLostWakeup` compares numbers of threads, so the proof counts:
  with `SleepInv` (who is in a waiting set is asleep), each step moves as many threads
  into or out of `Signalling` and `Awake` as it adds or removes places and items. The
  step that matters is the signal: its thread no longer counts, but the one it wakes
  does. This needs finitely many threads.

p12 (`ChatProofs`)

- `TypeCorrect`, `DescriptorsCorrect`: `Inv` joins `TypeOK` with two facts about a server
  that lives. `FdInv` gives the open descriptors: the members and, while its name
  is awaited, the one accepted last, no two of them of one client, `usr_cnt` in all.
  `QueueInv` says that who waits in the backlog waits once and has no descriptor.
  Without it a free descriptor for `Accept` need not exist; with it, counting shows one.
- `CountIsCorrect`: all members were told nothing or one number, from `ToldInv`: outsiders
  were told nothing, and a member whose name was not read has left for good. Each of
  those may have been counted and announced to nobody, and no one else.
- `ChatIsRoom`: the refinement of `ChatRoom`. A turn that the server survives is
  `Enter`, `Speak` or `Leave`, one it does not survive is `Stop`; all else stutters.

pa1 (`SearchProofs`)

- `TypeCorrect`: types, together with `TableInv` (the table holds the last places of
  the letters of the pattern), so that no shift is negative.
- `SkipsNone`: `NoWordBetween` is the bad character rule: when the last place of a
  character in the pattern has not passed its place in the text, no word was passed. It
  is used for both shifts. The query has no capitals; with them the claim is false, see
  `search_capitals`.
- `HitsCorrect`: `PlacesInv` says that the places found are in order and left of `s`, so
  that none is found twice; a word stays one when the pattern is lowered.
- `AnswersAreRight`: with the two above, two more conjuncts make an inductive invariant.
  `ListsInv` says that the lists of the words before the present one hold all of their
  words in the chunk, and that lists ascend. `OutInv` says that the output is the answer for
  the chunks read so far (`Printed`, chunk by chunk `Part`). Between them stands
  `Collected`, what the lists are when the last word is done, and lemmas about the
  operators: `Nth`, `Pick` and `Distinct` (a list that ascends loses duplicates and nothing
  else), lines and columns (`LocationFacts`, `SameLine`), chunks (`ChunkIs`). Two things the
  code provides are needed: no query word has a newline (it is read up to one), and a
  query of the fourth kind has two words (`case_id()`).
- `GoesForward`: no turn of the loops stays where it is, and none passes the end of the
  chunk. It is the half of `Ended` that needs no fairness.

pa2 (`MiniShellProofs`)

- `PromptIsQuiet`: `TreeInv` says that while the shell lives every process has a parent that
  waits for it, and no other process than the shell's descendants holds an end of a pipe.
  It does not matter whether the handler or the `wait()` of the parent takes a child: both
  are one lemma (`TakeStep`), and a handler that kills is another (`KillStep`).
- `AddsToFiles`, the action property `AddsOrOverwrites`: `DataInv` gives the data their types
  and says that who writes to a file has one open. `Adding` follows the `O_APPEND` of a line
  with one ">>" from the plan through the job to the program; in every other regular line
  `PlaceInv` says that the place in the open file is what the program has written so far.
- `CommandsInOrder`, `NothingIsLost`, `RoomForEach`: for each regular line (`Regular`:
  a command, its input file, the commands it is piped to, its output file) these compare the
  run with what was typed. Half of the proof is about cutting the line: `Places` and
  `Recorded` say where the operators are and what main() records, `Cut` what
  `pipe_commands()` makes of it, `LoopShape`, `AloneShape` and `TypedLine` that the jobs
  hold the commands typed, in order. The other half is `LineInv`: a line that nothing has
  disturbed is `Fresh`, `Alone` (one command), `Looping` (a pipeline) or `Later` (all that is left
  runs nothing). In the loop, `InLoop` and `InStage` give the descriptors of the stage, `Sent`
  how much every stage wrote and how much was read of it, `Done` which commands were
  started. A stage that ended wrote all it had, so that fitted into its pipe.

p8 (`PipeShellProofs`), p6 (`CronProofs`), p7 (`AckSignalsProofs`)

- `ReadersLast` (p8): `Holders` says who has the writing end of each pipe: the shell, the
  left command of its line and all commands of later lines. A right command at the end
  of its input finds no writing end left, so all of these are gone.
- `TypeCorrect`, `DaemonIsOne` (p6): types, and that the daemons and the failed calls of
  `fork()` and `execl()` add up, by counting the processes each step adds or takes.
- `MinutesFollow` (p6), the action property `EachMinuteOnce`: `InTime` bounds the age of
  the reading each daemon works with. After a sleep the second that was read and the age
  come to a whole minute and at most `MaxDelay` more, before one the age is the time the
  turn has taken. Twice `MaxDelay` is less than a minute, so the clock is in the next
  minute and not in the one after it. Since the day goes round, this rests on lemmas about
  quotient and remainder (`Quotient`, `Parts`, `Successor`).
- `NoMinuteMissed` (p6): `DueInTime` says that what is still due is the minute that was
  read or the one the clock shows, and the latter alone once the turn has tested the first.
- `TypeCorrect`, `CountsAlwaysAgree` (p7): `TypeOK /\ CountsAgree` is inductive.
- `LossesAreLate` (p7): `LossInv` says that what is counted, what is pending and one
  per late send make up what was sent; once SIGINT is on its way the pending signal
  no longer counts. A child that keeps up misses nothing, which is when the comment
  at line 84 holds.

Only model-checked: all liveness (`Answered`, `ExitCompletes`, `Termination`,
`EveryLineIsRead`, `BothEnd`, `Ended`, `AllEnd`, `PromptReturns`), since the prover has no
rules for fairness. All invariants, action properties and refinements that the passing
runs check are proved.

## 5. Not modelled

- pa3: replies are whole messages (a short `recv()` of the 2048 bytes is a hazard no
  property covers); the parsing of queries; failure of `socket`, `bind`, `listen`,
  `connect`; the end of the server process.
- pa2: lines that begin or end with an operator, which leave the shell with an empty
  command; words that contain an operator character (line 176 looks for one anywhere in
  the line, the loop of lines 211-222 for whole words); `cd` and the arguments of
  commands; the end of the standard input; what a program that
  was stopped by the terminal does later.
- pa1: the prompt loop, which an empty line or a beginning of its exit word ends (lines
  273-278); words across the end of a chunk, which the code does not look for; the
  1024 places of a list; how a query is cut into its words, with '*' and spaces mixed,
  several '*', or quotes inside; a line that spans two chunks and is printed twice; zero
  bytes in the file; opening and closing.
- p14: failure of `malloc` and of the pthread calls.
- p12: failing system calls; lines and reads that fill the 80 bytes; empty names
  (line 95 then yields no second token and line 97 reads through a null pointer) and
  names with a colon; `fd_max`, which only bounds the loop; the clients after the
  server was killed.
- p8: malformed lines, the contents of files, a failing `execv()`.
- p7: the wording of the output; failing calls.
- p6: parsing the crontab and one that is missing or too short; becoming a daemon.
- p13: threads that add to a counter under one mutex: a model would only repeat the
  mutex. p10: client and server take strict turns up to the null pointer at which the
  server ends. p2 to p5 and the utilities of pa2: sequential programs of a few lines.

## 6. Plan

Done: all programs with concurrency and the search of pa1 are modelled, and what the
runs check of them, other than liveness, is proved for all values of the constants.

What remains, in this order:

1. More of what the liveness properties rest on, as `GoesForward` is for `Ended`: a
   measure that goes down with each turn of the two sides of p7, and that no state of
   p8 and of pa2 in which every process waits is reachable.
2. The order of names and messages for each reader of the chat, beyond `ChatRoom`.
3. Shorter proofs: the steps of `MiniShellProofs` by process, which repeat themselves.
