# devpipe, specified

TLA+ specifications of devpipe (`src/devpipe/src`), the TLC runs that check them
on small instances, and TLAPS proofs for every value of the constants.

devpipe lets a person open terminals on machines they own. Closing a client must
cost nothing: the child keeps running, and the next client sees the screen as it
is. Most of what can go wrong is concurrent: a pty thread, a broadcast, tasks per
connection, a daemon that restarts, and a relay that joins connections to each
other.

## The system

| part | code | state it keeps | operations | what is hard |
|---|---|---|---|---|
| session | `session.rs` | the pty, the mirror, the broadcast of output, the queue of input, two watches (alive, shutdown) | subscribe, replay, write, resize, kill; the pty thread | one thread and many tasks share everything; wake-ups; the end |
| keeper | `keeper.rs` | one session, a socket, the count of connections, a deadline | accept, Describe, Kill, Watch, Attach; expire | subscribing against painting, slow clients, the end racing everything |
| environment | `environment.rs` | a spec; the sessions are the sockets found on disk | attach, start a session, watch, describe, close, forget | the file system as shared state; a keeper that is starting or going |
| host | `host.rs` | environments, `host.json`, the news | create, start, stop, destroy, save, open after a restart, announce | awaits between check and use; saves in flight; crashes |
| serve | `serve.rs` | per connection: panes, pumps, a watch | hello, open, close, control messages, forwarding news | pumps aborted in flight, backpressure, order in one writer |
| relay | `relay.rs` | machines by account and name, pending tickets, keys | enrol, reach, offer, online, mint; splice; dial_out | connections dropping at every step, timeouts, bounded queues |
| keys | `keys.rs` | grants, in a file | grant, revoke, look up | two processes over one file |
| session check | `session_check.rs` | none | ask the web app whose session this is | parsing |
| secrets | `secrets.rs` | a file | load, set, remove | read, change, write without a lock |
| marker | `marker.rs` | a scanner's state | feed | sequences split across chunks |
| replay | `replay.rs` | none | draw the mirror as escape sequences | a pure rendering |
| protocol | `proto.rs` | none | encode, decode | a pure format |
| attach client | `attach.rs`, `client.rs`, `term.rs` | the terminal's mode | converse, detach | leaving the terminal as it was |
| tunnel | `tunnel.rs` | child processes | open, notice the end | external processes |
| machines | `machines.rs` | a file of known machines | add, find, reach | parsing addresses |
| backends | `backend/` | the container runtime | create, start, stop, destroy, enter | external state, partial failure |
| command line | `main.rs` | none | `serve`, `keep`, `attach`, `tree`, `relay`, `keys` ... | `tree --watch` follows the news |

How they meet. A client speaks frames over a websocket to `serve`. `serve` asks
the host for an environment and the environment for a session; a session is a
keeper process, found by its socket, and `serve` copies frames between that
socket and the websocket. Watch connections from environments to keepers turn
the end of a session into news on the host's broadcast, which `serve` forwards to
clients that watch. A host behind NAT holds a control connection to a relay; a
client reaching it is given a ticket's worth of waiting while the relay asks the
machine for a second connection, and then the relay copies bytes.

What makes each part correct:

- session: the mirror is never behind the broadcast; the exit is told last;
  input keeps its order and arrives; a kill ends the session.
- keeper: nobody is shown a gap; everybody who stays is told of the end, and only
  when there is one; only a request kills; the keeper goes, after its readers.
- relay: one connection per account and name; a client only meets its own
  machine; every client gets an answer; tickets and connections do not leak.
- host and environment: one environment per name; what is on disk after a crash
  is a list that was true; a watcher's tree becomes what the host has; no session
  runs on in an environment that was stopped.
- serve: a pane is closed once and says so once; frames never land in another pane.
- keys and secrets: what was granted or set stays so until revoked or removed.
- marker: what is reported does not depend on where chunks were cut.

## Modules

| module | what it is |
|---|---|
| `Session` | one session: child, pty thread, mirror, broadcast, input, watches |
| `Keeper` | EXTENDS `Session`: `run` and `serve_one` for a set of connections |
| `Introductions` | what a relay promises, without tickets, queues or timeouts |
| `Relay` | the relay, the machines' and the clients' ends; implements `Introductions` |
| `Host` | the table of environments, `host.json`, the containers, over crashes and restarts |
| `Environment` | environments, the sockets of their sessions, the requests that change them, and the news |
| `Tree` | EXTENDS `Environment`: the followers of a host and what a person sees in the tree |
| `Pane` | one pane from the terminal through the conversation and its pump to the keeper and back |
| `MCKeeper`, `MCRelay`, `MCHost`, `MCTree` | values and symmetry for TLC; `Pane` needs none |
| `SessionProofs`, `KeeperProofs`, `RelayProofs`, `HostProofs`, `TreeProofs`, `NewsProofs`, `PaneProofs` | theorems and proofs |

### Session

A chunk of output is a number, the order it was printed in. `fed` and `sent`
count the chunks in the mirror and in the broadcast: both are always prefixes, so
a count says everything about their content. Between feeding (`Read`) and sending
(`Send`) the mirror's lock is free, so a client can take a replay in between, and
the model lets it. `typed`, `pending` and `accepted` are sequences of the tasks
that typed; `typed` and `accepted` are history.

`thread` says where the pty thread is: at the head of the loop (`Look` reads the
shutdown flag and then the queue), in `poll` (`Poll` returns when there is output,
room for input that was asked about, or a ring of the waker, which it takes),
draining, writing, reaping. `want` and `writable` are the values the thread holds
across steps. `resize` takes effect in two steps, `ResizePty` and `ResizeMirror`.
A hung-up pty is readable; reading past its last chunk ends the loop, and so does
writing to it.

### Keeper

A connection's `pc` is where its `serve_one` is; `calling` is a connection in the
listener's backlog. `here` is the client's end. A frame written is a frame the
client shows: the client that does not read is the one whose next write has not
happened, and any write may take for ever. `painted` is what the screen was
painted with since its last clear, a replay first and chunks after it.

The broadcast is one number per connection. `cursor` is the last chunk a receiver
took; one more than `Backlog` behind is told it lagged and is moved to the oldest
chunk held, which is what the channel does. `SelectOutput` and `SelectGone`
are the biased select, `Drain` and `PaintLast` what follows the loop.

`Expire` stands for any instant after the grace period: time is not measured, so
the keeper may give up as soon as the child has gone. `live` is counted at
the accept and again when `serve_one` has returned, as in the code, and not
computed from `pc`.

A connection attached twice, the daemon restarting in between, is two
connections.

### Introductions and Relay

A member of `Machines` is one control connection a machine opens; a reconnection
is another member with the same `Place` (account and name). `hold` is where its
task in the relay is, `link` the connection. A drop is seen by the relay only when
it reads or writes, and a write on a connection that dropped may look as if it had
worked, so `SayEnrolled` and `LoseDial` have both outcomes.

A ticket is the client it was minted for: the code draws 16 random bytes, and no
guess is modelled. `pending`, `rendezvous` and `offer` are apart because the code
removes a ticket, hands over the socket and drops the receiver in separate steps,
and the hazards lie between them.

`Introductions` has places, who is present, whom a client is being put through to,
and the outcome. The mapping is `Promise` in `Relay`: `present` is the table, a
machine was `seen` once its entry was made, `dropped` when its link is down, and a
client's outcome is read off its `pc`.

### Host

A caller is a connection to the daemon, which asks for one thing at a time; its `at`
is the await its request is at. The opener is `Host::open`, which saves before anything is
served. `table` and `id` are the process's own and go with it; `state` and `scratch`
(`host.json` and `host.json.new`), `container` and `kept` do not. A file is a record of what
it parses to, and of whether it does: `empty` has just been truncated, `mixed` is one list
written over a longer one. `handle` is what an open descriptor leads to, because two saves
share one scratch file and a rename changes what the other save is writing to.

A request goes through the steps of its handler: `create` is check, docker create, docker
start, insert, save, clone; `destroy` is close, docker rm, remove, save. `stop` is close and
docker stop. `save` is the list taken, the scratch opened, written and renamed. A clone that
fails sends its creation through `destroy`. Requests that are refused at once change nothing
and are no step. `kept` is the set of environments with keepers running that were not told
to end, and `home` the host id their sockets are filed under: the sockets themselves are in
`Environment`.

No lock is held across a request, and every connection is a task of its own (`serve.rs:40-49`), so
any number of callers may be anywhere in their requests at once. `AskShell` and `StartShell` are
apart because a session is started some awaits after its environment was found, when that may be
gone. A failing docker command fails its request (`DockerFails`), but for `docker inspect`: `status()`
reads any failure of it as "there is no container" (`docker.rs:161-165`), so a stop or a destroy has
nothing to do and goes on as if it had (`Unseen`), and a start creates the container again, which
docker refuses (an outcome of `DockerFails`).

The rest is history. `answered` and `gone`: creations that were answered and not asked to end, and
destructions answered. Then what the properties excuse, each where the code does nothing about it:
`stranded`, creations cut short by a failure or a crash; `late`, sessions begun past the moment a
destruction closed them; `left`, containers a destruction passed by (`Unseen`), or that a start
created again behind it (`Revived`); `beside`, for a creation, those that were being made when it was
asked for; `crossed`, that a save once took its list while another was under way.

### Environment and Tree

Nothing remembers the sessions of an environment: each description lists the sockets on disk
and asks every keeper, one await after another. That is a `look`, and a request, the
task that watches a session and a conversation with a follower each have one of their own:
`todo` is what is still to be asked, `seen` what answered, `got` the environments done so far.
`ListSockets`, `AskKeeper` and `Forget` are its steps, and anything may happen between two of
them. A keeper goes from `spawned` to `bound` (its socket is on disk, and a connection to it is
refused) to `up`; a killed child is `dying` until it ends; a finished one is `over` while its
keeper still holds the last screen, and then `gone`, with its socket; `dead` is a keeper that
left it behind. A connection is made by the path of the socket: `Answers` says whether somebody
listens there, `Reached` that it was made, `NotReached` that it was not, which may also happen to a
keeper that is there (for want of a descriptor, say), since every failure of `connect` is treated alike.

A requester is a client that changes the host. `request` is where its handler is, and `links`
the sockets its stop or destroy found and has not been to. The news is a broadcast: a follower
that is full loses its oldest word and is marked as lagged. A look remembers what it is
held against (`was`, a `Mark` taken when it began at an environment: what there was, and which
sessions had begun), and a word and every part of a description carry whether they `stood` when they were
said: the mark is what it was and, if they say the environment is there, it is. Whether what was said is
true plays no part in it: a description that is wrong though nothing changed while it was made
stands, and has to be accounted for.

What the code does not react to is in the model: a container that exits by itself (`ContainerExits`,
remembered in `exited`), a ready line that comes as the thirty seconds run out (`SessionFails`, `late`), a
keeper that is there and not reached (`unheard`), a session that begins in a home that is going
(`crossed`), and an environment announced between a welcome and a watch (`missed`).

`Tree` adds the follower: the welcome with the whole host, the request to watch that follows it,
the task that forwards the news, and the description that is asked for when it is told it is stale.
A restart of the daemon (`Restart`) drops every task, receiver and connection and keeps keepers
and sockets; it watches the sockets it finds.

Read as one step: the status of a container, its ports and the list of its sockets. Two queues
on one way are one. A save and a docker command succeed: what they leave behind when they do
not is `Host`'s.

### Pane

A hop is one queue: what was sent and not read, whatever buffers and sockets it is in. `hand` is a
frame the client is sending, and while it holds one it reads nothing; `talk` is what the
conversation is saying, and while it says something, or feeds a session whose queue is full
(`Feed` has no step), it reads nothing. Each pane has a pump, which stops at its next await when it
is aborted: until then it may still send, and `Carry` lets it. The keeper's `painting` loop and the
task that takes what is typed are apart, as they are in `serve_one`. What is painted is
`Keeper`'s: a session owes its reader a frame or it does not.

All panes have one channel number, as `attach` has. A client of the protocol that opens the channel
again after letting it go is in the model (`AskOpen` from "let go"), and so are both ways to let go.

## Runs

| run | question | instance |
|---|---|---|
| `session` | is one session right under every interleaving, and does it make progress | 2 tasks, 1 size to change to, 2 chunks, 2 keystrokes |
| `keeper_reader` | is a reader shown everything, and told of the end | 1 connection that attaches or watches, 3 chunks, backlog 1, 1 keystroke |
| `keeper_life` | who ends a session, who is told, what keeps a keeper | 2 connections, any of the four requests each, 1 chunk, resizes |
| `keeper_lastwords` | is the drain "whatever the child painted on its way out" (violated) | 1 connection, 4 chunks, backlog 2 |
| `relay` | are places, tickets and introductions right; does `Relay` implement `Introductions` | 2 connections for one place, 1 for the same name of another account, 2 clients, queue of 1 |
| `relay_live` | is everybody answered | 1 machine, 1 without a key, 2 clients, queue of 1 |
| `relay_presence` | is an entry always held by a connection (violated) | 2 connections for one place, 1 client |
| `relay_backlog` | is everybody answered when a machine stops reading (violated) | 1 machine, 3 clients, queue of 1 |
| `host` | what survives concurrent requests, crashes, restarts and failures | 2 callers, 2 environments, 2 names, both backends, 4 requests, 2 crashes or failures |
| `tree` | what does a person see, which keepers keep their socket, what runs on after a destroy | 2 environments, one of them there from the start, 1 session, 1 requester with 2 requests, 1 follower, room for 1 word of news, 1 title, restart, exit of a container, or connection that breaks or fails |
| `pane` | does what is typed arrive, in order and whole, and is the end told, whatever is full | 2 panes one after another, 3 keystrokes, room for 1 in every queue |
| `host_disk` | is `host.json` whole whenever the daemon may be killed (violated) | 2 callers, 2 environments |

Why the bounds are enough. Chunks and keystrokes matter by their order and by
whether a receiver is within the backlog, at its edge or past it: with a backlog of
one, three chunks give a client each of these, and one more to read after a
resync. Two keystrokes by two tasks give a partial write between two writers. Two
connections to a keeper give one that kills or goes while the other reads; nothing
in the keeper relates three. Two connections for one place give a duplicate, a
refusal, a reconnection racing a removal; the third is the other account. A
control queue of one is full with one dial waiting and one in hand, which is why
the backlog run needs a third client. In `host`, two callers put any
request between any two steps of another; four requests and two faults let an environment be made, used,
stopped or started while it is destroyed, its name taken again, and one save fail and another be cut
short by a crash; two environments are two creations that overlap, or two saves that cross. More callers,
environments, requests and faults are the theorems' (all eight properties of `host` are proved). In
`tree` there is one requester, so one request follows another and what meets them is what runs by
itself: a session and its keeper, its watch, the follower's looks, a restart, a title. What two requests do
to each other (a start and a destroy, two destroys, a failed clone while others use the environment)
is not in this run: two requesters are beyond five minutes, and the three properties are proved for any
number of them. One session is enough because a look treats keepers one by one and nothing relates two of
them, and with room for one word the second one overruns the follower. In `pane` queues of
one are full as soon as they hold anything, so that every wait in the code is reached with
three keystrokes (one taken, one in the queue, one in the hand), and the second pane meets what
is left of the first one on the same channel. Most of the invariants are also proved with all
of these left as parameters (below).

`CHECK_DEADLOCK FALSE` in the runs of `Keeper`, `Relay`, `Host` and `Pane` is because those
instances really end: a host nobody asks anything has nothing to do; connections are used once, and a keeper that has gone, or a
relay whose clients have been served and whose machines have left, has nothing to
do; a pane ends when its client has gone. `Session` always can be killed again and is checked for
deadlock, and so is `Tree`: `Rest` is the one way to stop, with every request answered, every
task at its wait and every word read.

Symmetry is used only in runs without liveness properties, over connections
(`keeper_life`), over clients and machines of one place (`relay`), and over callers, environments
and names (`host`).

## Fairness

- `Session`: weak fairness of the pty thread, which is an operating system thread,
  and of the second half of a resize. Strong fairness of the poll finding room and
  of the write being taken: the child reads its terminal. Without it input
  is queued for ever, which is the design. The child printing, hanging up, and
  anybody typing or killing are not fair.
- `Keeper`: weak fairness of `run` and of every task: they are tokio tasks of one
  process. A client that stays keeps reading, since the write to it is part of its
  task. Connecting, leaving, closing a pane and typing are not fair.
- `Relay`: weak fairness of the relay's tasks for each connection, and of a
  conversation ending once its client has left. `FairSpec` adds that a machine
  whose connection is up reads it (`MachinesRead`); `StalledSpec` leaves that out.
  Whether a machine brings up the connection it was asked for is never assumed.
- `Pane`: weak fairness of the conversation, the pumps, the keeper's loop and its reading task,
  which are tokio tasks, of a frame in the client's hand for which there is room, and of the client
  reading. A person may stop the terminal, and then nothing is read; need not type,
  nor leave; and nothing makes a session print, end, or a connection hold.
- `Environment`, `Tree` and `Host` are about safety only.

## What the runs found

Four runs state what a comment says and are violated.

- `keeper_lastwords`. The drain after the loop ends at the first `try_recv` that is
  not `Ok`, and a receiver that lagged is not `Ok`: a client more than the backlog
  behind when the session ends is told so without the rest of the output and without
  a repaint (`keeper.rs:361`). `LastWords` states exactly what does hold, and is
  proved.
- `relay_presence`. The greeting of an enrolled machine returns early when it
  fails, past the removal of the entry (`relay.rs:357-362`, 386). `PresenceEnds`
  states what holds from the greeting on.
- `relay_backlog`. The wait for room in a machine's control queue is before the
  timeout, not inside it (`relay.rs:416`, 428). `ClientsAnswered` holds when
  machines read, as `relay_live` shows.
- `host_disk`. Two saves at once share `host.json.new`: one truncates it after the other
  wrote it and before the other renames it, and an empty `host.json` is what a daemon killed
  then comes back to, with no environments and a new id (`host.rs:372-373`, 93).

`host`, `tree` and `pane` pass, and their properties name the exceptions they need.

- `OneName`. `create` checks the name, awaits docker, and inserts: two creations of one name, or two on
  the local backend, both pass if one is asked for while the other is being made (`host.rs:221-262`).
  The property excuses these pairs (`beside`) and no other.
- `DiskIsWhole`, `AnsweredSurvives`, `StaysGone`, `SessionsFound`, `RoomsAreOwned`, `IdentityKept` hold until
  two saves cross (`crossed`), and promise nothing after: host.json may then be empty, or the older list
  may be the one renamed last, and the next start takes what it finds. Two requests at once cross only if
  they both save and one takes its list before the other has renamed; everything else two requests
  may do to each other is in the run and excused by nothing.
- `RoomsAreOwned`. A container is left behind by a creation that was cut short (`stranded`), by a destroy
  whose `docker inspect` failed, and by a start that waits in docker while a destroy passes it by and
  that creates the container again (`left`). `SessionsFound` has the same of sessions that a destroy
  closed too early to find (`late`).
- `WrongOnlyKnownWays`. A tree at rest, with nothing on the way to it, can be wrong for good. The whole
  of an environment: its last description had been overtaken by a change when it was announced
  (`environment.rs:80`), or it was announced between the welcome and the watch (`main.rs:574`). Or a
  part: shown up, though its container exited by itself, which nobody watches; a session shown
  that is over, whose watch was refused because its keeper was gone or not reached (`environment.rs:75`); a
  session not shown that runs, because it lost its socket (`environment.rs:296`), or because it was ready
  as its start gave up waiting (`environment.rs:242`), which nobody announced and whose end nobody
  tells either. Two more are not in this model: a save that fails is announced to nobody, and a `docker inspect` that
  fails inside a description has it say "absent" until the next one (`docker.rs:164`).
- `SocketKept`. A keeper that is asked between binding its socket and listening on it, or to which a
  connection fails for any other reason, looks like one that has gone, and its socket is cleared away: it
  runs on, and nobody can list, resume or kill it (`environment.rs:281` says "A keeper that does not
  answer has gone").
- `NoneLeftRunning`. A keeper that begins to listen after a destroy listed the sockets, or that the
  destroy could not reach, runs on. With docker its container is removed under it; with the local
  backend nothing ends it.
- `NobodyIsLetGoUntold` (`keeper_life`) says nothing of the task that reads what a client types: it is
  aborted and not awaited when serving ends (`keeper.rs:373`), on a runtime of several threads, so
  `AbortInbound` only marks it, and it may write to the session, or finish a resize, after `serve_one`
  returned. No comment promises otherwise.
- `PaneInOrder` says that a pump was told to stop before `Closed` is said. One that was in the middle
  of a send may still send, and the frame may reach the next pane of the same channel.
- `TypedArrives` excuses a pane whose keeper stopped serving: keystrokes typed just before a detach
  are lost if the keeper's next write fails first, since serving ends and its reading task is
  aborted with what it had not read.

Also seen while modelling, with no comment that denies it: with input waiting, a
write to the closed pty ends the thread before the last output is read
(`IdleFinalOutputMirrored` says when that cannot happen); requests to open a url in
chunks that were skipped or drained are not reported; two resizes at once can leave
the child and the mirror at different sizes. A new environment is announced when it is in the table and
its repository is not cloned yet (`host.rs:263`), so others see it, and may be in it, when a
failed clone takes it away. `proto.rs:41` says a closed channel's number is free again, and
after an `Exit` the conversation keeps its entry until the client closes it (`serve.rs:206`).

## Proofs

All theorems hold for any finite set of connections and any bounds; the
assumptions on the constants are the named `ASSUME`s of the modules (a backlog and
a queue have room for one; the marker values are not members of the sets they stand
outside of; `Titled` and `Marked` are sets of chunk numbers), and TLC evaluates
them in the runs.

`SessionProofs`. `SessionInv` is the type invariant with `MirrorLeads`,
`InputInOrder` and `Phases`, which says what each place of the pty thread implies:
`GoneIsLast` is not inductive alone, because it needs that the thread reaped, and
that the pty was hung up, before it told. `IdleFinalOutputMirrored` needs what is
known at `reap`: the loop was left by the flag, by reading to the end, or by a write,
and a write needs input. Two more results stand for the safety half of what
`session` checks as liveness: `NoWakeIsLost`, that the thread is never in `poll` on input it did
not ask room for, or on a kill, with its waker not rung; and `QuietAfterExit`, that nothing moves
once the exit was announced.

`KeeperProofs`. `KeeperImplementsSession` shows that each step of the keeper is
a step of its session or leaves it alone, so `SessionInv` carries over. `KeeperInv`
adds three parts. `Places` ties `live` to the connections being served, as a
cardinality; without it "no connection is served" cannot be had from `live = 0`.
`Endings` says what being told, killed or stopped implies about the session.
`StreamInv` relates `painted`, `cursor`, `snap` and `sent` at each place of
`serve_one`: a replay in hand shows at least what the receiver will skip to, which
is the argument for subscribing first. `LastWordsAreShown` adds `LastInv`, for the
end: at the drain nothing more will be sent. `KeeperKeepsTypes` proves `KTypeOK`; its one step that
is not routine is that the title a watcher compares with is the number of a chunk, which needs that a
set of chunk numbers has a last one, had from the well-foundedness of `<` on the numbers (`LastOf`).
`WaysOut` follows every way out of `serve_one`: `NobodyIsLetGoUntold` says none that a client who
stays can take skips its answer, and `EndIsNoticed` that an end of the child is seen whether it came
before `run` subscribed or after, which needs that `run` has the value it subscribed to (`sawAlive`)
until it looked for itself.

`RelayProofs`. `RelayInv` is the type invariant and four parts: `Entries` (who is in
the table and why), `Dials` (which client is in which queue or hand), `Lookups`
(a client's dial is a keyed connection of its own place), `Tickets` (how `pc`,
`pending`, `rendezvous` and `offer` go together). `RelayKeepsPromise` shows that the
initial states map, and that under `RelayInv` every step is a step of
`Introductions` or a stutter of it. `EntriesAreHeldOrLost` bounds the fault that `relay_presence`
finds: an entry has a machine behind it unless its connection was lost in the greeting, and
then `LostPlacesStayLost`, nobody has the place again. `MeetingInv` puts the two ends of a meeting
together: a dial is in one queue or hand and is sent once (`SentOnce`), and where a client is says
what there is of its ticket, its rendezvous and its machine's offer (`Meeting`), so that one who waits
is waited for (`NobodyWaitsInVain`).

`HostProofs`. Everything is for any number of callers, environments, requests and faults, and
nothing is assumed of when they ask. The types, and the course each request takes (`Shifts`,
`Stages`), need no more than themselves. `Births` says what is known of an environment that is being
made, that it is in no list anywhere, and `Named` that any two environments in the table, in a list some save
holds or in a file are `Apart`, and so is one that is being made from all it may come to be together with;
that gives `OneName`, and is kept through crossing saves too. The rest is kept until saves cross: `Kept` is `BirthInv`, `Named`, and `crossed` or
`OwnedInv`. `Scratch` is its heart: there is one save under way, it has the descriptor, the scratch file
is empty until it wrote and then exactly its list. The table does change under it, by the insertions
and removals of other callers, so `Lists` says what is settled in spite of them: an answered environment
is in the file and in the list of whoever saves (`Settled`), one that is gone is in neither
(`Purged`). With `File` this gives `DiskIsWhole`, `IdentityKept`, `AnsweredSurvives` and `StaysGone`;
`Keepers` and `Rooms` do the same for what outlives the process.

`TreeProofs`. `HomeInv` holds for any number of environments, sessions, clients and followers, with
requests and restarts unbounded. `Looks` says what a describer may rely on while it waits: what it
has still to ask had a socket, and what it is about to clear away is no more, or could not be
reached (`unheard`); without it `SocketKept` is not inductive, because a look that decided to forget acts
later. `Endings` says the same of whoever destroys a home: what runs in it is still on the
list, or began since. Most steps touch neither (`Aside`), and are disposed of in one lemma.

`NewsProofs` proves `WrongOnlyKnownWays` for any number of environments, sessions, clients and
followers and any backlog. `NewsInv` has two halves. `HostKnows` is about the host alone, and its core is that every
look is true as far as it got (`TrueOf`): held against the mark it began with, it lists only sessions
there were or that have begun since, and whom it leaves out is still to be asked, has lost its socket or is
over; and it does not skip what it is for (`Covers`). So a look that ends with its mark unchanged is
`Explained`: it is so, but for the parts that have one of the reasons the property names
(`LookExplains`). `TreesFollow` is about what was said, wherever it is: a word or a picture is `Accounted`, which is that
it did not stand, or is explained, or a handler is about to announce the environment anew (`Promised`).
Only two have to be: the last word on an environment in a follower's queue (`LastWordsCount`), and the
picture of a follower that reads, was not overrun and has no description to come (`PicturesCount`,
`Settled`). The steps are then of two kinds. Whatever changes an environment either keeps every explanation of it
(`Steady`, `SteadyExplains`), as the steps of a keeper and a container's exit do, or is the step of a
request that promises to tell (`Upholds`). And whatever tells, tells something accounted for. At rest
there is no promise left and no word on its way, and `RestIsAccounted` reads the property off the
pictures.

`PaneProofs`. For any number of panes and keystrokes, and any room in the queues, `PanesAreInOrder`
and `PastesAreWhole`. `OrderInv` is the argument of the first. A client uses its panes one after
another on one channel, so what is on its way up is in the order of the panes it is about (`Ordered`),
and what the conversation has heard of lies behind all of it (`Past`, `Reached`): a pane that is being
opened has never had a pump (`Opening`), only the pane that is open has one that was not told to stop
(`OnePump`), and whoever may still send has been announced (`Announced`). `PasteInv` is that of the
second. A client that waits for an answer has sent nothing behind its request (`Asked`, `Answered`),
so the keystrokes on the wire are of one pane, with nothing before them, and numbered on from what was
passed to the keeper (`Queued`, `Typing`), and what the keeper holds is numbered on from what the
session has (`Given`). `Served` says an open pane has a connection, so that when the keeper dies no
more of the pane is taken in: that is why only a tail can be missing.

`WaitInv` is what `TypedArrives` and `EndIsTold` rest on. The client reads nothing while it sends, and
the conversation reads nothing while it speaks, so each of them could wait for the other;
`NoCircularWait` says they do not. It holds because of what a client may have sent: behind a request to
open there is nothing until it was answered (`Asked`, `Waiting`), and behind a request to let go only
one to open (`LastAsked`), which is on a wire that then has room, or already there with nothing in
hand. `NobodyLeftAtNothing` says that while a pane looks live the word that it is over is on its way,
or the pump that has to say it runs (`TalkedTo`), and that a lost keeper serves nobody (`Deserted`).
`TalkedTo` is kept through the reading of old news because a client that asks for a pane has not
seen it (`Unseen`), so what ends the pane comes behind what opens it.

The theorems that no run lists (`NoWakeIsLost`, `QuietAfterExit`, `WaysOut`, `EntriesAreHeldOrLost`,
`LostPlacesStayLost`, `MeetingInv`, `WaitInv` and what follows from them) are stated in the proof
modules, next to the invariants they need; each was checked by TLC, exhaustively on the configurations
of the runs, before it was proved. For `NoCircularWait` also a wire with room for two and three panes.

Every safety and action property of the passing runs is proved, and the refinement. Only
model-checked: the liveness properties (TLAPS 1.4.5 does no ENABLED).

## Not modelled

Whole components, each for its reason:

- keys and secrets: files that are read, changed and written whole with no lock. What two writers do
  to each other is plain and is listed as a hazard; no comment promises otherwise, and nothing
  else waits for them. `Relay` takes the account of a connection as given, and the minting and
  rotation of keys with it.
- marker and replay: pure functions over bytes, of a scanner and of a terminal grid that belongs to a
  library. What the system relies on, that a report comes after its chunk and that a replay is
  the mirror as of now, is `ReportOpen` and `TakeReplay` of `Keeper`.
- session check and the tunnel: one HTTP round trip, and an ssh child process. Neither keeps state
  that another part depends on; a tunnel that goes is a connection that breaks.
- the site and the deployment scripts: no protocol of the system runs there.

Inside the modelled parts: a poll or a read of the pty that fails with an error other than the
hang-up (`session.rs:107-109`, 130), which ends the thread there; that a keystroke or a kill is put down and the
waker rung in two steps (`session.rs:186-189`, 221-223), which `Write` and `Kill` make one, since the ring always
follows and a thread that saw the first has nothing left to miss; a `docker inspect` that fails
inside `describe`, which then says "absent", or inside `create`, which then tries to create the container as it
would have; the bytes of chunks, of titles and of frames, and their size limit;
argument parsing, addresses, ports and printing; a hello that is refused, and requests that answer
without changing anything; the backoff of `dial_out`, which only says how long a machine waits
before it is a new member of `Machines`; raw mode and window sizes at the client; the runtime
of tokio and the operating system beyond the order they may run tasks in; poisoned locks (a panic
inside one is not a behaviour the code plans for); how long anything takes: a timeout may fire at
any moment after it is set. No model has crash and news at once with a save that fails: `Host` has
the disk and no news, `Tree` the news and a table that comes back as it was.
