# Specification of mumble-discord-bridge

TLA+ modules for the program in `src/`, TLC configurations that check them on
small instances, and proofs that the TLA+ proof system checks for every value
of the constants. The program joins a Mumble channel and a Discord voice
channel and carries the audio of each to the other. Its difficulty is not the
audio but its *control*: a handful of goroutines that start, watch, stop and
restart connections and sessions over shared flags and channels.

## 1. The system

| Part | Code | State | Operations |
|---|---|---|---|
| Connection managers, common part | `internal/bridge/connection_manager.go` | status, bounded event channel, closed flag | `SetStatus`, `Stop` |
| Mumble connection manager | `internal/bridge/mumble_connection_manager.go` | gumble client, disconnect channel | `connectionLoop`, `connect`, `handleDisconnectEvent`, `OnDisconnect`, `UpdateAddress`, `Stop` |
| Discord voice connection manager | `internal/bridge/discord_connection_manager.go` | voice connection, health timer | `mainConnectionLoop`, `connectOnce`, `monitorConnection`, `Stop` |
| Bridge state | `internal/bridge/bridge.go` | `DiscordConnected`, `MumbleConnected`, `Connected`, `BridgeActive`, announcement latch | `EmitConnectionEvent`, `monitorConnectionEvents`, the handlers |
| Sessions | `internal/bridge/bridge.go` | `BridgeDie`, `WaitExit`, session context | `StartBridge`, `StopBridge`, `stopConnectionManagers` |
| Modes | `internal/bridge/bridge.go`, `pkg/bridgelib/bridge.go` | loop, timers, `AutoChanDie` | constant loop, manual start, `AutoBridge`, `MumblePresenceBridge` |
| Bridge instance | `pkg/bridgelib/bridge.go` | stopped flag, context | `Start`, `Stop` |
| Event dispatcher | `pkg/bridgelib/events.go` | event channel, drop counter | `EmitEvent`, `EmitEventSync`, `Stop` |
| Chat handlers | `discord_handlers.go`, `mumble_handlers.go`, `command_handler.go` | user maps | voice state and user changes, commands |
| Audio, Mumble to Discord | `discord_duplex.go`, `mumble_duplex.go` | jitter buffer, mixer state | `toDiscordOpusMixer`, `toDiscordSender`, `MixOneChunk` |
| Audio, Discord to Mumble | `discord_duplex.go`, `mumble_duplex.go` | stream map, forwarder | `discordReceivePCM`, `fromDiscordMixer`, `cleanupStaleStreams`, `toMumbleSender` |
| Sleep ticker | `pkg/sleepct/sleepct.go` | target time, resume channel | `SleepNextTarget`, `Notify` |
| Shared Discord client | `pkg/bridgelib/discord.go`, `internal/discord/disgo_client.go` | ready flag, monitoring flag and context | `Connect`, `Disconnect`, `sessionMonitorLoop`, `lastResortSessionReset`, `onReady` |
| Adapter, metrics, logger, main | the rest of `internal/discord/`, `prom.go`, `pkg/logger/`, `cmd/` | none that matters | I/O |

**How they interact.** A manager's goroutine reports each status change twice:
by an event in its channel, which the session's monitor takes, and by a direct
call of `EmitConnectionEvent`. Both write the flags of `BridgeState` under
`BridgeMutex`. A session is one call of `StartBridge`, made by a mode's loop, a
ticker or a chat command; it takes `b.lock`, makes the managers and the audio
goroutines, and listens on `BridgeDie`. Those who want it to end read the field
`BridgeDie` without a lock and send to it. The instance's `Stop` cancels a
context, shakes hands with a mode's goroutine over `AutoChanDie`, signals
`BridgeDie`, waits for `WaitExit` and stops the dispatcher.

Audio flows through pairs of goroutines with a bounded channel between them:
gumble's stream readers fill one channel per speaker, a mixer takes from all of
them every 10 ms and fills the jitter buffer, a sender empties it every 20 ms.
The other way a receiver decodes packets into one channel per speaker, a mixer
takes from those that have begun to play, and a forwarder hands the sum to
whatever client the Mumble manager has at that moment. Both managers replace
what the audio is sent to while it is being sent. One Discord client is shared
by all bridges of a process; its monitor resets it when it is not ready for ten
minutes, below the voice managers that use it.

**What is hard.** The two paths to a flag race. A stopped manager's goroutine is
not waited for. Guard and lock of `StartBridge` are two steps. Channels are
replaced and closed while others hold on to the field. Signals are sent without
blocking and get lost. Timers fire while their reason goes away. A dial or an
open cannot be cancelled. An instance is restarted. A packet is decoded between
two critical sections. Tickers drift against each other over a buffer of three
frames. A monitor that was stopped may go on under the context of its
successor. Every one of these lines is
in the `hazards` of `PROJECT.json`, with the properties that watch it.

**What makes each part correct.**

- *Connection state*: no send on a closed channel; after both paths are drained
  the flags say what the statuses say; nothing reads as connected afterwards.
- *Sessions*: one accepted session at a time, which reads as active and owns its
  channel; told sessions return; accepted starts begin.
- *Instance*: the constant loop comes back; auto mode has a session while both
  sides have users and none while one is empty; `Stop` returns and leaves nothing
  running.
- *Mumble mode*: presence follows Mumble's users, audio follows Discord's, audio
  never outlives the presence, delays belong to the users they began for.
- *Dispatcher*: events are neither lost nor duplicated without trace; `Stop`
  drains, and returns once the emitters rest.
- *Managers*: a lost connection is noticed and replaced; nothing stays open
  after `Stop`.
- *Shared client*: while monitoring is on there is a loop that goes on; resets
  are repeated until the client is ready; loops that were stopped leave.
- *To Discord*: the bot is shown speaking in a spurt only, unless Discord refused
  to be told that one ended; silence ends the spurt with nothing held back; steady
  speech is neither cut nor dropped.
- *To Mumble*: the gap between packets is what was lost; a decoded packet finds
  its speaker's entry; silence removes every entry and closes the spurt.
- *Streams and forwarder*: no send on a closed channel; the mixer's receives
  under its mutex never wait; audio finds the channel of the client there is.

## 2. Modules and how they correspond to the code

`map` in `PROJECT.json` gives the lines of every definition.

- **ConnectionStatus**: the statuses and the changes each manager may report.
  `ConnectionState` assumes exactly these, and that the two managers report no
  other is proved of their modules (`ReportsAreKnown` of MumbleForwarderProofs
  and of DiscordClientProofs).
- **ConnectionState**: one action per lock section or channel operation of
  `SetStatus` (`SwapStatus`, `LockAndRecheck`, `TrySend`, `DropOldest`,
  `RetrySend`, `Emit`), of the monitor, and of `StartBridge` as far as it creates
  and clears managers. `late` holds what goroutines of earlier managers have yet
  to write.
- **BridgeLifecycle**: abstract specification of sessions: *requested, running,
  ending*, five actions. BridgeSession implements it, with any callers and
  senders, and so does BridgeInstance with those the program has. (ConnectionState
  has a skeleton of a session around its managers, no more.)
- **BridgeSession**: any set of callers of `StartBridge`, each with its place in
  the function, and of senders (`StopBridge`, commands). A send on a closed
  channel sets `panic` and ends the behaviour, as it ends the process.
- **BridgeInstance** extends BridgeSession, whose properties are checked here,
  under the callers the program has, with `Start`, `Stop` and the
  goroutine of each mode. A step of it is a step of the session, a step of the
  instance, or one of both (the loop's call of `StartBridge`, `Stop`'s send). Auto
  mode has its ping loop as well: `PingAnswered` stores what the server counts (its
  users, and the bot while it is there), one less while the bridge is active, and
  that is what the ticks of `AutoBridge` read; the loop ends with the instance's context, which `Stop` cancels for good. On the Discord
  side a tick refreshes what it reads, so that is one variable (`discordSeen`).
- **PresenceLifecycle**: abstract specification of mumble mode: *away, present,
  bridging, ending*, and how often the pipeline was announced.
- **MumblePresence**: the select loop of mumble mode with its two timers, the
  handlers, the lookup goroutine, the Discord manager's reports (as in
  ConnectionState, one at a time) and the `Stop` of the instance. Users are
  abstracted to *any or none*. `OnVoiceStateUpdate` reads the guild (`ReadGuild`) and
  then, under the lock, reconciles the users with it or falls back to the user of
  the event (`Reconcile`, `Fallback`); any name may not be found. Since several
  users are one bit, a fallback may leave what was there, or nothing, or (if
  somebody is in the channel) somebody. `misled` is a history variable: whoever
  looked at the channel last, a handler or a lookup, left that bit wrong. `Level`
  maps its state to PresenceLifecycle: where the manager, `AudioActive` and the
  place of the loop say the presence is.
- **EventDispatcher**: emitters, `processEvents` and handlers, one action per
  select. An event is its number.
- **MumbleConnection**: the loop of the Mumble manager, with `Stop` and
  `UpdateAddress`; gumble, with the clients of earlier sessions whose listeners
  were never detached, is the environment.
- **MumbleForwarder** extends it with `toMumbleSender`, and so says of each step
  of the manager what it does to a send under way. One forwarder at a time holds
  at most one audio channel; the next pipeline's begins with none.
- **DiscordVoice**: the loop of the Discord voice manager with `Stop`, and an
  `Open` that cannot be cancelled. It counts the seconds of the health timer,
  since the monitor samples once a second.
- **DiscordClient** extends it with the shared client: `Connect` and `Disconnect`
  of the host, the monitor loops, one per start and each with the context its
  `select` waits on, and the ready flag of `DisgoClient`. disgo's gateway is the
  environment: closed, up, or down and perhaps never up again. The voice manager
  can join only while the gateway is there, and may fail to at any time.
- **MumbleStreams**: `OnAudioStream`, the goroutine of each stream, `MixOneChunk`
  and the tear-down, over the mutex of the list and the mutex of each stream.
  Audio is the number of chunks in a channel. A blocking receive that would wait
  is a step that is not enabled while the mutex is held.
- **DiscordSender**: the mixer and the sender around the jitter buffer. (Its
  `SenderSpec` and the `Spec` of MumbleStreams, the two halves of the way to
  Discord, have names of their own so that one module proves about both.) Each tick
  is one action; `lead` is how far one ticker is ahead, within `Skew`. The sender's
  spurt has the steps of the code: look for a frame, tell Discord, send, count the
  ticks without data, send the frames of silence, tell Discord again, with the
  voice connection looked up anew at each of them.
- **DiscordReceive**: `processReceivedPacket` as two actions, before and after
  the decoding, which runs without the mutex; `fromDiscordMixer` and
  `cleanupStaleStreams` as ticks. `SequenceGap` is the code's arithmetic modulo
  the range of the sequence numbers. A packet's number is chosen relative to the
  last one, one step back to one more than the decoder conceals; a packet whose
  timestamp stands still may have any other.
- **MC...** modules instantiate these; **...Proofs** modules hold theorems.

## 3. Runs

No run uses symmetry; the state spaces are finite because of the named bounds.

| Run | Properties | Shows |
|---|---|---|
| `connection_flags` | `ChannelsInv`, `FlagsAccurate`, `StoppedMeansDisconnected`, `HealthyEventuallyReady` | flags, channels and monitor under all interleavings of two managers and of sessions that come and go; healthy services end up `Connected` |
| `connection_late` | `ConnectedImpliesBoth` | the same when the 200 ms sleep is too short and goroutines of stopped managers write the flags of later sessions: `Connected` is never ahead of them |
| `instance_modes` | `SessionsInv`, `SessionOwnsChannel`, `StopWaitsForSession`, `RefinesLifecycle`, `SessionsMoveOn`, `ConstantComesBack`, `UsersGetBridge`, `EmptyBridgeStops` | the three modes that have sessions, with restart of the instance, commands, auto mode's ping loop, and starts that fail half way: one accepted session at a time, which owns its channel; nobody waits for a session that was not told, and `Stop` for one there is; told sessions return and accepted ones begin; every step is one of BridgeLifecycle or a stutter; the constant loop comes back; auto mode has a session again and again while both sides have users, and none lasts when Discord is empty, or for the bot alone on the Mumble server |
| `presence_safety` | `PresenceInv`, `NoInheritedTimer`, `RefinesPresence` | mumble mode with slow lookups and a stop at any time: audio within the presence, one announcement per pipeline, and every step one of PresenceLifecycle or a stutter |
| `presence_live` | `PresenceFollowsMumble`, `AudioFollowsDiscord`, `AudioStopsWhenEmpty` | mumble mode follows the users of both sides, with calls to Discord that fail and lookups that are slow, once the last look at the channel was not misled |
| `events_buffer` | `EventsInv`, `StopDrains`, `StopReturns` | every event is in exactly one place, and losses are at most twice what the counter says, with a full buffer; `Stop` drains what it found, and returns once the emitters rest |
| `mumble_loop` | `LoopInv`, `ChannelsIntact`, `StaysConnected`, `AudioReachesClient` | the Mumble manager among late reports of earlier clients, and the forwarder that sends while its client is replaced |
| `discord_client` | `DiscordInv`, `MonitorsLeave`, `UnreadyReset`, `StaysConnected`, `UnhealthyReplaced` | the shared client and the voice manager over it: started, stopped and reset, with late Ready events, joins that fail, an `Open` that cannot be cancelled, and a client that is reset below its manager |
| `mumble_streams` | `StreamsInv`, `ReadersLeave` | streams announced, filled, mixed, ended and cleaned up in any order: no send on a closed channel, no receive that waits under the mutex, and no reader left behind |
| `discord_sender` | `SenderInv`, `DropsAfterCloseOnly`, `SpeechEnds`, `SpeechFlows` | two tickers that each may run ahead, a voice connection that comes and goes: speaking in spurts only (or a refused end), spurts that end, speech that flows, and frames dropped only after the silence of an ending spurt |
| `discord_receive` | `ReceiveInv`, `QuietEnds` | packets lost, overtaken, duplicated or broken, across the wrap of the sequence numbers, with mixer and cleanup in between |

An invariant named `...Inv` is a conjunction of the module's type invariant and
its safety invariants, which the module names one by one. Every property has a mutant in `PROJECT.json`: a
plausible bug in one definition that makes its run fail.

One run expects a violation. It compares the code with what its comments say,
and its counterexample is the entry under `findings`:

| Run | Statement it refutes | What the code does |
|---|---|---|
| `discord_lost` | `bridgelib/discord.go:205` and `internal/discord/client.go:21`: the last resort comes when the library's own reconnection fails persistently | `onReady` (`disgo_client.go:256`) sets the ready flag and only `Disconnect` (89) clears it: once the gateway has been up, the monitor takes a lost one for healthy |

### Disagreements without a run

Met while modelling. No run is kept for these. Where a definition is named the
step is in the model, and the checked properties are stated around it.

| Statement | What the code does | In the model |
|---|---|---|
| `bridge.go:177`: one announcement per session | the next start resets the latch (931) while the monitor and the lookups of the session before still run, and one of them announces again | `StartBridge` and `AnnouncedOncePerSession` of ConnectionState |
| `bridge.go:1119`: "full or closed" takes the default branch | a send on a closed channel panics (1116) | `StopOnClosed`, `StopBridgeSurvivesClose` |
| `bridgelib/bridge.go:428`: no deadlock in `Stop` | the signal finds nobody listening, and when the session's goroutines are counted already the `Wait` of line 442 never returns | `StopWait`, `StopReturns` |
| `bridge.go:125`: `BridgeActive` is true from entry to return | an initialisation that fails (952-956) leaves it set, and every later start is refused; a session that ends resets it before it returns | `FailInit`, `Stranded` |
| `bridge_test.go:276`: sending to `BridgeDie` should not block | the test makes a buffered channel, line 939 an unbuffered one: a command's send (`command_handler.go:47`) blocks, on a nil channel for ever | `CommandSend` |
| `bridgelib/README.md:184`: `Stop` terminates the bridge | a signal that nobody hears (`bridgelib/bridge.go:437`) is lost, and a session whose goroutines are not counted yet runs on | `StopSignal`, `StopWait` |
| the same | in mumble mode `WaitExit` is nil and `Stop` panics (`bridgelib/bridge.go:442`) | `ReadActive` of MumblePresence |
| `bridgelib/bridge.go:252`: a start after a stop resets | the context cancelled by `Stop` is never renewed (301): constant mode leaves its loop at once | `LoopCheck` |
| the same | auto mode's ping loop ends with that context (1156-1159): after a restart the count of users stays what it was | `PingLoopEnds` |
| `events.go:169`: `Stop` stops the dispatcher | the drain (259-266) leaves on an empty channel only: while emitters refill it neither the worker nor `Stop` comes to an end | `Drained`, `StopReturns` of EventDispatcher |
| `bridge.go:1174`: the bot is subtracted "when it is included in the ping count" | it is subtracted whenever `BridgeActive` is set (1177), before the bot has joined and after it has left too: the count is one too low. With one user that is 0, and the next tick stops the session that was just begun; on an empty server it is -1, and the test for 0 (1350) does not stop it | `PingAnswered`, `TickStop` |
| `README.md:44`: manual mode waits for the link command | manual mode starts a session at once (`bridgelib/bridge.go:351-377`) | `Start`, `LoopCall` |
| `bridge.go:1433`: the audio stops when Discord empties | a lookup of users that was overtaken (748-805) adds one who has left, and the audio goes on | `LookUp`, `AddFound` |
| `events.go:144`: the number of dropped events | an event given up on the retry (220-224) is not counted | `Retry`, `LossWithinTwiceCounted` (a part of `EventsInv`) |
| `events.go:236`: blocks until all handlers complete | handlers run in goroutines (280) | `EmitEventSync` |
| `bridgelib/bridge.go:252`, again | `stopChan` is closed a second time (`events.go:171`): panic | `CloseStop` |
| `bridge.go:675`: the sleep keeps sessions apart | a manager's listeners are never detached (`mumble_connection_manager.go:49`): a late report of an earlier session's client takes the connection of this one down | `OnDisconnect`, `others` |
| `docs/AUDIO-PACKET-FLOW.md:340`: reconnects indefinitely | a kick or a ban is final (`mumble_connection_manager.go:192`) | `HandleDisconnect` |
| `mumble_connection_manager.go:219`: no further events | a receive from the closed channel yields nil, which line 115 uses: panic | `Wait` |
| `discord_connection_manager.go:101`: two minutes of patience | the timeout of line 108 is 30 seconds | `SafetyTimeout` |
| `docs/AUDIO-PACKET-FLOW.md:104`: exponential backoff | a fixed two seconds | `Pause` |
| `discord_duplex.go:265`: `SetSpeaking` before the first audio packet | a connection that replaces another in the middle of a spurt gets its audio without it | `VoiceChanges` of DiscordSender |
| `discord_duplex.go:305`: silence ends the speaking status | a `SetSpeaking(false)` that fails (235-242) is not repeated: the spurt is over, and the bot is shown speaking until the next one ends | `SetSpeaking`, `refused` of DiscordSender |
| `discord_duplex.go:28`: the gap is the number of lost packets | a packet that was overtaken by one gives a gap of 65534, which resets the decoder, and the packet after it is taken to follow a loss of packets that did arrive | `SequenceGap`, the steps 0 and -1 of `Packet` |

Some more that contradict no statement, but that a reader of the modules will
meet: a pipeline cancelled in the middle of a spurt leaves the connection
speaking, which mumble mode keeps (`Cancel` of DiscordSender); an utterance of no
more chunks than `MumbleStartStreamCount` is held back until its speaker goes on
or the cleanup throws it away (`Stale`); two reconnections between two packets
leave the channel between them unclosed, and so does the end of a pipeline that
holds an old one (`NextPipeline`); a duplicate packet is decoded twice; a reset
that is under way when the host disconnects connects again afterwards, and a stop
and a start during a reset leave two loops under one context, which both leave at
the next stop (`MonitorsLeave`).

### Bounds

- `EventCap` 1 in both connection runs (100 in the code): every second status
  change then overflows. The safety properties are proved for every capacity;
  only `HealthyEventuallyReady` rests on the bound. `MaxPopulate` is 1 in
  `connection_flags`, a lookup left over from an earlier session, and 0 in
  `connection_late`, which does not depend on lookups; `MaxAnnounced` caps a
  history counter that neither reads, and is 0.
- `instance_modes` starts in any of its modes (`Mode` is chosen in the initial
  state). Two callers: a session that is taking down, and a start queued behind it.
  Two senders: one heard, one still blocked. `MaxStarts` and `MaxStops` 2: one
  restart, and a stop of what was restarted. A start may fail half way
  (`InitCanFail`). `Commands` are used in constant and manual mode: one that blocks
  keeps its sender for good, and auto mode's ticker, which the code gives a new
  goroutine for each stop, would run out of senders. One user on the Mumble server:
  what matters is whether the count is -1, 0 or more, and with the bot it goes to 2.
  `MumbleBotFlag` is FALSE, the server counts bots; with TRUE nothing is subtracted.
  An answered ping is one step: users and bot may come and go before and after it.
- `BufferSize` 2, `MaxEvents` 6, two emitters: enough to fill the buffer while
  both contend for the place of the event just dropped. `MaxStops` 2. `MaxEvents`
  silences the emitters in the end; `StopReturns` states that as its premise.
- `mumble_loop`: `OtherClients` 2, two clients of earlier sessions beside the
  manager's own (their number, `others`, is chosen in the initial state, since
  `StaysConnected` is promised only without them), and `MaxEvents` 3 disconnects
  to be reported. Two channels: a new client's is one that the forwarder does not
  hold, so that it sees every replacement as one.
- `discord_client`: `MaxStarts` 2, so that one loop may outlive its start;
  `ResetAfter` 1 (ten minutes are forty ticks in the code) and `SafetyTimeout` 1
  (thirty samples): both are counters that a healthy sample resets, and the
  interesting cases are their ends. `discord_lost` needs one start.
- `mumble_streams`: two streams of `StreamCap` 4, depth limit 2 and packets of two
  chunks: a stream gets deeper than the limit, is full, and is half way through a
  packet. Proved for all sizes.
- `discord_sender` has the code's three frames, two ticks of grace and three
  frames of silence. `Skew` 3 is 30 ms of lateness, more than a frame. It is the
  most the buffer bears: `SpeechFlows` fails with a `Skew` of 4, or with a buffer
  of two. (A grace of one tick would do.)
- `discord_receive`: two speakers, sequence numbers modulo 4, the least the
  assumption admits with `MaxPLC` 1, so that the wrap happens in every other
  behaviour; channels of four chunks, playing from more than two; two frames of
  silence. `StaleTicks` 2 stands for the three cleanup ticks in thirty seconds, and
  at most one of them falls into the decoding of a packet (they are ten seconds
  apart; a decoding takes milliseconds). Arithmetic and safety are proved for every size.
- MumblePresence has one voice event, one lookup and one report under way at a
  time. The gateway calls the handlers of voice states one after the other and
  updates its cache in between, so one event is no restriction. In `presence_live`
  the Mumble manager reports nothing (`MumbleLinks` FALSE), and so nothing is
  announced: neither the presence nor the pipeline reads those flags. All the
  faults are on there. `presence_safety` has the reports, the announcements and the
  stop, and of the faults the slow lookup; its properties are proved with all of
  them.

### Fairness

Fairness is asked only of goroutines that can go on: weak for a goroutine that
has one thing to do, strong for a case of a `select` that is ready again and
again (Go picks among the ready cases at random). No fairness is asked of
users, servers, commands, or of anybody who might call `Stop`. A Go mutex
starves nobody who waits for it, so in MumbleStreams, where locks are taken and
released again and again, those who wait for one have strong fairness. The
tickers of the audio modules go on, with weak fairness. disgo may fail to
reconnect for ever: its reconnection has no fairness, and what needs the gateway
says so in its premise. Nor need packets come: `AudioReachesClient` and
`SpeechFlows` are stated for speech that goes on. The second half of a stop that
has begun is fair, its begin is not. The liveness properties of connections,
presence, managers and audio are of the form "if the environment settles, so does
the bridge". The premises that are not about users or servers alone:

- `HealthyEventuallyReady` and `FlagsAccurate` leave out statuses that were lost
  in a full channel.
- `UsersGetBridge` is about an instance that Stop was not called on, and needs
  pings that are answered from time to time (strong fairness of `PingAnswered`).
  It does not say that the session lasts: with one user the count may be one
  too low (the table above).
- `EmptyBridgeStops` has two halves: Discord empty, and the bot alone on the
  Mumble server. With the bot away as well the count is -1, and it is not claimed.
- `AudioFollowsDiscord` and `AudioStopsWhenEmpty` are for when nobody is misled any
  more: `GetUser` fails, `GetGuild` fails or has no voice states, or a lookup's
  answer was overtaken, and until the next event nothing repairs it.
- `StopReturns` (EventDispatcher) is for emitters that rest in the end.
- `SpeechEnds` is for calls of `SetSpeaking` that do not fail.
- `StaysConnected` (DiscordClient) needs a join that works from time to time while
  the gateway is up (strong fairness of `JoinSucceeds`).

Deadlock is not checked in the runs whose program may really stop: after a
panic, after `Stop`, when a pipeline is cancelled, when a bound is used up, and
in both connection runs, where a flag left set refuses every later start.

## 4. Proofs

Every safety property that a run checks, invariant, action property or
refinement, is proved as well, for every value of the constants the assumptions
admit. Only liveness is not. The invariants are seldom inductive; each module
below says what was added, and why.

**ConnectionStateProofs** proves, for every capacity and bound, all safety
invariants that `connection_flags` and `connection_late` check, and three more
(`RetryHasRoom`, `MonitorGoneBeforeClose`, `ActiveCoversSession`). The assumptions
are those of the module:
`EventCap` is a positive natural number and the bounds are natural numbers;
`FlagsAccurate` and `StoppedMeansDisconnected` carry the condition
`SleepCoversEmit` in their own statement, the others hold whether or not the
200 ms sleep is long enough. The invariant `IInv` adds

- `Phases`: which of closed, monitor and session go together, phase by phase of
  the tear-down (this is what makes `NoSendOnClosed` inductive: the close waits
  for the mutex the sender holds);
- `OneStart`: at most one start waits, and it reads as active;
- `Quiet`, `Fresh`: nothing is under way outside sessions, and what the managers
  of a new session start from;
- `Tracking`: for every service the newest event still under way, in the channel
  or in the monitor's hand, carries the current status, and when there is none
  the flag agrees with the status already.

`Tracking` is the heart: it says that whichever of the two writers is last, the
newest value is written last, unless the newest event was lost.

**BridgeInstanceProofs** proves about sessions twice. For `Spec` of
BridgeSession, any set of callers and senders with nothing known about when they
call: `OneLive`, `LiveIsActive`, `SessionOwnsChannel`, `BusyHasSession`,
`WaitsEnd`, and the refinement `RefinesLifecycle`. For `InstanceSpec`, the callers
the program has, in any mode, through any number of starts and stops:
`SessionsInv`, `SessionOwnsChannel`, `StopWaitsForSession` and the refinement. The
second rests on the first: `NextMoves` and `InstanceMove` take both next-state
relations to the same few moves (`StepCases`), so that the invariant of the
sessions (`Sessions`) and the refinement (`LifecycleStep`) are shown once, of a
move. `Sessions` adds `OneHolder` (one caller holds `b.lock`): then the abstract
phase is that of the holder (`PhaseOfHolder`). It also says that `WaitExit` was made
before goroutines are counted in it. `InstanceIInv` adds `WaitsForBusy`: when
`Stop` waits, the WaitGroup it waits on is busy, and so belongs to the session that
holds the lock; no session can replace it before it is done, since the next
one's make waits for the same lock. What this does not say is that the session was
told to end, and indeed it may not have been (`StopWait` in section 3).

**MumblePresenceProofs** proves `PresenceInv`, `NoInheritedTimer` and that
MumblePresence implements PresenceLifecycle. `IInv` has

- `PlacesAgree`: for each place of the loop, whether the presence is active,
  whether it has a manager, and whether audio may run. This is what the order of
  `StopDiscordPresence` (audio, manager, flags, presence, users) amounts to;
- `TimersAgree`: a loop that has been told to die does not come back to its select,
  and the timer that ends the presence is set only while there is one to end: a
  `DisconnectTimeout` never leaves from away;
- `LatchAgrees`: a pipeline whose latch is open was not announced yet.

Slow and failing lookups, flags with two writers and a `Stop` at any time change
none of these, which is why the refinement holds in spite of them. That a
pipeline starts without a timer (`NoInheritedTimer`) is an action property, from
the types alone.

**EventDispatcherProofs** proves `EventsInv` and `StopDrains` for every finite
set of emitters, every buffer and any number of events and stops. `IInv` says
that an event is held once (`HeldOnce`) and at one place (`OnePlace`); that
emitters about to retry count like losses, so that losses and retries are at most
twice the dropped (`LossCounted`, without which the retry's second loss would
have nothing to rest on); and that the worker leaves only when nothing that
`Stop` found is left (`WorkerDrains`).

**MumbleForwarderProofs** proves `LoopInv` and `ChannelsIntact` for any channels,
any number of late reports and of earlier clients. `IInv` adds the status that
goes with each place of the loop (`StatusOfLoop`), that a stop cancels the context
first (`StopIsLate`), that a client that has gone leaves an event, a report or a
cancelled context behind (`LossIsKnown`), and that a loop that is done has no
client (`DoneIsAlone`). `EnoughAssumption` lets the bound `MaxEvents` hold the
reports of all earlier clients; `ChannelAssumption` lets a new client have a
channel that the forwarder does not hold.

**DiscordClientProofs** proves `DiscordInv` for every timeout, number of starts
and time before a reset. For the voice manager `IInv` has `StatusOfLoop`,
`StopIsLate`, `OpenWhileWatched` (between `Open` and `Leave` the connection is open
unless `Stop` took it) and `MonitorAfresh`; for the client `LatestWatches`: loops
are started one context after the other, each watches its own context or a later
one, and the latest is not cancelled while monitoring is on.

Both manager modules also prove `ReportsAreKnown`: every change of the status is
one of those ConnectionStatus lists. This discharges what ConnectionState
assumes of the managers, and ties the three developments together.

**ToDiscordProofs** is about both halves of the way to Discord. `StreamsInv` is
proved for any number of streams and any sizes. One conjunct is added: a reader
that holds its stream's mutex has a chunk to send (`SendersHaveChunks`). That a
receive never waits rests on the mixer being the only one that takes, and on the
decision how much to take fitting the length it saw (`ToTakeFits`).

`SenderInv` is proved for every buffer, grace, count of silence frames and skew
(`SpeaksInSpurtsOrRefused`), with calls of `SetSpeaking` that fail or find no
connection: outside a spurt the bot is shown speaking only if the call that ended
the last one failed. `GraceKept` is added: the grace is used up only where the
spurt is being ended.
`BufferHoldsSkew` proves `DropsAfterCloseOnly` for `BufferSize >= Skew`, with any
grace and any speech: the code's three frames bear 30 ms of lateness. The
hypothesis is about the buffer only, and as the program is built it holds when the
lateness of a ticker does not exceed a frame and a half. The invariant is
`BacklogFollowsLead`: unless the sender has been busy with the silence that ends a
spurt since it last found the buffer empty, what the mixer has put in and the
sender has not taken is bounded by how far the mixer leads. A sender that is in
the middle of that silence takes nothing, and a frame that comes then may find
the buffer full whatever its size: TLC shows such drops, and that is why the
property excepts them.

**DiscordReceiveProofs** proves `ReceiveInv` for any speakers, any range of
sequence numbers and any sizes. `GapIsLossAlways` is arithmetic, from a lemma on
`%` within one wrap (`Wrap`). That a decoded packet finds its entry rests on
`DecodingIsFresh`: an entry is no older than the decoding has lasted, and the
cleanup wants it older. `SilenceIsQuiet` says that silence is sent while nothing
plays.

Only model-checked: liveness (`HealthyEventuallyReady`, `SessionsMoveOn`,
`ConstantComesBack`, `UsersGetBridge`, `EmptyBridgeStops`, the three of
`presence_live`, `StopReturns`, `StaysConnected`, `AudioReachesClient`,
`MonitorsLeave`, `UnreadyReset`, `UnhealthyReplaced`, `ReadersLeave`, `SpeechEnds`,
`SpeechFlows`, `QuietEnds`), which needs fairness and so `ENABLED`, beyond this
prover. What a recursive definition computes for every input cannot be proved
either (induction over data); no module here needs it, and none declares a
`RECURSIVE` operator.

## 5. What is not modelled

- *Sleep ticker*: every call in the program passes FALSE for `pause`, so `Notify`
  has no effect, and what is left is a ticker with a fixed distance. Its users'
  lateness is `Skew` in DiscordSender.
- *Sound*: samples, their sum (which is not saturated), encoder and decoder
  states, and the encoder's errors.
- *Names of users, join and leave messages, text relay*: only whether a side has
  users matters to what is checked so far.
- *Link in mumble mode*: starts a whole session beside the presence; it needs
  both modules over one `BridgeState`.
- *The rest of the adapter, metrics, logger, command line*: translation of the
  library's calls and events, and I/O, with no control state.
- *`UpdateConfig`*: the same steps as `UpdateAddress`.
- *Recovery of a panicking monitor* (`bridge.go`, `monitorConnectionEvents`):
  nothing the monitor calls panics in the model.

## 6. Plan

The order is by how much the rest depends on a part.

1. `ConnectionState` and its proofs. *Done.*
2. `BridgeLifecycle`, `BridgeSession` with proofs and refinement,
   `BridgeInstance`, which composes a session with the instance. *Done.*
3. `MumblePresence`. *Done.*
4. `EventDispatcher`. *Done.*
5. `MumbleConnection` and `DiscordVoice`, tied to 1 by `ReportsAreKnown`, with
   proofs. *Done.*
6. Audio: `DiscordSender`, `DiscordReceive`, `MumbleStreams` and
   `MumbleForwarder`, which composes the forwarder with the Mumble manager, with
   proofs. *Done.*
7. `DiscordClient`, the shared client and its monitor composed with the voice
   manager, with proofs. *Done.*
8. Proofs of the dispatcher's accounting. *Done.*
9. `Roster`: the two user maps and their three writers, with two users. Property:
   the maps agree with the channels once events are drained.
10. The link command in mumble mode: MumblePresence and BridgeSession over one
    `BridgeState`. Property: the session and the presence do not take each other's
    manager down.
11. Proofs of MumblePresence with the refinement of PresenceLifecycle, and of
    BridgeInstance. *Done.*
12. An abstract specification that both connection managers implement (claims a
    connection only while it holds one, and none after `Stop`), in place of
    `ReportsAreKnown` and the invariants of each.
13. Order: the events of one emitter reach the handlers in the order in which they
    were emitted, whatever is dropped.
