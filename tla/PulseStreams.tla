---------------------------- MODULE PulseStreams ----------------------------
(***************************************************************************)
(* The PulseAudio streams of the sound devices: PulseSession and its       *)
(* write callback in crates/cargopit-devices/src/transport.rs, ShakerVoice *)
(* behind its mutex in crates/cargopit/src/devices.rs.                     *)
(*                                                                         *)
(* Two threads share a stream.  The host connects, mixes and releases; the *)
(* thread of PulseAudio's main loop changes a stream's state and runs its  *)
(* write callback.  The main loop's lock keeps them apart, a mutex guards  *)
(* each voice, and the host gives the lock up while it waits for a stream. *)
(***************************************************************************)
EXTENDS Naturals

CONSTANTS
    Shakers,        \* positions of the sound devices in a profile
    PollAttempts    \* PULSE_POLL_ATTEMPTS (50)

NoShaker == 0

ASSUME PulseStreamsAssumption ==
    /\ Shakers \subseteq Nat \ {NoShaker}
    /\ PollAttempts \in Nat

VARIABLES
    context,    \* the session: PulseOutcome once it is open
    server,     \* the state of the session's context, as the server has it
    lock,       \* who holds the main loop's lock
    stream,     \* the state of each stream; "none": not created, or freed
    callback,   \* the streams whose write callback is set
    streams,    \* PulseSession.streams
    connecting, \* connect_shaker_while_locked: the stream being connected
    polls,      \* poll_settled, wait_for_stream: naps taken
    mixing,     \* the voice whose mutex the host holds
    audio       \* the PulseAudio thread: at which call, for which stream

pulse == <<context, server, lock, stream, callback, streams, connecting, polls, mixing,
           audio>>

PulseTypeOK ==
    /\ context \in {"unopened", "none", "settling", "ready", "failed"}
    /\ server \in {"unconnected", "connecting", "ready", "failed"}
    /\ lock \in {"free", "host", "audio"}
    /\ stream \in [Shakers -> {"none", "creating", "ready", "failed"}]
    /\ callback \in SUBSET Shakers
    /\ streams \in SUBSET Shakers
    /\ connecting \in Shakers \cup {NoShaker}
    /\ polls \in 0 .. PollAttempts
    /\ mixing \in Shakers \cup {NoShaker}
    /\ audio \in [at : {"idle", "voice", "write"}, on : Shakers \cup {NoShaker}]

AudioIdle == [at |-> "idle", on |-> NoShaker]

PulseInit ==
    /\ context = "unopened"
    /\ server = "unconnected"
    /\ lock = "free"
    /\ stream = [d \in Shakers |-> "none"]
    /\ callback = {}
    /\ streams = {}
    /\ connecting = NoShaker
    /\ polls = 0
    /\ mixing = NoShaker
    /\ audio = AudioIdle

-----------------------------------------------------------------------------
(* The host opens its session, and closes it. *)

\* open_pulse with --disable-audio: there is none.
AudioDisabled ==
    /\ context = "unopened"
    /\ context' = "none"
    /\ UNCHANGED <<server, lock, stream, callback, streams, connecting, polls, mixing, audio>>

\* No main loop or context can be made, or reject_context: it is not started,
\* or not connected.
RejectContext ==
    /\ context = "unopened"
    /\ lock = "free"
    /\ context' = "failed"
    /\ UNCHANGED <<server, lock, stream, callback, streams, connecting, polls, mixing, audio>>

\* PulseSession::open as far as poll_settled.
BeginSession ==
    /\ context = "unopened"
    /\ lock = "free"
    /\ context' = "settling"
    /\ server' = "connecting"
    /\ polls' = 0
    /\ UNCHANGED <<lock, stream, callback, streams, connecting, mixing, audio>>

\* poll_settled looks under the lock, and naps without it.
PollSettled ==
    /\ context = "settling"
    /\ lock = "free"
    /\ server = "connecting"
    /\ polls < PollAttempts
    /\ polls' = polls + 1
    /\ UNCHANGED <<context, server, lock, stream, callback, streams, connecting, mixing, audio>>

\* outcome_from_state: of the state it found, or of none.  A context that settles
\* later is never looked at again.
Settled ==
    /\ context = "settling"
    /\ lock = "free"
    /\ \/ polls < PollAttempts /\ server # "connecting"
       \/ polls = PollAttempts
    /\ context' = IF polls < PollAttempts /\ server = "ready" THEN "ready" ELSE "failed"
    /\ polls' = 0
    /\ UNCHANGED <<server, lock, stream, callback, streams, connecting, mixing, audio>>

-----------------------------------------------------------------------------
(* The host connects a stream. *)

\* No context, or the stream cannot be created or connected: nothing is left
\* of it.
CannotConnect ==
    /\ connecting = NoShaker
    /\ context = "ready" => lock = "free"
    /\ UNCHANGED pulse

\* connect_shaker_locked as far as wait_for_stream's first look.
BeginConnect(d) ==
    /\ connecting = NoShaker
    /\ context = "ready"
    /\ server = "ready"
    /\ lock = "free"
    /\ lock' = "host"
    /\ connecting' = d
    /\ stream' = [stream EXCEPT ![d] = "creating"]
    /\ polls' = 0
    /\ UNCHANGED <<context, server, callback, streams, mixing, audio>>

Waiting == connecting # NoShaker /\ lock = "host"

FaultNapForever ==
    /\ Waiting
    /\ stream[connecting] = "creating"
    /\ lock' = "free"
    /\ UNCHANGED <<context, server, stream, callback, streams, connecting, polls, mixing,
                   audio>>

\* The stream has not settled: unlock and sleep.
Nap ==
    /\ Waiting
    /\ stream[connecting] = "creating"
    /\ polls < PollAttempts
    /\ lock' = "free"
    /\ polls' = polls + 1
    /\ UNCHANGED <<context, server, stream, callback, streams, connecting, mixing, audio>>

\* ... and lock again.
Relock ==
    /\ connecting # NoShaker
    /\ lock = "free"
    /\ lock' = "host"
    /\ UNCHANGED <<context, server, stream, callback, streams, connecting, polls, mixing,
                   audio>>

\* The stream is ready: its write callback is set and the session keeps it.
Connected ==
    /\ Waiting
    /\ stream[connecting] = "ready"
    /\ callback' = callback \cup {connecting}
    /\ streams' = streams \cup {connecting}
    /\ connecting' = NoShaker
    /\ polls' = 0
    /\ lock' = "free"
    /\ UNCHANGED <<context, server, stream, mixing, audio>>

\* release_stream
Released(ds) == [d \in Shakers |-> IF d \in ds THEN "none" ELSE stream[d]]

\* It failed, or had no answer in time.
NotConnected ==
    /\ Waiting
    /\ \/ stream[connecting] = "failed"
       \/ stream[connecting] = "creating" /\ polls = PollAttempts
    /\ stream' = Released({connecting})
    /\ connecting' = NoShaker
    /\ polls' = 0
    /\ lock' = "free"
    /\ UNCHANGED <<context, server, callback, streams, mixing, audio>>

-----------------------------------------------------------------------------
(* The host mixes, and lets the streams go. *)

HostFree == connecting = NoShaker /\ mixing = NoShaker

\* write_sound locks the voice to update it ...
BeginMix(d) ==
    /\ HostFree
    /\ ~(audio.at = "write" /\ audio.on = d)
    /\ mixing' = d
    /\ UNCHANGED <<context, server, lock, stream, callback, streams, connecting, polls,
                   audio>>

\* ... and unlocks it.
EndMix ==
    /\ mixing # NoShaker
    /\ mixing' = NoShaker
    /\ UNCHANGED <<context, server, lock, stream, callback, streams, connecting, polls,
                   audio>>

FaultReleaseUnlocked ==
    /\ HostFree
    /\ stream' = Released(streams)
    /\ callback' = callback \ streams
    /\ streams' = {}
    /\ UNCHANGED <<context, server, lock, connecting, polls, mixing, audio>>

\* Under the lock, every stream loses its callbacks and is disconnected.
DisconnectShakers ==
    /\ HostFree
    /\ lock = "free"
    /\ stream' = Released(streams)
    /\ callback' = callback \ streams
    /\ streams' = {}
    /\ UNCHANGED <<context, server, lock, connecting, polls, mixing, audio>>

\* Drop of the session: the streams, then shutdown_pulse, which ends the other
\* thread; the next session opens its own.
CloseSession ==
    /\ HostFree
    /\ lock = "free"
    /\ context \in {"none", "ready", "failed"}
    /\ context' = "unopened"
    /\ server' = "unconnected"
    /\ stream' = Released(streams)
    /\ callback' = callback \ streams
    /\ streams' = {}
    /\ UNCHANGED <<lock, connecting, polls, mixing, audio>>

-----------------------------------------------------------------------------
(* PulseAudio's thread, which dispatches under the lock. *)

\* The server lets the context in, refuses it, or goes away with its streams.
ContextMoves ==
    /\ lock = "free"
    /\ \/ server = "connecting" /\ server' \in {"ready", "failed"} /\ stream' = stream
       \/ /\ server = "ready"
          /\ server' = "failed"
          /\ stream' = [d \in Shakers |-> IF stream[d] = "none" THEN "none" ELSE "failed"]
    /\ UNCHANGED <<context, lock, callback, streams, connecting, polls, mixing, audio>>

\* The server answers, or gives a stream up.
ServerMoves(d) ==
    /\ lock = "free"
    /\ \/ stream[d] = "creating" /\ stream' = [stream EXCEPT ![d] = "ready"]
       \/ /\ stream[d] \in {"creating", "ready"}
          /\ stream' = [stream EXCEPT ![d] = "failed"]
    /\ UNCHANGED <<context, server, lock, callback, streams, connecting, polls, mixing,
                   audio>>

\* The server wants data: write_playback of the stream d.
WritePlayback(d) ==
    /\ lock = "free"
    /\ stream[d] = "ready"
    /\ d \in callback
    /\ lock' = "audio"
    /\ audio' = [at |-> "voice", on |-> d]
    /\ UNCHANGED <<context, server, stream, callback, streams, connecting, polls, mixing>>

\* render_voice waits for the voice's mutex.
RenderVoice ==
    /\ audio.at = "voice"
    /\ mixing # audio.on
    /\ audio' = [audio EXCEPT !.at = "write"]
    /\ UNCHANGED <<context, server, lock, stream, callback, streams, connecting, polls,
                   mixing>>

\* write_bytes through the raw pointer; the callback returns.
WriteBytes ==
    /\ audio.at = "write"
    /\ audio' = AudioIdle
    /\ lock' = "free"
    /\ UNCHANGED <<context, server, stream, callback, streams, connecting, polls, mixing>>

AudioThread ==
    \/ ContextMoves
    \/ \E d \in Shakers : ServerMoves(d) \/ WritePlayback(d)
    \/ RenderVoice
    \/ WriteBytes

-----------------------------------------------------------------------------
(* Properties *)

\* The callback and wait_for_stream reach a stream through a raw pointer: while
\* either is under way, or may still start, its stream has not been freed.
PointersAreLive ==
    /\ audio.at # "idle" => stream[audio.on] # "none"
    /\ connecting # NoShaker => stream[connecting] # "none"
    /\ \A d \in callback : stream[d] # "none"
=============================================================================
