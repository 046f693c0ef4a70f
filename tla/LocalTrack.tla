----------------------------- MODULE LocalTrack -----------------------------
(***************************************************************************)
(* A track that plays a file: the WebRTC library binds it to a connection   *)
(* and unbinds it, a callback started by the binding hands it the sampler,  *)
(* and a goroutine per start, the write worker, takes samples and writes    *)
(* them until its context is cancelled.  Each worker cancels the one before *)
(* it through a field it reads without the lock, and a worker that was told  *)
(* to stop sees it only while it waits: two may ask the sampler, which has  *)
(* no lock either, at once.                                                 *)
(*                                                                         *)
(* What rtcpWorker notes (ssrcAcked) only matters to simulcast layers,      *)
(* which no part of the program makes.                                      *)
(***************************************************************************)
EXTENDS Integers, FiniteSets

CONSTANTS
  MaxBinds,  \* bound: how often the track is bound
  Frames     \* frames of the file (0: it holds none)

ASSUME LocalTrackAssumption == MaxBinds \in Nat /\ Frames \in Nat

VARIABLES
  alive,     \* the process runs
  binds,     \* how often the track was bound
  bound,     \* LocalTrack.bound
  bpc,       \* where Bind or Unbind stands
  provider,  \* the sampler was handed over
  found,     \* in Bind: it found the sampler
  taken,     \* in Unbind: the worker whose context it is going to cancel
  callbacks, \* onBind goroutines that have not run yet
  cancelWrite, \* the worker whose context the field cancels; 0: nil
  wpc,       \* where each worker stands
  cancelled, \* workers whose context is cancelled
  codec,     \* the looper that reads the file
  pos,       \* frames the looper's reader has delivered
  lastGranule, \* AudioLooperOpus.lastGranule
  due,       \* the duration of the last sample, in frames
  missed,    \* history: workers that were just starting when Unbind came
  raced,     \* history: workers that started at the same time, see Races
  mixed      \* history: workers in NextSample who are or were not alone in it

binding  == <<binds, bound, bpc, provider, found, taken, callbacks>>
history  == <<missed, raced>>
writing  == <<cancelWrite, wpc, cancelled, history>>
sampler  == <<codec, pos, lastGranule, due, mixed>>
trackVars == <<binding, writing, sampler>>

Worker == 1..(MaxBinds + 1)

\* Workers that have cancelled their predecessor but not set the field yet,
\* or not even begun.
Starting == {w \in Worker : wpc[w] \in {"new", "set"}}

\* go writeWorker
Spawn == [wpc EXCEPT ![CHOOSE w \in Worker : wpc[w] = "none" /\ \A v \in 1..(w - 1) : wpc[v] # "none"] = "new"]

-----------------------------------------------------------------------------
(* A track is made for a file; each kind has its looper, which the callback  *)
(* that the track registers hands over.                                      *)

NewLocalLooperH264Track == codec' = "h264"
NewLocalLooperVP8Track  == codec' = "vp8"
NewLocalLooperOpusTrack == codec' = "opus"

-----------------------------------------------------------------------------
(* Bind, called by the library when the track was negotiated. *)

Bind ==
  /\ bpc = "idle"
  /\ ~bound
  /\ binds < MaxBinds
  /\ binds' = binds + 1
  /\ bound' = TRUE
  /\ found' = provider
  /\ bpc' = "bind"
  /\ UNCHANGED <<provider, taken, callbacks, writing, sampler>>

\* Bind after the lock: the worker, the reader of RTCP, the callback.
BindStarts ==
  /\ bpc = "bind"
  /\ bpc' = "idle"
  /\ wpc' = IF found THEN Spawn ELSE wpc
  /\ found' = FALSE
  /\ callbacks' = callbacks + 1
  /\ UNCHANGED <<binds, bound, provider, taken, cancelWrite, cancelled, history, sampler>>

\* payloaderForCodec or the library refuses the codec.
BindFails ==
  /\ bpc = "idle"
  /\ ~bound
  /\ UNCHANGED <<binds, bound, bpc, provider, found, taken, callbacks, writing, sampler>>

\* The callback registered with OnBind runs in its own goroutine.
OnBind == callbacks > 0 /\ callbacks' = callbacks - 1

\* Faulty variant: a track that is bound is taken to be written already.
StartWriteNever ==
  /\ OnBind
  /\ provider' = TRUE
  /\ UNCHANGED <<binds, bound, bpc, found, taken, writing, sampler>>

\* The callback calls StartWrite with the looper, under the lock.
StartWrite ==
  /\ OnBind
  /\ provider' = TRUE
  /\ wpc' = IF ~provider /\ bound THEN Spawn ELSE wpc
  /\ UNCHANGED <<binds, bound, bpc, found, taken, cancelWrite, cancelled, history, sampler>>

\* Unbind under the lock.  A worker that has not set the field by now will
\* not be stopped by it.
Unbind ==
  /\ bpc = "idle"
  /\ bound
  /\ bound' = FALSE
  /\ taken' = cancelWrite
  /\ bpc' = "unbind"
  /\ missed' = missed \cup Starting
  /\ UNCHANGED <<binds, provider, found, callbacks, cancelWrite, wpc, cancelled, raced, sampler>>

\* Faulty variant: the context is not cancelled.
UnbindKeeps ==
  /\ bpc = "unbind"
  /\ bpc' = "idle"
  /\ UNCHANGED <<binds, bound, provider, found, taken, callbacks, writing, sampler>>

UnbindCancels ==
  /\ bpc = "unbind"
  /\ bpc' = "idle"
  /\ cancelled' = cancelled \cup ({taken} \ {0})
  /\ taken' = 0
  /\ UNCHANGED <<binds, bound, provider, found, callbacks, cancelWrite, wpc, history, sampler>>

-----------------------------------------------------------------------------
(* writeWorker. *)

\* Two workers that start at the same time may cancel the same predecessor;
\* the field then keeps only one of them.
Races(w) == IF Starting \ {w} = {} THEN {} ELSE Starting

\* Faulty variant: the predecessor goes on.
WriteWorkerBeside(w) ==
  /\ wpc[w] = "new"
  /\ wpc' = [wpc EXCEPT ![w] = "set"]
  /\ raced' = raced \cup Races(w)
  /\ UNCHANGED <<binding, cancelWrite, cancelled, missed, sampler>>

\* The field is read without the lock and the predecessor cancelled.
WriteWorker(w) ==
  /\ wpc[w] = "new"
  /\ wpc' = [wpc EXCEPT ![w] = "set"]
  /\ cancelled' = cancelled \cup ({cancelWrite} \ {0})
  /\ raced' = raced \cup Races(w)
  /\ UNCHANGED <<binding, cancelWrite, missed, sampler>>

\* NextSample has no lock: who calls it may not be alone in it.
CallNextSample(w) ==
  LET inside == {v \in Worker : wpc[v] = "sample"}
  IN  /\ wpc' = [wpc EXCEPT ![w] = "sample"]
      /\ mixed' = IF inside = {} THEN mixed ELSE mixed \cup inside \cup {w}
      /\ UNCHANGED <<binding, cancelled, history, codec, pos, lastGranule, due>>

\* The worker sets the field and takes its first sample.
SetCancelWrite(w) ==
  /\ wpc[w] = "set"
  /\ cancelWrite' = w
  /\ CallNextSample(w)

\* The ticker fires, or the worker is behind and does not wait.
NextTick(w) ==
  /\ wpc[w] = "wait"
  /\ CallNextSample(w)
  /\ UNCHANGED cancelWrite

(* The loopers. *)

\* At the end of the file a new reader begins at the first frame, once; without a
\* frame the error ends the worker.
NextSample == IF pos < Frames THEN pos + 1 ELSE 1

GranuleWidth == 8 \* bound: 64 in the code

\* The page n of an Ogg file ends at granule n - 1: the first one is the comment.
GranulePosition(n) == n - 1

\* What workers leave behind who are in NextSample together: some granule of the
\* file, so that the next duration may be a frame or wrapped.
Unknown == -1

\* The unsigned difference; a page that takes no time gets the default duration.
Duration(n, from) ==
  LET count == (GranulePosition(n) - from) % 2^GranuleWidth
  IN  IF from = Unknown THEN Unknown ELSE IF count = 0 THEN 1 ELSE count

\* Parameter units that come between frames take no time.
NextH264 == due' \in {0, 1} /\ UNCHANGED lastGranule

\* The difference of the timestamps, which wraps when the file begins again, is
\* computed and then replaced by the duration of a frame.
NextVP8 == due' = 1 /\ UNCHANGED lastGranule

\* Faulty variant: a new reader goes on counting where the last one ended.
NextOpusGoesOn ==
  /\ due' = Duration(NextSample, lastGranule)
  /\ lastGranule' = GranulePosition(NextSample)

\* A new reader counts from zero.
NextOpus ==
  /\ due' = Duration(NextSample, IF NextSample = 1 THEN 0 ELSE lastGranule)
  /\ lastGranule' = GranulePosition(NextSample)

\* Nobody else was in NextSample meanwhile.
Alone ==
  /\ pos' = NextSample
  /\ \/ codec = "h264" /\ NextH264
     \/ codec = "vp8" /\ NextVP8
     \/ codec = "opus" /\ NextOpus

\* Reader and granule are read and written without a lock: the page of one worker
\* meets the granule of another, or the zero of a new reader.
Together ==
  /\ pos' \in 0..Frames
  /\ \/ codec = "h264" /\ NextH264
     \/ codec = "vp8" /\ NextVP8
     \/ codec = "opus" /\ due' = Unknown /\ lastGranule' = Unknown

\* NextSample returns a sample and the track writes it, unless the library refuses
\* the packet.
WriteSample(w) ==
  /\ wpc[w] = "sample"
  /\ Frames > 0
  /\ IF w \in mixed THEN Together ELSE Alone
  /\ mixed' = mixed \ {w}
  /\ \E to \in {"wait", "failed"} : wpc' = [wpc EXCEPT ![w] = to]
  /\ UNCHANGED <<binding, cancelWrite, cancelled, history, codec>>

\* NextSample returns an error.
WriteFails(w) ==
  /\ wpc[w] = "sample"
  /\ wpc' = [wpc EXCEPT ![w] = "failed"]
  /\ mixed' = mixed \ {w}
  /\ UNCHANGED <<binding, cancelWrite, cancelled, history, codec, pos, lastGranule, due>>

\* The other worker has set the reader to nil: the process ends, its goroutines with it.
NilReader(w) ==
  /\ wpc[w] = "sample" /\ w \in mixed
  /\ alive' = FALSE
  /\ wpc' = [v \in Worker |-> IF wpc[v] = "none" THEN "none" ELSE "done"]
  /\ mixed' = {}
  /\ UNCHANGED <<binding, cancelWrite, cancelled, history, codec, pos, lastGranule, due>>

\* The context is looked at while the worker waits.
StopWriting(w) ==
  /\ wpc[w] = "wait"
  /\ w \in cancelled
  /\ wpc' = [wpc EXCEPT ![w] = "done"]
  /\ UNCHANGED <<binding, cancelWrite, cancelled, history, sampler>>

-----------------------------------------------------------------------------
InitTrack ==
  /\ binds = 0 /\ bound = FALSE /\ bpc = "idle"
  /\ provider = FALSE /\ found = FALSE /\ taken = 0 /\ callbacks = 0
  /\ cancelWrite = 0
  /\ wpc = [w \in Worker |-> "none"]
  /\ cancelled = {} /\ missed = {} /\ raced = {}
  /\ codec = "none" /\ pos = 0 /\ lastGranule = 0 /\ due = 0
  /\ mixed = {}

TrackStep ==
  \/ BindStarts \/ StartWrite \/ UnbindCancels
  \/ \E w \in Worker :
       \/ WriteWorker(w) \/ SetCancelWrite(w) \/ NextTick(w) \/ WriteSample(w)
       \/ WriteFails(w) \/ StopWriting(w)

TrackTypeOK ==
  /\ binds \in 0..MaxBinds
  /\ bound \in BOOLEAN /\ provider \in BOOLEAN /\ found \in BOOLEAN
  /\ bpc \in {"idle", "bind", "unbind"}
  /\ taken \in {0} \cup Worker
  /\ callbacks \in 0..MaxBinds
  /\ cancelWrite \in {0} \cup {w \in Worker : wpc[w] \notin {"none", "new", "set"}}
  /\ wpc \in [Worker -> {"none", "new", "set", "sample", "wait", "failed", "done"}]
  /\ codec \in {"none", "h264", "vp8", "opus"}
  /\ pos \in 0..Frames /\ lastGranule \in {Unknown} \cup 0..Frames
  /\ due \in {Unknown} \cup 0..2^GranuleWidth
  /\ \A w \in mixed : w \in Worker /\ wpc[w] = "sample"
============================================================================
