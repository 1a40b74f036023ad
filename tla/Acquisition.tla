----------------------------- MODULE Acquisition -----------------------------
(***************************************************************************)
(* The acquisition life cycle of one device (devices/basedevice.cpp and    *)
(* devices/hardwaredevice.cpp): the GUI thread opens, pauses, restarts and *)
(* closes the device while the acquisition thread starts and runs the      *)
(* sigrok session, which calls data_feed_in() for every packet.            *)
(*                                                                         *)
(* The two threads share aquisition_state_ without a lock, so every        *)
(* assignment of it is a step of its own.  libsigrok is external: start()  *)
(* and run() may fail at any time, stop() has an effect only on a session  *)
(* that has been started, and run() returns when it was asked to stop or   *)
(* when the device gives up.                                               *)
(***************************************************************************)
EXTENDS Naturals, Sequences

CONSTANTS
  UsesFrames,   (* TRUE iff the driver wraps its analog packets in frames  *)
  MaxStored,    (* bound: analog packets stored in one behaviour           *)
  MaxFrames     (* bound: frames begun in one behaviour                    *)

ASSUME ConstantsOK == /\ UsesFrames \in BOOLEAN
                      /\ MaxStored \in Nat
                      /\ MaxFrames \in Nat

VARIABLES
  kind,         (* "hardware", or "user": a UserDevice has no acquisition  *)
  caller,       (* where the GUI thread is inside open() or close()        *)
  reopen,       (* the close() under way was called by open()              *)
  isOpen,       (* is_open_                                                *)
  state,        (* aquisition_state_                                       *)
  thread,       (* aquisition_thread_ and its place in the thread proc     *)
  crashed,      (* a joinable std::thread was overwritten: std::terminate  *)
  callbacks,    (* datafeed callbacks registered with sr_session_          *)
  inSession,    (* sr_device_ has been added to sr_session_                *)
  deviceOpen,   (* sr_device_ is open                                      *)
  srSession,    (* the sigrok session: "idle", "started" or "stopping"     *)
  driverFrame,  (* number of the frame the driver is in, 0 between frames  *)
  framesSent,   (* frames begun so far                                     *)
  frameBegan,   (* frame_began_                                            *)
  frameStart,   (* frame_start_timestamp_, as the number of its frame      *)
  feeding,      (* data_feed_in() is working on an analog packet           *)
  stored,       (* samples stored, each with its frame and its time stamp  *)
  sincePause    (* packets stored since the last pause_aquisition()        *)

guiVars    == <<caller, reopen, isOpen>>
sigrokVars == <<callbacks, inSession, deviceOpen, srSession>>
frameVars  == <<driverFrame, framesSent, frameBegan, frameStart>>
dataVars   == <<feeding, stored, sincePause>>
vars == <<kind, guiVars, state, thread, crashed, sigrokVars, frameVars, dataVars>>

States  == {"Stopped", "Running", "Paused"}
NoFrame == 0
Sample  == [frame : Nat, stamp : Nat]

(* The acquisition thread exists and has not returned from its procedure.  *)
Alive == thread \in {"starting", "started", "running", "ended"}

-----------------------------------------------------------------------------
(* The constructor does not initialise aquisition_state_.                  *)
Init ==
  /\ kind \in {"hardware", "user"}
  /\ caller = "idle" /\ reopen = FALSE /\ isOpen = FALSE
  /\ state \in States
  /\ thread = "none" /\ crashed = FALSE
  /\ callbacks = 0 /\ inSession = FALSE /\ deviceOpen = FALSE
  /\ srSession = "idle"
  /\ driverFrame = NoFrame /\ framesSent = 0
  /\ frameBegan = FALSE /\ frameStart = NoFrame
  /\ feeding = FALSE /\ stored = <<>> /\ sincePause = 0

-----------------------------------------------------------------------------
(* Plausible bugs, put in the place of the definitions they are named      *)
(* after to see that the properties notice them.                           *)
MustCloseFirstDropped     == FALSE
JoinedSkipped             == TRUE
JoinedNeverExited         == thread = "none"
RemoveCallbacksForgotten  == UNCHANGED callbacks
ReportRunningForgotten    == UNCHANGED state
FeedInFrameBeginIfRunning(frame) ==
  IF state = "Running" THEN frameBegan' = TRUE /\ frameStart' = frame
                       ELSE UNCHANGED <<frameBegan, frameStart>>
AcceptingAlways           == TRUE

-----------------------------------------------------------------------------
(* GUI thread.                                                             *)

(* sr_session_->stop(): without effect on a session not yet started.       *)
StopSession ==
  srSession' = IF srSession = "started" THEN "stopping" ELSE srSession

(* open(): an open device is closed first.                                 *)
MustCloseFirst == isOpen

CallOpen ==
  /\ caller = "idle"
  /\ IF MustCloseFirst
       THEN caller' = "join" /\ reopen' = TRUE /\ StopSession
       ELSE caller' = "open" /\ UNCHANGED <<reopen, srSession>>
  /\ UNCHANGED <<kind, isOpen, state, thread, crashed, callbacks, inSession,
                 deviceOpen, frameVars, dataVars>>

(* The body of open() up to the new thread.  An error of sr_device_->open()*)
(* is swallowed.  A UserDevice has an empty init_acquisition().            *)
OpenDevice ==
  /\ caller = "open"
  /\ deviceOpen' \in BOOLEAN
  /\ inSession' = TRUE
  /\ IF kind = "user"
       THEN /\ caller' = "idle" /\ isOpen' = TRUE
            /\ UNCHANGED <<callbacks, thread, crashed>>
       ELSE /\ callbacks' = callbacks + 1
            /\ crashed' = (crashed \/ thread # "none")
            /\ thread' = "starting"
            /\ caller' = "init" /\ UNCHANGED isOpen
  /\ reopen' = FALSE
  /\ UNCHANGED <<kind, state, srSession, frameVars, dataVars>>

(* init_acquisition() assigns Running after the thread has been spawned.   *)
FinishOpen ==
  /\ caller = "init"
  /\ state' = "Running"
  /\ isOpen' = TRUE /\ caller' = "idle"
  /\ UNCHANGED <<kind, reopen, thread, crashed, sigrokVars, frameVars, dataVars>>

(* close() up to the join; it returns at once when the device is not open. *)
CallClose ==
  /\ caller = "idle" /\ isOpen
  /\ caller' = "join"
  /\ StopSession
  /\ UNCHANGED <<kind, reopen, isOpen, state, thread, crashed, callbacks,
                 inSession, deviceOpen, frameVars, dataVars>>

(* aquisition_thread_.join() returns, or there is no thread to join.       *)
Joined == thread \in {"none", "exited"}

RemoveCallbacks == callbacks' = 0

(* The rest of close().                                                    *)
FinishClose ==
  /\ caller = "join"
  /\ Joined
  /\ thread' = IF thread = "exited" THEN "none" ELSE thread
  /\ RemoveCallbacks
  /\ state' = "Stopped"
  /\ deviceOpen' = FALSE /\ inSession' = FALSE /\ isOpen' = FALSE
  /\ caller' = IF reopen THEN "open" ELSE "idle"
  /\ UNCHANGED <<kind, reopen, crashed, srSession, frameVars, dataVars>>

StartAquisition ==
  /\ caller = "idle"
  /\ state' = "Running"
  /\ UNCHANGED <<kind, guiVars, thread, crashed, sigrokVars, frameVars, dataVars>>

PauseAquisition ==
  /\ caller = "idle"
  /\ state' = "Paused"
  /\ sincePause' = 0
  /\ UNCHANGED <<kind, guiVars, thread, crashed, sigrokVars, frameVars, feeding,
                 stored>>

Gui == \/ CallOpen \/ OpenDevice \/ FinishOpen \/ CallClose \/ FinishClose
       \/ StartAquisition \/ PauseAquisition

-----------------------------------------------------------------------------
(* Acquisition thread: aquisition_thread_proc().                           *)

StartSession ==
  /\ thread = "starting"
  /\ deviceOpen /\ inSession
  /\ thread' = "started" /\ srSession' = "started"
  /\ UNCHANGED <<kind, guiVars, state, crashed, callbacks, inSession,
                 deviceOpen, frameVars, dataVars>>

(* start() throws: the error is reported and the state is left as it is.   *)
StartSessionFails ==
  /\ thread = "starting"
  /\ thread' = "exited"
  /\ UNCHANGED <<kind, guiVars, state, crashed, sigrokVars, frameVars, dataVars>>

ReportRunning == state' = "Running"

SetRunning ==
  /\ thread = "started"
  /\ ReportRunning
  /\ thread' = "running"
  /\ UNCHANGED <<kind, guiVars, crashed, sigrokVars, frameVars, dataVars>>

(* run() returns or throws.  The driver may have closed the device when it *)
(* stopped, and it may have stopped in the middle of a frame.              *)
RunReturns ==
  /\ thread = "running" /\ ~feeding
  /\ thread' = "ended" /\ srSession' = "idle"
  /\ deviceOpen' \in {FALSE, deviceOpen}
  /\ driverFrame' = NoFrame
  /\ UNCHANGED <<kind, guiVars, state, crashed, callbacks, inSession,
                 framesSent, frameBegan, frameStart, dataVars>>

SetStopped ==
  /\ thread = "ended"
  /\ state' = "Stopped" /\ thread' = "exited"
  /\ UNCHANGED <<kind, guiVars, crashed, sigrokVars, frameVars, dataVars>>

-----------------------------------------------------------------------------
(* data_feed_in(), called by run() for one packet after the other.         *)

Delivering == thread = "running" /\ ~feeding /\ callbacks > 0

FeedInFrameBegin(frame) == frameBegan' = TRUE /\ frameStart' = frame

FrameBegin ==
  /\ Delivering /\ UsesFrames
  /\ driverFrame = NoFrame /\ framesSent < MaxFrames
  /\ driverFrame' = framesSent + 1 /\ framesSent' = framesSent + 1
  /\ FeedInFrameBegin(framesSent + 1)
  /\ UNCHANGED <<kind, guiVars, state, thread, crashed, sigrokVars, dataVars>>

FrameEnd ==
  /\ Delivering /\ driverFrame # NoFrame
  /\ driverFrame' = NoFrame /\ frameBegan' = FALSE
  /\ UNCHANGED <<kind, guiVars, state, thread, crashed, sigrokVars, framesSent,
                 frameStart, dataVars>>

(* An analog packet is dropped unless the state is Running; logic packets  *)
(* take the same branch and store nothing.                                 *)
Accepting == state = "Running"

AnalogPacket ==
  /\ Delivering
  /\ UsesFrames => driverFrame # NoFrame
  /\ Accepting /\ Len(stored) < MaxStored
  /\ feeding' = TRUE
  /\ UNCHANGED <<kind, guiVars, state, thread, crashed, sigrokVars, frameVars,
                 stored, sincePause>>

(* feed_in_analog(): the time stamp is that of the frame, or the current   *)
(* time (abstracted to NoFrame) outside a frame.                           *)
FeedInAnalog ==
  /\ thread = "running" /\ feeding
  /\ stored' = Append(stored,
       [frame |-> driverFrame,
        stamp |-> IF frameBegan THEN frameStart ELSE NoFrame])
  /\ sincePause' = IF state = "Paused" THEN sincePause + 1 ELSE sincePause
  /\ feeding' = FALSE
  /\ UNCHANGED <<kind, guiVars, state, thread, crashed, sigrokVars, frameVars>>

Thread == \/ StartSession \/ StartSessionFails \/ SetRunning \/ RunReturns
          \/ SetStopped \/ FrameBegin \/ FrameEnd \/ AnalogPacket \/ FeedInAnalog

Next == Gui \/ Thread

Spec == Init /\ [][Next]_vars

(* The GUI thread finishes the calls it is in, the acquisition thread is   *)
(* scheduled, and a session that was told to stop returns from run().      *)
(* Nothing obliges a user to open, close, start or pause, a driver to send *)
(* packets, or a session nobody stopped to end.                            *)
Fairness ==
  /\ WF_vars(OpenDevice \/ FinishOpen \/ FinishClose)
  /\ WF_vars(StartSession \/ StartSessionFails \/ SetRunning \/ SetStopped
             \/ FeedInAnalog)
  /\ WF_vars(srSession = "stopping" /\ RunReturns)

FairSpec == Spec /\ Fairness

-----------------------------------------------------------------------------
TypeOK ==
  /\ kind \in {"hardware", "user"}
  /\ caller \in {"idle", "open", "init", "join"}
  /\ reopen \in BOOLEAN /\ isOpen \in BOOLEAN
  /\ state \in States
  /\ thread \in {"none", "starting", "started", "running", "ended", "exited"}
  /\ crashed \in BOOLEAN
  /\ callbacks \in Nat
  /\ inSession \in BOOLEAN /\ deviceOpen \in BOOLEAN
  /\ srSession \in {"idle", "started", "stopping"}
  /\ driverFrame \in Nat /\ framesSent \in Nat
  /\ frameBegan \in BOOLEAN /\ frameStart \in Nat
  /\ feeding \in BOOLEAN
  /\ stored \in Seq(Sample)
  /\ sincePause \in Nat

(* Opening a device never overwrites the handle of a thread that has not   *)
(* been joined, which would end the program (open() closes first).         *)
NeverTerminates == ~crashed

(* Once close() has returned nothing of the acquisition is left: no thread,*)
(* no callback, no packet half stored, no open or registered sigrok device.*)
ClosedIsQuiet ==
  caller = "idle" /\ ~isOpen =>
    /\ thread = "none" /\ callbacks = 0 /\ ~feeding
    /\ ~inSession /\ ~deviceOpen /\ srSession = "idle"

(* The acquisition thread only runs a session that has the device, opened, *)
(* and exactly one callback: no sample is fed in twice or from a closed    *)
(* device, whatever open() and close() do meanwhile.                       *)
RunsOnOpenDevice ==
  thread \in {"started", "running"} =>
    callbacks = 1 /\ inSession /\ deviceOpen /\ srSession # "idle"

(* While the session runs the device is never shown as stopped, so no      *)
(* sample is dropped that the user did not ask to drop.                    *)
LiveIsNotStopped == thread = "running" => state # "Stopped"

(* data_feed_in() tests the state before it stores and takes no lock: a    *)
(* pause may be overtaken by the one packet already past the test, never   *)
(* by a second one.                                                        *)
AtMostOneAfterPause == state = "Paused" => sincePause <= 1

(* A sample measured in a frame carries the time stamp of that frame, also *)
(* when the frame began while the acquisition was paused.                  *)
StampOfOwnFrame ==
  \A i \in DOMAIN stored : stored[i].stamp = stored[i].frame

(* close() returns, and so does the close() inside open(), whenever its    *)
(* stop() reached a session that had been started.                         *)
CloseReturns == (caller = "join" /\ srSession = "stopping") ~> (caller # "join")

(* The device implements the recorder: it is open as long as a callback is *)
(* registered.                                                             *)
Abstract == INSTANCE Recorder WITH open <- callbacks > 0, log <- stored
ImplementsRecorder == Abstract!Spec
=============================================================================
