--------------------------- MODULE MCHostLiveness ---------------------------
(* The viewer, the web server and one capture session.  They do not share state
   here; one of them acts in a behaviour. *)
EXTENDS Viewer, WebServer

VARIABLES pc, opens, runs, losses, seq, runSeq, stopSeq, failure, lowered, released, verdict,
          reader, received, espIn, espOut, acquiring, outputs, stats, fpga, stream, pipe, usb
Capture == INSTANCE Session WITH MaxOpens <- 1, MaxRuns <- 1, MaxUnits <- 1,
                                 MaxLosses <- 1, UsbSize <- 1
session == <<pc, opens, runs, losses, seq, runSeq, stopSeq, failure, lowered, released, verdict,
             reader, received, espIn, espOut, acquiring, outputs, stats, fpga, stream, pipe, usb>>

VARIABLE part
parts == <<part, viewer, web_vars, session>>

Init ==
    /\ part \in {"viewer", "web", "session"}
    /\ ViewerInit /\ WebInit /\ Capture!Init
    /\ part # "viewer" => flow.sequence = 0

Viewing(act)   == part = "viewer" /\ act /\ UNCHANGED <<part, web_vars, session>>
Serving(act)   == part = "web" /\ act /\ UNCHANGED <<part, viewer, session>>
Capturing(act) == part = "session" /\ act /\ UNCHANGED <<part, viewer, web_vars>>
Next == Viewing(ViewerNext) \/ Serving(WebNext) \/ Capturing(Capture!Next)
Spec == Init /\ [][Next]_parts

(* Fairness of the viewer: the link carries what it has taken, so that frames
   are not held back for ever, the loop ticks, and frames in flight grow old.
   The browser need not acknowledge anything.  Of the web server: the loop goes
   on, and a peer that is there takes what it is sent.  Of the session: that
   which Session states.  A condition that joins actions of different parts is
   the condition of each, for only one part acts. *)
FairSpec ==
    /\ Spec
    /\ WF_parts(Viewing(Tick(0, FALSE)) \/ Serving(Reap) \/ Capturing(Capture!Host))
    /\ WF_parts(Viewing(Expiry) \/ Serving(\E c \in Connections : Handle(c)) \/ Capturing(Capture!ReadStream))
    /\ WF_parts(Viewing(Arrive(TRUE) \/ Arrive(FALSE)) \/ Serving(Receive(1)))
    /\ \A c \in Connections \ {1} : WF_parts(Serving(Receive(c)))
    /\ \A c \in Connections :
           WF_parts(Serving(HangUp(c))) /\ WF_parts(Serving(Drained(c))) /\ WF_parts(Serving(WrittenOut(c)))

(* Nothing stays in the server for ever: a frame that waits leaves for the
   browser, and a connection that is being closed is gone. *)
NothingStuck == FramesLeave /\ ClosingEnds

(* run_capture returns, whatever the devices do. *)
SessionEnds == Capture!SessionEnds
=============================================================================
