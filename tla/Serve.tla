------------------------------- MODULE Serve --------------------------------
(***************************************************************************)
(* The server (host/src/serve.cpp): the capture thread, which owns the     *)
(* devices, applies receiver settings and makes one run after another, and *)
(* the web thread, which serves one browser.  They share what a mutex      *)
(* guards; each step takes the mutex once.  The receiver is Radio, on the  *)
(* other side of the ESP's control port, whose requests are answered in    *)
(* order.  run_capture is one state here (Session models it).              *)
(***************************************************************************)
EXTENDS Radio

CONSTANTS Asked,            \* the settings a browser asks for: [op, value]
          NoClient, Nothing,
          MaxFailures,      \* failed runs in a row before the devices are reopened (3)
          MaxActs           \* bound: what the browsers do

ASSUME ServeAssumption ==
    /\ Boot = [op \in DOMAIN Boot |-> Boot[op]]
    /\ \A q \in Asked : q.op \in DOMAIN Boot

VARIABLES
    pc, batch, failures, seen,      \* the capture thread
    tagged,                         \* what the spectrum engine was told of the run
    requests,                       \* settings_
    running, connected, grace, request_changed, shutdown,   \* the wish for a run
    published, published_changed, woken,
    web, client, sections, shown,   \* the web thread, and what the browser shows
    open,                           \* WebSockets whose on_close has not been called
    latest, newest,                 \* ghosts: per setting the last value accepted, while it binds;
                                    \* the browser that opened last
    acts            \* count, for the bound

capture == <<pc, batch, failures, seen, tagged>>
wish == <<running, connected, grace, request_changed, shutdown>>
news == <<published, published_changed, woken>>
browser == <<web, client, sections, shown, open, newest>>
radio_alone == <<settings, previous, receiver, phase, trying, retune, hw, reply>>
vars == <<radio, capture, requests, wish, news, browser, latest, acts>>

Ops == DOMAIN Boot
Named(queue) == {queue[i].op : i \in DOMAIN queue}
Report == [radio |-> receiver.status, lo |-> receiver.lo, front |-> settings["front"]]
NoReport == [radio |-> OK, lo |-> 0, front |-> Boot["front"]]
Free == [op \in Ops |-> Nothing]
Blank == [state |-> "blank", receiver |-> {}]       \* the page before its first status

Init ==
    /\ RadioInit
    /\ pc = "open" /\ batch = <<>> /\ failures = 0 /\ seen = "waiting" /\ tagged = NoReport
    /\ requests = <<>>
    /\ running = TRUE /\ connected = FALSE /\ grace = FALSE /\ request_changed = FALSE /\ shutdown = FALSE
    /\ published = [state |-> "starting", valid |-> FALSE, receiver |-> NoReport]
    /\ published_changed = FALSE /\ woken = FALSE
    /\ web = "idle" /\ client = NoClient /\ sections = {} /\ shown = Blank /\ open = {} /\ newest = NoClient
    /\ latest = Free
    /\ acts = 0

-----------------------------------------------------------------------------
(* The capture thread.  publish with urgency wakes the web thread.         *)
Publish(p, urgent) ==
    /\ published' = p
    /\ published_changed' = (published_changed \/ urgent)
    /\ woken' = (woken \/ urgent)
Notice == woken' = TRUE /\ UNCHANGED <<published, published_changed>>

Want == running /\ (connected \/ grace)

Go(place) == pc' = place
(* What goes wrong here counts with what goes wrong in the radio.          *)
Error == faults < MaxFaults /\ faults' = faults + 1 /\ UNCHANGED radio_alone
WebStays == UNCHANGED <<browser, acts>>
Act == acts < MaxActs /\ acts' = acts + 1
WishStays == UNCHANGED <<running, connected, grace, shutdown>>

(* The loops of capture_loop test for the shutdown first.  The constructor *)
(* of Devices finds, opens and identifies both devices, or throws.         *)
Open ==
    /\ pc = "open"
    /\ \/ shutdown /\ Go("done") /\ UNCHANGED <<seen, radio>>
       \/ ~shutdown /\ Go("read") /\ UNCHANGED <<seen, radio>>
       \/ ~shutdown /\ Error /\ seen' = "waiting" /\ Go("lose")
    /\ UNCHANGED <<batch, failures, tagged, requests, wish, news, latest>> /\ WebStays

(* A device stops answering, or the three runs in a row have failed: what  *)
(* was swapped out of settings_ goes with the exception.                   *)
Throw == seen' = "error" /\ batch' = <<>> /\ Go("lose") /\ latest' = Free
ControlFails ==
    /\ pc \in {"read", "set", "setting", "reread", "wait", "run"}
    /\ Error /\ Throw
    /\ UNCHANGED <<failures, tagged, requests, wish, news>> /\ WebStays

(* read_receiver, at the beginning and after a batch of settings.          *)
ReadReceiver ==
    /\ pc \in {"read", "reread"} /\ phase = "idle"
    /\ Publish([published EXCEPT !.valid = TRUE, !.receiver = Report], TRUE)
    /\ failures' = IF pc = "read" THEN 0 ELSE failures
    /\ Go(IF pc = "read" THEN "apply" ELSE "look")
    /\ UNCHANGED <<radio, batch, seen, tagged, requests, wish, latest>> /\ WebStays

(* apply_settings                                                          *)
TakeRequests ==
    /\ pc = "apply"
    /\ IF shutdown THEN Go("open") /\ UNCHANGED <<batch, requests>>
       ELSE /\ batch' = requests /\ requests' = <<>>
            /\ Go(IF requests = <<>> THEN "look" ELSE "announce")
    /\ UNCHANGED <<radio, failures, seen, tagged, wish, news, latest>> /\ WebStays
Announce ==
    /\ pc = "announce" /\ Go("set")
    /\ Publish([published EXCEPT !.state = "reconfiguring"], TRUE)
    /\ UNCHANGED <<radio, batch, failures, seen, tagged, requests, wish, latest>> /\ WebStays
Trusted == "look"           \* mutant: the settings are believed to be in effect
AfterBatch == "reread"
Request ==
    /\ pc = "set"
    /\ IF batch = <<>> THEN Go(AfterBatch) /\ UNCHANGED radio
       ELSE RadioSet(Head(batch).op, Head(batch).value) /\ Go("setting")
    /\ UNCHANGED <<batch, failures, seen, tagged, requests, wish, news, latest>> /\ WebStays

(* The answer.  A setting that was refused or failed is only noticed: it   *)
(* no longer binds, unless it has been asked for again.                    *)
Answered ==
    /\ pc = "setting" /\ phase = "idle"
    /\ batch' = Tail(batch) /\ Go("set")
    /\ LET op == Head(batch).op IN
       IF reply = "ok" THEN UNCHANGED <<news, latest>>
       ELSE /\ Notice
            /\ latest' = IF op \in Named(requests) THEN latest ELSE [latest EXCEPT ![op] = Nothing]
    /\ UNCHANGED <<radio, failures, seen, tagged, requests, wish>> /\ WebStays

(* The wish and the radio's status are read; a run is made, or the reason  *)
(* not to is published and the FPGA polled.                                *)
Look ==
    /\ pc = "look"
    /\ Go(IF published.receiver.radio = OK /\ Want THEN "begin" ELSE "stopped")
    /\ UNCHANGED <<radio, batch, failures, seen, tagged, requests, wish, news, latest>> /\ WebStays
PublishStopped ==
    /\ pc = "stopped" /\ Go("wait")
    /\ LET state == IF published.receiver.radio = OK THEN "stopped" ELSE "error"
       IN  Publish([published EXCEPT !.state = state], published.state # state)
    /\ UNCHANGED <<radio, batch, failures, seen, tagged, requests, wish, latest>> /\ WebStays

(* wait_for_change, woken or after its timeout.                            *)
Wait ==
    /\ pc \in {"wait", "wait_lost"}
    /\ request_changed' = FALSE
    /\ Go(IF pc = "wait" THEN "apply" ELSE "open")
    /\ UNCHANGED <<radio, batch, failures, seen, tagged, requests, news, latest>>
    /\ WishStays /\ WebStays

(* run_once.                                                               *)
BeginRun ==
    /\ pc = "begin" /\ Go("run")
    /\ tagged' = published.receiver
    /\ Publish([published EXCEPT !.state = "running"], TRUE)
    /\ UNCHANGED <<radio, batch, failures, seen, requests, wish, latest>> /\ WebStays
RunsUnwatched == shutdown \/ requests # <<>> \/ ~running        \* mutant
StopsRun == shutdown \/ requests # <<>> \/ ~Want
EndRun ==
    /\ pc = "run"
    /\ \/ StopsRun /\ failures' = 0 /\ UNCHANGED <<radio, news>>
       \/ /\ Error /\ failures' = failures + 1
          /\ Publish([published EXCEPT !.state = "error"], TRUE)
    /\ tagged' = NoReport
    /\ IF failures' >= MaxFailures THEN Throw
       ELSE Go(IF failures' = 0 THEN "apply" ELSE "wait") /\ UNCHANGED <<batch, seen, latest>>
    /\ UNCHANGED <<requests, wish>> /\ WebStays

(* lose_devices                                                            *)
DropRequests ==
    /\ pc = "lose" /\ Go("lost")
    /\ requests' = <<>> /\ latest' = Free
    /\ IF requests = <<>> THEN UNCHANGED news ELSE Notice
    /\ UNCHANGED <<radio, batch, failures, seen, tagged, wish>> /\ WebStays
PublishLost ==
    /\ pc = "lost" /\ Go("wait_lost") /\ seen' = "waiting"
    /\ Publish([published EXCEPT !.state = seen, !.valid = FALSE], TRUE)
    /\ UNCHANGED <<radio, batch, failures, tagged, requests, wish, latest>> /\ WebStays

CaptureThread ==
    \/ Open \/ ReadReceiver \/ TakeRequests \/ Announce \/ Request \/ Answered \/ Look \/ PublishStopped
    \/ Wait \/ BeginRun \/ (pc = "run" /\ StopsRun /\ EndRun) \/ DropRequests \/ PublishLost

-----------------------------------------------------------------------------
(* The web thread.  A status carries the state and, when it is not as last *)
(* sent, the receiver, {} when it is not known; at times it carries both.  *)
View == [state |-> published.state, receiver |-> IF published.valid THEN {published.receiver} ELSE {}]
SendStatus == \E everything \in BOOLEAN :
    /\ sections' = {View.receiver}
    /\ shown' = [state |-> View.state,
                 receiver |-> IF View.receiver \in sections /\ ~everything THEN shown.receiver ELSE View.receiver]
CaptureStays == UNCHANGED <<radio, capture>>
NewsStay == UNCHANGED news

(* on_open: the new client takes over, with a Viewer of its own.           *)
OnOpen ==
    /\ web = "idle" /\ Act
    /\ client' = acts + 1 /\ newest' = acts + 1 /\ open' = open \cup {acts + 1}
    /\ sections' = {} /\ shown' = Blank
    /\ connected' = TRUE /\ request_changed' = TRUE
    /\ web' = "greet"
    /\ UNCHANGED <<requests, running, grace, shutdown, latest>>
    /\ CaptureStays /\ NewsStay
Greet ==
    /\ web = "greet" /\ web' = "idle" /\ SendStatus
    /\ UNCHANGED <<client, open, newest, requests, wish, latest, acts>>
    /\ CaptureStays /\ NewsStay

(* on_close, of the client served or of one that was replaced.             *)
AnyClient(c) == TRUE        \* mutant: a replaced client's close counts
Served(c) == c = client
OnClose(c) ==
    /\ web = "idle" /\ c \in open /\ open' = open \ {c}
    /\ IF Served(c)
       THEN /\ client' = NoClient /\ connected' = FALSE /\ grace' = TRUE /\ request_changed' = TRUE
            /\ shown' = Blank /\ sections' = {}
       ELSE UNCHANGED <<client, connected, grace, request_changed, shown, sections>>
    /\ UNCHANGED <<web, newest, requests, running, shutdown, latest, acts>>
    /\ CaptureStays /\ NewsStay
GraceEnds ==
    /\ grace /\ ~connected /\ grace' = FALSE
    /\ UNCHANGED <<browser, requests, running, connected, request_changed, shutdown,
                   latest, acts>>
    /\ CaptureStays /\ NewsStay

(* on_text: a setting.  One name is in settings_ once, with its last value.*)
KeptFirst(queue, q) == IF q.op \in Named(queue) THEN queue ELSE Append(queue, q)   \* mutant
Replaced(queue, q) ==
    IF q.op \in Named(queue) THEN [i \in DOMAIN queue |-> IF queue[i].op = q.op THEN q ELSE queue[i]]
    ELSE Append(queue, q)
OnSet(q) ==
    /\ web = "idle" /\ client # NoClient /\ Act
    /\ IF Valid(q.op, q.value) /\ published.valid
       THEN requests' = Replaced(requests, q) /\ latest' = [latest EXCEPT ![q.op] = q.value]
       ELSE UNCHANGED <<requests, latest>>
    /\ UNCHANGED <<browser, wish>> /\ CaptureStays /\ NewsStay

OnRun ==
    /\ web = "idle" /\ client # NoClient /\ Act
    /\ running' = ~running /\ request_changed' = TRUE /\ web' = "broadcast"
    /\ UNCHANGED <<client, sections, shown, open, newest, requests, connected, grace, shutdown, latest>>
    /\ CaptureStays /\ NewsStay

(* on_wake takes what was published; the status is sent after.             *)
OnWake ==
    /\ web = "idle" /\ woken /\ woken' = FALSE
    /\ published_changed' = FALSE
    /\ web' = IF published_changed /\ client # NoClient THEN "broadcast" ELSE "idle"
    /\ UNCHANGED <<published, client, sections, shown, open, newest, requests, wish, latest, acts>>
    /\ CaptureStays

(* broadcast_status leaves the status out while the link is backed up;     *)
(* on_tick sends it, again and again, when it is not.                      *)
Broadcast ==
    /\ web = "broadcast" /\ web' = "idle"
    /\ \/ SendStatus /\ UNCHANGED radio
       \/ Error /\ UNCHANGED <<sections, shown>>
    /\ UNCHANGED <<client, open, newest, requests, wish, latest, acts>>
    /\ UNCHANGED <<capture, news>>
OnTick ==
    /\ web = "idle" /\ client # NoClient /\ SendStatus
    /\ UNCHANGED <<web, client, open, newest, requests, wish, latest, acts>>
    /\ CaptureStays /\ NewsStay

(* The destructor of Service, once the web loop has ended.                 *)
Shutdown ==
    /\ web = "idle" /\ ~shutdown
    /\ shutdown' = TRUE /\ web' = "ended"
    /\ client' = NoClient /\ shown' = Blank /\ sections' = {} /\ open' = {}
    /\ UNCHANGED <<newest, requests, running, connected, grace, request_changed, latest, acts>>
    /\ CaptureStays /\ NewsStay

WebThread == Greet \/ OnWake \/ Broadcast \/ OnTick
Browser == OnOpen \/ (\E c \in open : OnClose(c)) \/ (\E q \in Asked : OnSet(q)) \/ OnRun \/ Shutdown

Esp == Reconfiguring /\ UNCHANGED <<capture, requests, wish, news, browser, latest, acts>>

(* Neither thread sees what the ESP does before its answer: its steps are  *)
(* taken first, which leaves out no order of the others.                   *)
Others == CaptureThread \/ EndRun \/ ControlFails \/ WebThread \/ Browser \/ GraceEnds
Next == Esp \/ (phase = "idle" /\ Others)
Spec == Init /\ [][Next]_vars

(* Both threads are scheduled, the ESP executes what it has begun, and the *)
(* ten seconds pass.  Nothing obliges a browser to act or a run to fail.   *)
FairSpec == /\ Spec
            /\ WF_vars(CaptureThread) /\ WF_vars(Greet \/ OnWake \/ Broadcast) /\ WF_vars(OnTick)
            /\ WF_vars(GraceEnds) /\ WF_vars(Esp)

-----------------------------------------------------------------------------
(* A run is made with the radio as the spectrum was told, whatever was set *)
(* or went wrong before: the PLL is tuned to the reported LO (run_once     *)
(* reads what apply_settings published, not the radio).                    *)
RunAsTagged ==
    pc = "run" => /\ tagged = Report
                  /\ hw.pll.lo = tagged.lo /\ hw.front = tagged.front

(* While a run is made every setting that was accepted and neither failed  *)
(* nor dropped with the devices is in effect with its last value, unless   *)
(* it has just been asked for.                                             *)
SettingsAsAsked ==
    pc = "run" => \A op \in Ops \ Named(requests) :
                      latest[op] # Nothing => settings[op] = latest[op]

(* Runs stop for good when nobody wants them, and one is made again and    *)
(* again, or for good, when one is wanted and the radio works; the server  *)
(* ends when it is told to.                                                *)
RunFollowsWish ==
    /\ <>[]~Want => <>[](pc # "run")
    /\ <>[](Want /\ ~shutdown) => []<>(pc = "run" \/ published.receiver.radio # OK)
    /\ shutdown ~> pc = "done"

(* The page of the browser that opened last comes to show what the capture *)
(* thread has published and keeps showing it, whatever other browsers and  *)
(* backed-up links did before.                                             *)
PageUpToDate == <>[](newest \in open => shown = View)
=============================================================================
