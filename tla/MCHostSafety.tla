---------------------------- MODULE MCHostSafety ----------------------------
(* Capture sessions of two processes with two runs, the radio with every
   setting at any time, and the web server.  They do not share
   state here; one of them acts in a behaviour. *)
EXTENDS Session, Radio, WebServer

EspAuto == -1
TooHigh == -2
BootSettings == [op \in {"lo", "front", "stage", "iq"} \cup Registers |->
                    CASE op = "lo" -> 2402 [] op = "front" -> 20 [] OTHER -> Automatic]
Names == <<"dc0">>
Stages(front) == 1000 + front
Patterns == {{}, {0, 1, 2}, {0, 2, 3, 4, 6}, {1, 3, 4}}
Asked == [op : {"lo"}, value : {2402, 2000, 1000}] \cup [op : {"front"}, value : {20, 40}]
         \cup [op : {"stage", "iq", "dc0"}, value : {5, Automatic}]
VARIABLE part
parts == <<part, radio, web_vars, vars>>

InitParts ==
    /\ part \in {"radio", "web", "session"}
    /\ RadioInit /\ WebInit /\ Init

RadioAlone   == part = "radio" /\ (Reconfiguring \/ \E q \in Asked : RadioSet(q.op, q.value))
                /\ UNCHANGED <<part, web_vars, vars>>
WebAlone     == part = "web" /\ WebNext /\ UNCHANGED <<part, radio, vars>>
SessionAlone == part = "session" /\ Next /\ UNCHANGED <<part, radio, web_vars>>
NextParts == RadioAlone \/ WebAlone \/ SessionAlone
SpecParts == InitParts /\ [][NextParts]_parts
=============================================================================
