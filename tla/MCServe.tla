------------------------------ MODULE MCServe -------------------------------
EXTENDS Serve
EspAuto == -1
TooHigh == -2
BootSettings == [op \in {"lo", "front", "stage", "iq"} \cup Registers |->
                    CASE op = "lo" -> 2402 [] op = "front" -> 20 [] OTHER -> Automatic]
Names == <<>>
Stages(front) == 1000 + front
Patterns == {{0, 1, 2}}
Settings == [op : {"lo"}, value : {2402, 2000}] \cup [op : {"front"}, value : {40}]
=============================================================================
