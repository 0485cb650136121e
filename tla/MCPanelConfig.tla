--------------------------- MODULE MCPanelConfig ---------------------------
(* Small instances of PanelConfig for TLC.                                 *)
EXTENDS PanelConfig

System(drv, device, writers, turns, client, max) ==
    [drv |-> drv, device |-> device, writers |-> writers, turns |-> turns,
     client |-> client, max |-> max]
Sized(w, h) == [outs |-> 2, answers |-> 1, code |-> 0, version |-> 0, w |-> w, h |-> h]
Coded(outs, answers, code, version) ==
    [outs |-> outs, answers |-> answers, code |-> code, version |-> version, w |-> 0, h |-> 0]

Quarter == [angle |-> 1, rx |-> FALSE]

(* Every panel of the tables, and an unknown one, with one writer; tiny    *)
(* panels with writers and a compositor; the orientations of ax206; the    *)
(* backlights.                                                             *)
Panels ==
    {System("beada", Coded(2, 1, beada_model_table[i][1], 0), {"a"}, {Upright, t}, FALSE, 0) :
        i \in DOMAIN beada_model_table,
        t \in {[angle |-> 1, rx |-> FALSE], [angle |-> 2, rx |-> TRUE]}}
    \cup {System("beada", Coded(2, 0, 3, 0), {"a"}, Turn, FALSE, 0),
          System("beada", Coded(2, 1, 99, 0), {}, {}, FALSE, 0)}
    \cup {System("mpro", Coded(0, 0, mpro_models[i][1], v), {"a"}, {Upright, Quarter}, FALSE, 0) :
            i \in DOMAIN mpro_models, v \in {3, 4}}
    \cup {System("mpro", Coded(0, 0, 4, 0), {"a", "b"}, Turn, FALSE, 0)}
Drawing ==
    {System("beada", Sized(2, 3), {"a"}, Turn, TRUE, 0),
     System("beada", Sized(3, 2), {"a", "b"}, {Upright, Quarter, [angle |-> 3, rx |-> TRUE]},
            TRUE, 0),
     System("ax206", Sized(3, 2), {"a", "b"}, Turn, TRUE, 0),
     System("ax206", Sized(2, 2), {"a"}, Turn, TRUE, 0)}
Lights ==
    {System("beada", Coded(2, 1, 0, 0), {}, {}, FALSE, 100),
     System("beada", Coded(2, 1, 0, 0), {}, {}, FALSE, 255),
     System("mpro", Coded(0, 0, 4, 0), {}, {}, FALSE, 255)}
Everything == Panels \cup Drawing \cup Lights

(* The systems in which the documentation is contradicted: mpro turned     *)
(* by a quarter, beadapanel with two writers, ax206 on a panel that is not *)
(* square.                                                                 *)
MproTurned == {System("mpro", Coded(0, 0, 4, 0), {"a"}, {Upright, Quarter}, FALSE, 0)}
BeadaWriters == {System("beada", Sized(3, 2), {"a", "b"}, {Upright, Quarter}, TRUE, 0)}
Ax206Turned == {System("ax206", Sized(3, 2), {"a"}, {Upright, Quarter}, TRUE, 0)}

Text(whole, dot, frac) == [whole |-> whole, dot |-> dot, frac |-> frac]
SomeTexts ==
    {Text(0, TRUE, <<4, 9>>), Text(0, TRUE, <<5>>), Text(0, TRUE, <<8, 0>>),
     Text(1, FALSE, <<>>), Text(1, TRUE, <<>>), Text(1, TRUE, <<0, 6>>), Text(1, TRUE, <<5>>),
     Text(2, TRUE, <<2>>), Text(2, TRUE, <<9, 9>>), Text(2, TRUE, <<1, 2, 3>>),
     Text(5, FALSE, <<>>)}
SomeLevels == {0, 1, 2, 3, 10, 16, 50, 63, 64, 99, 100, 127, 128, 200, 253, 254, 255}
=============================================================================
