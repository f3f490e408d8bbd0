------------------------------ MODULE MCProbe ------------------------------
EXTENDS Probe, TLC

Unlit == [field |-> 0, enabled |-> FALSE]
Off   == [nonspread |-> TRUE, source |-> FALSE, spread |-> FALSE, output |-> "off"]
Lit   == [Off EXCEPT !.source = TRUE, !.output = "nonspread"]
Both  == [dp |-> TRUE, hdmi |-> TRUE, edp |-> FALSE, pin |-> TRUE]
Plain == [Both EXCEPT !.dp = FALSE]
Panel1 == [dp |-> TRUE, hdmi |-> FALSE, edp |-> TRUE, pin |-> FALSE]

Base == [generation |-> 4, ddi |-> FALSE, pch |-> "none", mobile |-> FALSE,
         hdmi |-> TRUE, crt |-> TRUE, valleyview |-> FALSE, skylake |-> FALSE,
         vbt |-> <<>>, vesa |-> FALSE, gotVbt |-> FALSE, lvds |-> FALSE,
         enabled |-> {}, selectsB |-> {}, panelPipe |-> 0,
         transcoder |-> [p \in 1 .. 4 |-> Unlit],
         dpTranscoder |-> [t \in 1 .. 3 |-> 0], clock |-> Off]

DP(i)   == [class |-> "DP", index |-> i]
HDMI(i) == [class |-> "HDMI", index |-> i]
LVDS    == [class |-> "LVDS", index |-> PortC]
CRT     == [class |-> "Analog", index |-> PortA]

Old == {[Base EXCEPT !.generation = g, !.mobile = m, !.vesa = v, !.gotVbt = ~v,
                     !.hdmi = FALSE, !.selectsB = {LVDS}] :
           g \in {3, 4}, m, v \in BOOLEAN}

Cougar == {[Base EXCEPT !.generation = 6, !.pch = p, !.mobile = TRUE, !.lvds = TRUE,
                        !.vbt = (1 :> Panel1 @@ 2 :> Both), !.gotVbt = TRUE,
                        !.vesa = TRUE, !.crt = FALSE,
                        !.enabled = e, !.selectsB = s, !.panelPipe = 2,
                        !.dpTranscoder = [t \in 1 .. 3 |-> IF t = 2 THEN 2 ELSE 0],
                        !.clock = c] :
           p \in {"IBX", "CPT"}, c \in {Off, Lit}, s \in {{HDMI(2)}},
           e \in {{DP(1)}, {DP(2), HDMI(2)}, {HDMI(2)}}}

Ddi(g, fields) ==
    [Base EXCEPT !.generation = g, !.ddi = TRUE, !.pch = "LPT", !.crt = (g = 7),
                 !.vbt = (1 :> Panel1 @@ 2 :> Plain @@ 3 :> Both),
                 !.transcoder = [p \in 1 .. 4 |-> fields[p]]]

Field(g, port, on) == [field |-> DdiField([Base EXCEPT !.generation = g], port),
                       enabled |-> on]

NewFields(g) ==
    {<<a, b, c, e>> : a \in {Field(g, 2, TRUE), Unlit}, b \in {Field(g, 3, TRUE), Unlit},
                      c \in {Field(g, 2, FALSE), Field(g, 3, TRUE)},
                      e \in {IF g = 7 THEN Unlit ELSE [field |-> 0, enabled |-> TRUE]}}

New == {Ddi(9, f) : f \in NewFields(9)}
       \cup {Ddi(7, f) : f \in {h \in NewFields(7) : h[1] = Unlit /\ h[2] # Unlit}}

\* With the register layout of generation 12.
Tiger == {Ddi(12, <<Field(12, 3, TRUE), Field(12, 2, TRUE), Unlit, Unlit>>)}

MCMachines == Old \cup Cougar \cup New \cup Tiger
=============================================================================
