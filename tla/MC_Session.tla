----------------------------- MODULE MC_Session -----------------------------
(****************************************************************************)
(* Reports that make the handlers differ: no button, each boot button, each *)
(* hotkey, by button, hat and stick.                                        *)
(****************************************************************************)
EXTENDS Session

CONSTANTS r1, r2

Pad(buttons)       == [buttons |-> buttons, hat |-> -1, x |-> NoAxes, y |-> NoAxes]
Hat(buttons, h)    == [buttons |-> buttons, hat |-> h, x |-> NoAxes, y |-> NoAxes]
Stick(buttons, x)  == [buttons |-> buttons, hat |-> 8, x |-> x, y |-> 128]

TwoRoms == {r1, r2}

Pad1Reports == {Pad({}), Pad({"Start"}), Pad({"Start", "Select"}),
                Pad({"Select", "left"}), Stick({"A"}, 128), Hat({"Select", "Start"}, 2)}
ManyReports == [d \in 1..2 |-> IF d = 1 THEN Pad1Reports
                               ELSE {Pad({}), Stick({"Select"}, 200)}]
FewKeys     == {{}, {"Escape"}, {"start", "left"}}

OnePad  == [d \in 1..2 |-> IF d = 1 THEN {Pad({"A"}), Pad({"Start", "Select"}), Pad({})}
                           ELSE {}]
LiveKeys == {{"F5"}, {"F8"}, {}}
=============================================================================
