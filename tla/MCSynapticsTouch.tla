--------------------------- MODULE MCSynapticsTouch ---------------------------
(***************************************************************************)
(* Small instances of SynapticsTouch.  A profile is a group of features    *)
(* that meet: a few settings, the packets that bring the features into     *)
(* play, and whether keys are typed and messages sent meanwhile.           *)
(***************************************************************************)
EXTENDS SynapticsTouch

Defaults ==
    [clicking |-> TRUE, dragging |-> TRUE, draglock |-> FALSE, dragexit |-> TRUE, rtap |-> TRUE,
     immediateclick |-> TRUE, maxdbltaptime |-> 2, swapdoubletriple |-> FALSE,
     palm |-> FALSE, palm_wt |-> FALSE, outzone_wt |-> FALSE, diszone |-> FALSE,
     scroll |-> TRUE, hscroll |-> TRUE, cscroll |-> FALSE, ctrigger |-> 0,
     vsticky |-> FALSE, hsticky |-> FALSE, wsticky |-> FALSE, momentum |-> FALSE,
     clickpad |-> FALSE, corner |-> 2, extendedw |-> FALSE, dynamicEW |-> FALSE,
     clickpadtrackboth |-> TRUE, passthru |-> FALSE]

Report(w, z, x, y) == [w |-> w, z |-> z, x |-> x, y |-> y, buttons |-> {}, click |-> {},
                       pass |-> {}, sum |-> 0]

Away == Report(4, 0, 1, 1)
Away2(sum) == [Away EXCEPT !.sum = sum]
Finger(x, y) == Report(4, 2, x, y)
Two(x, y) == Report(0, 2, x, y)
Three(x, y) == Report(1, 2, x, y)
Edge(x, y) == Report(4, 1, x, y)    \* z is z_finger
Limit(x, y) == Report(4, 3, x, y)   \* z is zlimit
Palm(x, y) == Report(10, 4, x, y)
Wide(x, y) == Report(10, 2, x, y)
Second(x, y) == Report(2, 2, x, y)
Pass(b) == [Report(3, 0, 0, 0) EXCEPT !.pass = b]
Button(p, b) == [p EXCEPT !.buttons = b]
Click(p) == [p EXCEPT !.click = Left]

MCProfiles == {"taps", "changes", "typed", "edges", "zone", "clickpads", "passthrough",
               "trackpoint", "momentum"}

MCSettings(name) ==
    CASE name = "taps" ->
           {Defaults, [Defaults EXCEPT !.immediateclick = FALSE],
            [Defaults EXCEPT !.immediateclick = FALSE, !.maxdbltaptime = 0, !.dragexit = FALSE],
            [Defaults EXCEPT !.draglock = TRUE, !.swapdoubletriple = TRUE]}
      [] name = "changes" ->
           {Defaults, [Defaults EXCEPT !.immediateclick = FALSE, !.draglock = TRUE]}
      [] name = "typed" ->
           {[Defaults EXCEPT !.palm_wt = TRUE],
            [Defaults EXCEPT !.palm_wt = TRUE, !.immediateclick = FALSE],
            [Defaults EXCEPT !.outzone_wt = TRUE, !.draglock = TRUE]}
      [] name = "edges" ->
           {Defaults, [Defaults EXCEPT !.vsticky = TRUE, !.hscroll = FALSE],
            [Defaults EXCEPT !.cscroll = TRUE, !.ctrigger = 9],
            [Defaults EXCEPT !.cscroll = TRUE, !.ctrigger = 4], [Defaults EXCEPT !.scroll = FALSE]}
      [] name = "zone" ->
           {[Defaults EXCEPT !.diszone = TRUE]}
      [] name = "clickpads" ->
           {[Defaults EXCEPT !.clickpad = TRUE, !.extendedw = TRUE],
            [Defaults EXCEPT !.clickpad = TRUE, !.dynamicEW = TRUE, !.clickpadtrackboth = FALSE,
                             !.corner = 1]}
      [] name = "passthrough" ->
           {[Defaults EXCEPT !.passthru = TRUE],
            [Defaults EXCEPT !.passthru = TRUE, !.immediateclick = FALSE]}
      [] name = "trackpoint" ->
           {[Defaults EXCEPT !.passthru = TRUE, !.clickpad = TRUE, !.extendedw = TRUE]}
      [] name = "momentum" ->
           {[Defaults EXCEPT !.momentum = TRUE, !.wsticky = TRUE, !.dragging = FALSE]}

MCPackets(name) ==
    CASE name = "taps" ->
           {Away, Finger(1, 1), Finger(0, 1), Two(1, 1), Three(1, 1), Edge(1, 1), Limit(1, 1),
            Button(Away, Right), Button(Finger(1, 1), Right)}
      [] name = "changes" ->
           {Away, Finger(1, 1), Two(1, 1), Button(Away, Right)}
      [] name = "typed" ->
           {Away, Finger(1, 1), Finger(2, 1), Two(1, 1), Wide(1, 1), Palm(1, 1)}
      [] name = "edges" ->
           {Away, Finger(1, 1), Finger(2, 1), Finger(2, 0), Finger(1, 0), Palm(2, 1), Two(1, 1)}
      [] name = "zone" ->
           {Away, Finger(0, 2), Finger(1, 1), Limit(0, 2), Two(0, 2), Button(Away, Left),
            Button(Finger(0, 2), Left)}
      [] name = "clickpads" ->
           {Away, Finger(1, 1), Two(1, 1), Second(2, 0),
            Click(Finger(1, 1)), Click(Finger(2, 0)), Click(Two(1, 1)), Click(Second(2, 0))}
      [] name = "passthrough" ->
           {Away, Finger(1, 1), Pass({}), Pass(Left), Pass(Middle), Button(Away, Right),
            Button(Finger(1, 1), Right), Button(Pass({}), Right), Button(Pass(Left), Right)}
      [] name = "trackpoint" ->
           {Away, Finger(1, 1), Click(Finger(1, 1)), Second(2, 0), Click(Second(2, 0)),
            Pass({}), Pass(Middle), Click(Pass({})), Click(Pass(Middle))}
      [] name = "momentum" ->
           {Away2(5), Away2(-4), Away, Two(1, 1), Finger(1, 1)}

MCTyping(name) == name \in {"typed", "momentum"}
MCChanging(name) == name = "changes"
MCSwitching(name) == name \in {"changes", "zone"}
=============================================================================
