--------------------------- MODULE MCPacketAssembly ---------------------------
(***************************************************************************)
(* PacketAssembly for TLC: each driver with the devices that change what it *)
(* does, and packets that are unmistakable, that hold bytes which look like *)
(* the first of a packet, and that hold bytes which look like a reset.      *)
(***************************************************************************)
EXTENDS PacketAssembly

(* What a behaviour is about: the bytes of the packets, the requests of the   *)
(* operations, or both.                                                       *)
Plans == {"bytes", "requests", "both"}

HW(driver, device, maxid, led, ew, act) ==
  { [driver |-> driver, device |-> device, maxid |-> maxid, led |-> led, ew |-> ew,
     act |-> act, setres |-> maxid = 3, hwreset |-> ew, plan |-> plan] : plan \in Plans }

MCHardware ==
  HW("mouse", "mouse", 0, FALSE, FALSE, FALSE) \cup HW("mouse", "mouse", 3, FALSE, FALSE, FALSE)
    \cup HW("mouse", "mouse", 4, FALSE, FALSE, TRUE)
    \cup HW("mouse", "synaptics", 0, TRUE, FALSE, TRUE)
    \cup HW("synaptics", "synaptics", 0, TRUE, TRUE, FALSE)
    \cup HW("synaptics", "synaptics", 0, FALSE, FALSE, FALSE)
    \cup HW("alps", "alps", 0, FALSE, FALSE, FALSE)
    \cup HW("sentelic", "sentelic", 4, FALSE, FALSE, FALSE)
    \cup HW("sentelic", "sentelic", 0, FALSE, FALSE, FALSE)

MCMaxOperations(h) == [bytes |-> 1, requests |-> 5, both |-> 3][h.plan]
MCMaxFaults(h) == [bytes |-> 1, requests |-> 1, both |-> 0][h.plan]

AllPackets(h) ==
  CASE h.driver = "synaptics" ->
         { << \h80, \h84, \h30, \hC0, \h11, \h22 >>, << \h90, \h84, \h30, \hC0, \hC1, \h22 >>,
           << \h80, \h10, \h30, \hC0, \hAA, 0 >> }
    [] h.driver = "alps" ->
         { << \hF8, 1, 2, 3, 4, 5 >>, << \h08, 1, 2 >>, << \hF8, \h09, 2, \h80, 4, \h0B >> }
    [] OTHER ->
         { << \h08, 1, 2 >>, << \h09, \hAA, 0 >>, << \h08, 9, \h0A >>,
           << \h08, 1, 2, 1 >>, << \h09, \hAA, 0, \h0F >> }

MCPackets(h) ==
  CASE h.plan = "bytes" -> AllPackets(h)
    [] h.plan = "requests" -> {}
    [] OTHER -> AllPackets(h) \ { << \h90, \h84, \h30, \hC0, \hC1, \h22 >>, << \h08, 9, \h0A >>,
                                  << \h09, \hAA, 0 >>, << \h09, \hAA, 0, \h0F >> }
================================================================================
