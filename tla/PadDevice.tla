------------------------------- MODULE PadDevice -------------------------------
(***************************************************************************)
(* A pointing device on the auxiliary port, modelled from how the drivers   *)
(* use it (the device is not part of this repository): the PS/2 mouse       *)
(* commands, the Intellimouse knocks, the two-bit-at-a-time arguments of a  *)
(* Synaptics pad, the absolute mode of an ALPS pad and the registers of a   *)
(* Sentelic pad.  TakeBytes is what a sequence of command bytes makes of    *)
(* the device's state.  hw says which driver drives which device, what the  *)
(* device can do (maxid: the best Intellimouse identity, led: a light, ew:  *)
(* extended W mode) and the two settings that change what the drivers send  *)
(* (act: ActLikeTrackpad, setres: ForceSetResolution, hwreset:              *)
(* HWResetOnStart).                                                        *)
(***************************************************************************)
EXTENDS Integers, Sequences, SequencesExt

kDP_SetMouseScaling1To1 == \hE6
kDP_SetMouseScaling2To1 == \hE7
kDP_SetMouseResolution == \hE8
kDP_GetMouseInformation == \hE9
kDP_SetPoll == \hF0
kDP_GetId == \hF2
kDP_SetMouseSampleRate == \hF3
kDP_Enable == \hF4
kDP_SetDefaultsAndDisable == \hF5
kDP_SetDefaults == \hF6
kDP_Reset == \hFF

(* Bit operations on a byte; bit is a power of two. *)
HasBit(v, bit) == (v \div bit) % 2 = 1
SetBit(v, bit) == IF HasBit(v, bit) THEN v ELSE v + bit
ClearBit(v, bit) == IF HasBit(v, bit) THEN v - bit ELSE v
PutBit(v, bit, on) == IF on THEN SetBit(v, bit) ELSE ClearBit(v, bit)

-----------------------------------------------------------------------------
FSP_REG_SYSCTL1 == \h10
FSP_REG_OPC_QDOWN == \h31
FSP_BIT_EN_REG_CLK == \h20
FSP_BIT_EN_OPC_TAG == \h80

(* The register values a Sentelic pad wakes up with are chosen so that the   *)
(* values written back, $28 and $C8, are reserved ones.                      *)
PoweredOn ==
  [enabled |-> FALSE, remote |-> FALSE, expects |-> "command", select |-> 0,
   rates |-> <<0, 0, 100>>, bits |-> <<>>, id |-> 0, mode |-> 0, led |-> FALSE,
   disables |-> 0, absolute |-> FALSE, tap |-> FALSE,
   register |-> 0, sysctl |-> \h08, qdown |-> \h48]

Argument(bits) == 64 * bits[1] + 16 * bits[2] + 4 * bits[3] + bits[4]

Registers == {\h66, \h68, \hCC, \h55, \h74, \h77}
Values == {\h33, \h44, \h47}
SwapNibbles(v) == (v \div 16) + 16 * (v % 16)
Unmangle(select, v) ==
  CASE select \in {\hCC, \h77, \h44} -> SwapNibbles(v)
    [] select \in {\h68, \h74, \h47} -> 255 - v
    [] OTHER -> v

(* A sample rate: the last three make a knock, and with four arguments       *)
(* before it the rate says where a Synaptics pad puts the argument.          *)
TakeRate(hw, d, b) ==
  LET rates == <<d.rates[2], d.rates[3], b>>
      full == Len(d.bits) = 4
  IN [d EXCEPT
        !.rates = rates,
        !.expects = CASE hw.device = "sentelic" /\ b \in Registers -> "register"
                      [] hw.device = "sentelic" /\ b \in Values -> "value"
                      [] OTHER -> "command",
        !.select = b,
        !.id = CASE rates = <<200, 100, 80>> /\ hw.maxid >= 3 -> 3
                 [] rates = <<200, 200, 80>> /\ hw.maxid = 4 -> 4
                 [] OTHER -> @,
        !.mode = IF hw.device = "synaptics" /\ full /\ b = 20
                 THEN Argument(d.bits) ELSE @,
        !.led = IF hw.led /\ full /\ b = 10 THEN Argument(d.bits) = \h88 ELSE @,
        !.tap = @ \/ (hw.device = "alps" /\ b = 10),
        !.bits = <<>>]

TakeResolution(hw, d, b) ==
  [d EXCEPT !.expects = "command",
            !.bits = IF Len(@) = 4 THEN <<b>> ELSE Append(@, b),
            !.tap = @ /\ ~(hw.device = "alps" /\ b = 0)]

TakeValue(d, b) ==
  LET v == Unmangle(d.select, b)
  IN CASE d.register = FSP_REG_SYSCTL1 -> [d EXCEPT !.expects = "command", !.sysctl = v]
       [] d.register = FSP_REG_OPC_QDOWN /\ HasBit(d.sysctl, FSP_BIT_EN_REG_CLK) ->
            [d EXCEPT !.expects = "command", !.qdown = v]
       [] OTHER -> [d EXCEPT !.expects = "command"]

TakeCommand(d, b) ==
  LET c == [d EXCEPT !.expects = "command", !.bits = <<>>,
                     !.disables = IF b = kDP_SetDefaultsAndDisable
                                  THEN IF @ < 4 THEN @ + 1 ELSE 4
                                  ELSE 0]
  IN CASE b = kDP_SetDefaultsAndDisable -> [c EXCEPT !.enabled = FALSE, !.remote = FALSE]
       [] b = kDP_SetDefaults -> [c EXCEPT !.enabled = FALSE, !.remote = FALSE, !.mode = 0]
       [] b = kDP_Enable -> [c EXCEPT !.enabled = TRUE,
                                      !.absolute = @ \/ d.disables = 4]
       [] b = kDP_SetPoll -> [c EXCEPT !.remote = TRUE]
       [] b = kDP_SetMouseSampleRate -> [c EXCEPT !.expects = "rate", !.bits = d.bits]
       [] b = kDP_SetMouseResolution -> [c EXCEPT !.expects = "resolution", !.bits = d.bits]
       [] b = kDP_Reset -> PoweredOn
       [] OTHER -> c

(* The device takes one byte.  The values a driver must not use as a         *)
(* register number or value are the ones that are taken for something else.  *)
TakeByte(hw, d, b) ==
  CASE d.expects = "rate" /\ b < \hE6 -> TakeRate(hw, d, b)
    [] d.expects = "resolution" /\ b < \hE6 -> TakeResolution(hw, d, b)
    [] d.expects \in {"register", "value"} /\ b \in {10, 20, 40, 60, 80, 100, 200} ->
         TakeRate(hw, d, b)
    [] d.expects = "register" /\ b \notin {\hE9, \hEE, \hF2, \hFF} ->
         [d EXCEPT !.expects = "command", !.register = Unmangle(d.select, b)]
    [] d.expects = "value" /\ b \notin {\hE9, \hEE, \hF2, \hFF} -> TakeValue(d, b)
    [] OTHER -> TakeCommand(d, b)

TakeBytes(hw, d, bytes) == FoldLeft(LAMBDA e, b : TakeByte(hw, e, b), d, bytes)

(* The register a read of the mouse information returns. *)
RegisterRead(d) ==
  CASE d.register = FSP_REG_SYSCTL1 -> d.sysctl
    [] d.register = FSP_REG_OPC_QDOWN -> d.qdown
    [] OTHER -> 1

(* The length of the packets the device sends; an ALPS pad mixes two.        *)
PacketLengths(hw, d) ==
  CASE hw.device = "alps" -> IF d.absolute THEN {3, 6} ELSE {3}
    [] hw.device = "synaptics" /\ HasBit(d.mode, 128) -> {6}
    [] OTHER -> IF d.id = 0 THEN {3} ELSE {4}
================================================================================
