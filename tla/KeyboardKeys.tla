----------------------------- MODULE KeyboardKeys -----------------------------
(***************************************************************************)
(* What the keys of ApplePS2Keyboard mean: the two maps a scan code passes, *)
(* the settings and the function key mode that change the maps while keys   *)
(* are down, the combinations that the driver keeps for itself, and the     *)
(* keys for sleep and eject that must be held for a while.  The settings    *)
(* begin with the driver's configuration (probe) and change at any time     *)
(* (setParamProperties).                                                    *)
(*                                                                         *)
(* Scan codes and ADB codes are written as in the source, a scan code after *)
(* e0 with the digit 1 before it.  A packet is handled in one step; how it  *)
(* gets here is the subject of KeyboardInput and of KeyboardMacros.         *)
(***************************************************************************)
EXTENDS Configuration, Integers, FiniteSets, SequencesExt

CONSTANTS
    Machine,     \* the machines and their use: the keys that are pressed, the
                 \* tables of levels that ACPI has for the screen (KBCL) and for
                 \* the backlight of the keyboard (KKCL), the dictionaries passed
                 \* to setParamProperties (dicts) and how often (changes), and
                 \* whether version_major >= 16 (sierra)
    SwipeAction, \* _actionSwipeUp and its like
    MaxDown      \* bound: keys down at a time

ASSUME KeysAssumption == "Keyboard" \in Section /\ MaxDown \in Nat

PS2ToADBMapStock ==
    ("00" :> "80") @@ ("1d" :> "3b") @@ ("1e" :> "00") @@ ("29" :> "32")
    @@ ("2a" :> "38") @@ ("38" :> "3a") @@ ("3a" :> "39") @@ ("3b" :> "7a")
    @@ ("3c" :> "78") @@ ("4a" :> "4e") @@ ("4e" :> "45") @@ ("56" :> "0a")
    @@ ("f1" :> "66") @@ ("f2" :> "68") @@ ("105" :> "91") @@ ("106" :> "90")
    @@ ("11d" :> "3e") @@ ("127" :> "80") @@ ("128" :> "80") @@ ("137" :> "69")
    @@ ("138" :> "3d") @@ ("152" :> "92") @@ ("153" :> "75") @@ ("15b" :> "37")
    @@ ("15c" :> "36") @@ ("15d" :> "6e") @@ ("15f" :> "80")

Code == DOMAIN PS2ToADBMapStock
Modifier == {"1d", "2a", "38", "11d", "138", "15b", "15c", "15d"}
DeadKey == "80"

VARIABLES
    machine,
    kb,        \* the state of the driver: a record, see Init
    down,      \* the keys that are down
    strays,    \* what is down, or set, by a key whose meaning changed while
               \* it was down
    changes

keyVars == <<machine, kb, down, strays, changes>>
vars == <<configVars, keyVars>>

(* A table of levels is used if it has enough entries *)
BrightnessLevels == IF Len(machine.KBCL) < 4 THEN <<>> ELSE machine.KBCL
BacklightLevels == IF Len(machine.KKCL) < 2 THEN <<>> ELSE machine.KKCL

Top(levels) == levels[Len(levels)]

Init ==
    /\ ConfigInit
    /\ machine \in Machine
    /\ kb = [loaded |-> FALSE,
             ps2Map |-> [c \in Code |-> c], mapped |-> PS2ToADBMapStock,
             adbMap |-> PS2ToADBMapStock, breakless |-> {},
             standard |-> <<>>, special |-> <<>>, fkeymode |-> 0,
             sleepTime |-> 0, ejectDelay |-> 250, hack |-> FALSE,
             swap |-> FALSE, published |-> <<>>, complete |-> TRUE,
             modifiers |-> {}, timer |-> FALSE, timerFunc |-> "sleep",
             hid |-> {}, touchpadOff |-> FALSE,
             screen |-> IF BrightnessLevels = <<>> THEN 0 ELSE Top(BrightnessLevels),
             backlight |-> IF BacklightLevels = <<>> THEN 0 ELSE Top(BacklightLevels)]
    /\ down = {} /\ strays = {} /\ changes = 0

-----------------------------------------------------------------------------
(* The value a dictionary has for a name, if it is of the right kind *)
Get(dict, name, kind) ==
    IF name \in DOMAIN dict /\ dict[name].kind = kind THEN <<dict[name].value>> ELSE <<>>

(* Entries of a map are a function from codes to codes *)
loadCustomPS2Map(m, array) ==
    IF array = <<>> THEN m ELSE [m EXCEPT !.ps2Map = array[1] @@ @]

loadBreaklessPS2(m, array) ==
    IF array = <<>> THEN m ELSE [m EXCEPT !.breakless = array[1]]

loadCustomADBMap(m, array) ==
    IF array = <<>> THEN m ELSE [m EXCEPT !.mapped = array[1] @@ @]

FKeyModeSupported(m) == m.standard # <<>> /\ m.special # <<>>

loadFunctionKeys(m, standard, special) ==
    IF standard # <<>> /\ special # <<>>
    THEN loadCustomPS2Map([m EXCEPT !.standard = standard, !.special = special], special)
    ELSE m

-----------------------------------------------------------------------------
(* setParamPropertiesGated, one setting after the other *)
SetTimes(m, dict) ==
    LET press == Get(dict, "SleepPressTime", "number")
        delay == Get(dict, "HIDF12EjectDelay", "number")
    IN  [m EXCEPT !.sleepTime = IF press = <<>> THEN @ ELSE press[1],
                  !.ejectDelay = IF delay = <<>> THEN @ ELSE delay[1]]

SetFKeyMode(m, dict) ==
    LET mode == Get(dict, "HIDFKeyMode", "number")
        n == [m EXCEPT !.fkeymode = mode[1]]
    IN  IF ~FKeyModeSupported(m) \/ mode = <<>> \/ mode = <<m.fkeymode>> THEN m
        ELSE loadCustomPS2Map(n, IF n.fkeymode # 0 THEN m.standard ELSE m.special)

(* The ADB map is changed by a setting, which is then published *)
Remap(m, name, value, map) ==
    [m EXCEPT !.adbMap = map @@ @, !.published = (name :> value) @@ @]

Exchange(m, value, a, b) ==
    IF value THEN (a :> m.mapped[b]) @@ (b :> m.mapped[a])
    ELSE (a :> m.mapped[a]) @@ (b :> m.mapped[b])

SetSwapCaps(m, dict) ==
    LET xml == Get(dict, "SwapCapsLockLeftControl", "boolean")
    IN  IF xml = <<>> THEN m
        ELSE Remap(m, "SwapCapsLockLeftControl", xml[1], Exchange(m, xml[1], "3a", "1d"))

(* Mutant: that the keys are swapped is not remembered *)
SetSwapCommandForgotten(m, dict) ==
    LET xml == Get(dict, "SwapCommandOption", "boolean")
    IN  IF xml = <<>> THEN m
        ELSE Remap(m, "SwapCommandOption", xml[1],
                   Exchange(m, xml[1], "38", "15b") @@ Exchange(m, xml[1], "138", "15c"))

SetSwapCommand(m, dict) ==
    LET xml == Get(dict, "SwapCommandOption", "boolean")
    IN  IF xml = <<>> THEN m
        ELSE Remap([m EXCEPT !.swap = xml[1]], "SwapCommandOption", xml[1],
                   Exchange(m, xml[1], "38", "15b") @@ Exchange(m, xml[1], "138", "15c"))

SetBrightnessHack(m, dict) ==
    [m EXCEPT !.hack = @ \/ Get(dict, "BrightnessHack", "boolean") = <<TRUE>>]

SetApplicationKey(m, dict) ==
    LET windows == Get(dict, "MakeApplicationKeyRightWindows", "boolean")
        apple == Get(dict, "MakeApplicationKeyAppleFN", "boolean")
        n == IF windows = <<>> THEN m
             ELSE Remap(m, "MakeApplicationKeyRightWindows", windows[1],
                        "15d" :> IF ~windows[1] THEN m.mapped["15d"]
                                 ELSE IF m.swap THEN "3d" ELSE "36")
    IN  IF apple = <<>> THEN n
        ELSE Remap(n, "MakeApplicationKeyAppleFN", apple[1],
                   "15d" :> IF windows = <<TRUE>> THEN n.adbMap["15d"]
                            ELSE IF apple[1] THEN "3f" ELSE m.mapped["15d"])

SetHangulHanja(m, dict) ==
    LET xml == Get(dict, "MakeRightModsHangulHanja", "boolean")
        map == IF xml[1] THEN ("138" :> m.mapped["f2"]) @@ ("11d" :> m.mapped["f1"])
               ELSE ("138" :> m.mapped[IF m.swap THEN "15c" ELSE "138"])
                    @@ ("11d" :> m.mapped["11d"])
    IN  IF xml = <<>> THEN m ELSE Remap(m, "MakeRightModsHangulHanja", xml[1], map)

SetISOLayout(m, dict) ==
    LET xml == Get(dict, "UseISOLayoutKeyboard", "boolean")
    IN  IF xml = <<>> THEN m
        ELSE Remap(m, "UseISOLayoutKeyboard", xml[1], Exchange(m, xml[1], "29", "56"))

(* The settings that share an entry of the map *)
Coupled == {"SwapCommandOption", "MakeApplicationKeyRightWindows",
            "MakeApplicationKeyAppleFN", "MakeRightModsHangulHanja"}

setParamPropertiesGated(m, dict) ==
    LET n1 == SetFKeyMode(SetTimes(m, dict), dict)
        n2 == SetBrightnessHack(SetSwapCommand(SetSwapCaps(n1, dict), dict), dict)
        n3 == SetISOLayout(SetHangulHanja(SetApplicationKey(n2, dict), dict), dict)
    IN  [n3 EXCEPT !.complete =
            \/ Coupled \subseteq DOMAIN dict
            \/ (@ /\ Coupled \cap DOMAIN dict = {})]

-----------------------------------------------------------------------------
(* What a key means under the modifiers and the maps of the moment *)
Chord(m, keys) == keys \subseteq m.modifiers

Meaning(m, raw) ==
    LET code == m.ps2Map[raw]
        adb == m.adbMap[code]
    IN  CASE raw \in {"f1", "f2"} -> "hangul"
          [] code \in {"4e", "4a"} /\ BacklightLevels # <<>> /\ Chord(m, {"1d", "38"}) -> "backlight"
          [] code \in {"4e", "4a"} /\ m.hack /\ Chord(m, {"1d", "2a"}) -> "hack"
          [] code = "153" /\ Chord(m, {"1d", "38"}) -> "salute"
          [] code = "15f" -> "sleep"
          [] code \in {"128", "137"} /\ ~Chord(m, {"1d"}) -> "touchpad"
          [] code \in {"127", "137"} -> "fkeys"
          [] code = "128" -> "nothing"
          [] adb \in {"90", "91"} /\ BrightnessLevels # <<>> -> "brightness"
          [] adb = "92" /\ m.modifiers = {} -> "eject"
          [] adb = "39" /\ machine.sierra -> "caps"
          [] OTHER -> "plain"

(* What the make of a key leaves down in the HID system, or set *)
Leaves(m, raw) ==
    LET code == m.ps2Map[raw]
    IN  CASE Meaning(m, raw) = "plain" -> IF code = "00" THEN {} ELSE {m.adbMap[code]}
          [] Meaning(m, raw) = "hack" -> {IF code = "4e" THEN "90" ELSE "91"}
          [] Meaning(m, raw) = "brightness" -> {DeadKey}
          [] Meaning(m, raw) = "eject" -> {"92", "timer"}
          [] Meaning(m, raw) = "sleep" -> {"timer"}
          [] OTHER -> {}

-----------------------------------------------------------------------------
(* What a packet meets outside: the keys of BrightnessHack that the bit      *)
(* vector, which the interrupt routine updates meanwhile, has down at the    *)
(* first reading and at the second, and whether the methods of ACPI succeed. *)
HackKeys == {"2a", "1d"}

Circumstances(raw) ==
    [released : IF Meaning(kb, raw) = "hack" THEN SUBSET HackKeys ELSE {{}},
     pressed  : IF Meaning(kb, raw) = "hack" THEN SUBSET HackKeys ELSE {{}},
     acpi     : IF Meaning(kb, raw) \in {"brightness", "backlight"} THEN BOOLEAN ELSE {TRUE}]

dispatchKeyboardEventX(m, adb, goingDown) ==
    [m EXCEPT !.hid = IF goingDown THEN @ \cup {adb} ELSE @ \ {adb}]

(* Mutant: the two entries for the power sources are not skipped *)
StepLevelAll(levels, first, current, up) ==
    LET above == {i \in 1..Len(levels) : levels[i] >= current}
        index == IF above = {} THEN Len(levels) + 1
                 ELSE CHOOSE i \in above : \A j \in above : i <= j
        moved == IF up THEN index + 1 ELSE index - 1
    IN  levels[IF moved > Len(levels) THEN Len(levels) ELSE IF moved < 1 THEN 1 ELSE moved]

(* The level next to the first one that is not below the current one *)
StepLevel(levels, first, current, up) ==
    LET above == {i \in first..Len(levels) : levels[i] >= current}
        index == IF above = {} THEN Len(levels) + 1
                 ELSE CHOOSE i \in above : \A j \in above : i <= j
        moved == IF up THEN index + 1 ELSE index - 1
    IN  levels[IF moved > Len(levels) THEN Len(levels)
               ELSE IF moved < first THEN first ELSE moved]

(* KBQC or KBCM may fail *)
modifyScreenBrightness(m, adb, goingDown, acpi) ==
    IF ~goingDown \/ ~acpi THEN m
    ELSE [m EXCEPT !.screen = StepLevel(BrightnessLevels, 3, @, adb = "90")]

(* KKQC or KKCM may fail.  All entries of KKCL are levels for the code, although *)
(* a comment, as of KBCL, says that the first two are not.                       *)
modifyKeyboardBacklight(m, code, goingDown, acpi) ==
    IF ~goingDown \/ ~acpi THEN m
    ELSE [m EXCEPT !.backlight = StepLevel(BacklightLevels, 1, @, code = "4e")]

onSleepEjectTimer(m) ==
    IF m.timerFunc = "eject" THEN dispatchKeyboardEventX(m, "92", TRUE) ELSE m

(* The key for sleep or eject: its time is over at once, or after a while *)
StartTimer(m, func, atOnce) ==
    LET n == [m EXCEPT !.timerFunc = func]
    IN  IF atOnce THEN onSleepEjectTimer(n) ELSE [n EXCEPT !.timer = TRUE]

(* Mutant: the timer runs on after the key is released *)
CancelNothing(m) == m

CancelTimer(m) == [m EXCEPT !.timer = FALSE]

SleepKey(m, goingDown) ==
    IF goingDown THEN StartTimer(m, "sleep", m.fkeymode # 0 \/ m.sleepTime = 0)
    ELSE CancelTimer(m)

(* Mutant: a breakless key is not released by its make *)
SendKeyHeld(m, raw, adb, goingDown) ==
    IF raw \in m.breakless /\ ~goingDown THEN m
    ELSE dispatchKeyboardEventX(m, adb, goingDown)

(* A key that is mapped to 0 is not sent *)
SendKey(m, raw, adb, goingDown) ==
    CASE m.ps2Map[raw] = "00" -> m
      [] m.ps2Map[raw] # "00" /\ raw \in m.breakless ->
            IF goingDown THEN [m EXCEPT !.hid = @ \ {adb}] ELSE m
      [] OTHER -> dispatchKeyboardEventX(m, adb, goingDown)

EjectKey(m, raw, goingDown) ==
    IF goingDown THEN StartTimer(m, "eject", m.ejectDelay = 0)
    ELSE SendKey(CancelTimer(m), raw, "92", FALSE)

(* Ctrl+Alt+Delete sends the power key, without the keys held for it *)
ThreeFingerSalute(m, goingDown) ==
    IF goingDown THEN m ELSE [m EXCEPT !.hid = @ \ {"37", "3b", "7f"}]

(* Shift, unless Option is down too, and Control are up for a moment *)
BrightnessHack(m, code, goingDown, with) ==
    LET keys == IF Chord(m, {"15b"}) THEN {"1d"} ELSE HackKeys
        Adb(bits) == {m.adbMap[k] : k \in keys \cap bits}
        released == [m EXCEPT !.hid = @ \ Adb(with.released)]
        sent == dispatchKeyboardEventX(released, IF code = "4e" THEN "90" ELSE "91", goingDown)
    IN  [sent EXCEPT !.hid = @ \cup Adb(with.pressed)]

(* The HID system passes the new function key mode to its keyboards *)
ToggleFKeyMode(m) ==
    IF ~FKeyModeSupported(m) THEN m
    ELSE setParamPropertiesGated(m, "HIDFKeyMode" :>
             Object("number", IF m.fkeymode = 0 THEN 1 ELSE 0))

dispatchKeyboardEventWithPacket(old, raw, goingDown, with) ==
    LET m == IF raw \notin Modifier THEN old
             ELSE [old EXCEPT !.modifiers = IF goingDown THEN @ \cup {raw} ELSE @ \ {raw}]
        code == m.ps2Map[raw]
        adb == m.adbMap[code]
    IN  CASE Meaning(m, raw) = "hangul" -> [m EXCEPT !.hid = @ \ {m.adbMap[raw]}]
          [] Meaning(m, raw) = "backlight" -> modifyKeyboardBacklight(m, code, goingDown, with.acpi)
          [] Meaning(m, raw) = "hack" -> BrightnessHack(m, code, goingDown, with)
          [] Meaning(m, raw) = "salute" -> ThreeFingerSalute(m, goingDown)
          [] Meaning(m, raw) = "sleep" -> SleepKey(m, goingDown)
          [] Meaning(m, raw) = "touchpad" ->
                IF goingDown THEN [m EXCEPT !.touchpadOff = ~@] ELSE m
          [] Meaning(m, raw) = "fkeys" -> IF goingDown THEN ToggleFKeyMode(m) ELSE m
          [] Meaning(m, raw) = "nothing" -> m
          [] Meaning(m, raw) = "brightness" ->
                SendKey(modifyScreenBrightness(m, adb, goingDown, with.acpi), raw, DeadKey,
                        goingDown)
          [] Meaning(m, raw) = "eject" -> EjectKey(m, raw, goingDown)
          [] Meaning(m, raw) = "caps" -> IF goingDown THEN [m EXCEPT !.hid = @ \ {adb}] ELSE m
          [] OTHER -> SendKey(m, raw, adb, goingDown)

-----------------------------------------------------------------------------
(* probe: the configuration is there, and the driver loads it or gives up *)
Loaded(dict) ==
    LET m1 == loadCustomPS2Map(kb, Get(dict, "Custom PS2 Map", "array"))
        m2 == loadBreaklessPS2(m1, Get(dict, "Breakless PS2", "array"))
        m3 == loadCustomADBMap(m2, Get(dict, "Custom ADB Map", "array"))
        m4 == loadFunctionKeys(m3, Get(dict, "Function Keys Standard", "array"),
                                   Get(dict, "Function Keys Special", "array"))
    IN  setParamPropertiesGated([m4 EXCEPT !.adbMap = m4.mapped], dict)

probe ==
    /\ ~kb.loaded /\ stage["Keyboard"] = "done"
    /\ config["Keyboard"] # <<>> =>
          Get(config["Keyboard"][1], "DisableDevice", "boolean") # <<TRUE>>
    /\ kb' = [(IF config["Keyboard"] = <<>> THEN kb ELSE Loaded(config["Keyboard"][1]))
                 EXCEPT !.loaded = TRUE]
    /\ UNCHANGED <<configVars, machine, down, strays, changes>>

(* What is down in the HID system, or set *)
Standing(m) == m.hid \cup IF m.timer THEN {"timer"} ELSE {}

(* What is left by the keys that stay down and now mean something else.  It   *)
(* is counted until it is released.                                           *)
Stray(n, keys) ==
    LET changed == {k \in keys : Leaves(kb, k) # Leaves(n, k) \/ Meaning(kb, k) # Meaning(n, k)}
        fired == IF "timer" \in strays THEN {"92"} ELSE {}
    IN  strays' = (strays \cup fired \cup UNION {Leaves(kb, k) : k \in changed}) \cap Standing(n)

Press(raw, with) ==
    /\ kb.loaded /\ raw \notin down /\ Cardinality(down) < MaxDown
    /\ down' = down \cup {raw}
    /\ kb' = dispatchKeyboardEventWithPacket(kb, raw, TRUE, with)
    /\ Stray(kb', down)
    /\ UNCHANGED <<configVars, machine, changes>>

Release(raw, with) ==
    /\ kb.loaded /\ raw \in down
    /\ down' = down \ {raw}
    /\ kb' = dispatchKeyboardEventWithPacket(kb, raw, FALSE, with)
    /\ Stray(kb', down \ {raw})
    /\ UNCHANGED <<configVars, machine, changes>>

SleepEjectTimer ==
    /\ kb.timer
    /\ kb' = onSleepEjectTimer([kb EXCEPT !.timer = FALSE])
    /\ Stray(kb', down)
    /\ UNCHANGED <<configVars, machine, down, changes>>

(* The thread of a preference pane, between two packets *)
setParamProperties(dict) ==
    /\ kb.loaded /\ changes < machine.changes
    /\ kb' = setParamPropertiesGated(kb, dict)
    /\ Stray(kb', down)
    /\ changes' = changes + 1
    /\ UNCHANGED <<configVars, machine, down>>

sendKeySequence(m, keys) ==
    FoldLeft(LAMBDA n, k : dispatchKeyboardEventX(n, k.adb, k.down), m, keys)

(* A message of the trackpad: three fingers moved to one side *)
Swipe ==
    /\ kb.loaded
    /\ kb' = sendKeySequence(kb, SwipeAction)
    /\ Stray(kb', down)
    /\ UNCHANGED <<configVars, machine, down, changes>>

(* The firmware sets the light by itself, to levels of the table and others *)
Dim ==
    /\ \/ /\ BrightnessLevels # <<>>
          /\ \E level \in 0..(Top(BrightnessLevels) + 1) : kb' = [kb EXCEPT !.screen = level]
       \/ /\ BacklightLevels # <<>>
          /\ \E level \in 0..(Top(BacklightLevels) + 1) : kb' = [kb EXCEPT !.backlight = level]
    /\ UNCHANGED <<configVars, machine, down, strays, changes>>

Configure(s) == makeConfigurationNode(s) /\ UNCHANGED keyVars

Next ==
    \/ \E s \in Section : Configure(s)
    \/ probe
    \/ \E raw \in machine.keys : \E with \in Circumstances(raw) : Press(raw, with)
    \/ \E raw \in machine.keys : \E with \in Circumstances(raw) : Release(raw, with)
    \/ SleepEjectTimer
    \/ \E dict \in machine.dicts : setParamProperties(dict)
    \/ Swipe
    \/ Dim

Spec == Init /\ [][Next]_vars

-----------------------------------------------------------------------------
CapsByHack == IF kb.hack /\ machine.sierra THEN {"39"} ELSE {}

(* Nothing stays down in the HID system once its key is up: what is down      *)
(* there was left by a key that is down, or by a key whose meaning changed    *)
(* while it was down (dispatchKeyboardEventWithPacket and the maps and        *)
(* modifiers it looks at twice, at the make and at the break) and is not yet  *)
(* released.  The exception is Caps Lock where it is exchanged with Control:  *)
(* BrightnessHack presses again what it released, and from Sierra on Caps     *)
(* Lock has no break.                                                         *)
NothingStaysDown ==
    kb.hid \subseteq strays \cup CapsByHack \cup UNION {Leaves(kb, k) : k \in down}

(* The machine sleeps, or a disk is ejected, by the timer only while the key  *)
(* for it is held, although both keys share the timer and _timerFunc (the     *)
(* cases 0x015f and 0x92, onSleepEjectTimer).  The exception is a key that    *)
(* took another meaning while it was down: an eject key that is pressed alone *)
(* and released with a modifier does not cancel the timer, nor does a key     *)
(* that the function key mode has turned from sleep into another.  It lasts   *)
(* until that timer fires, is cancelled or is set again.                      *)
TimerWhileHeld ==
    kb.timer /\ "timer" \notin strays =>
        \E k \in down : Meaning(kb, k) = kb.timerFunc

Published(name) == name \in DOMAIN kb.published /\ kb.published[name]

Wanted(code) ==
    LET Swapped(name, other) == kb.mapped[IF Published(name) THEN other ELSE code]
    IN  CASE code = "3a" -> Swapped("SwapCapsLockLeftControl", "1d")
          [] code = "1d" -> Swapped("SwapCapsLockLeftControl", "3a")
          [] code = "38" -> Swapped("SwapCommandOption", "15b")
          [] code = "15b" -> Swapped("SwapCommandOption", "38")
          [] code = "15c" -> Swapped("SwapCommandOption", "138")
          [] code = "29" -> Swapped("UseISOLayoutKeyboard", "56")
          [] code = "56" -> Swapped("UseISOLayoutKeyboard", "29")
          [] code = "11d" -> Swapped("MakeRightModsHangulHanja", "f1")
          [] code = "138" -> IF Published("MakeRightModsHangulHanja") THEN kb.mapped["f2"]
                             ELSE Swapped("SwapCommandOption", "15c")
          [] code = "15d" -> CASE Published("MakeApplicationKeyRightWindows") ->
                                      IF Published("SwapCommandOption") THEN "3d" ELSE "36"
                               [] OTHER -> IF Published("MakeApplicationKeyAppleFN") THEN "3f"
                                           ELSE kb.mapped[code]
          [] OTHER -> kb.mapped[code]

(* The maps follow from the settings that are published, however often and in *)
(* whichever order they were changed: every entry that one setting decides,   *)
(* and the entries that several settings share after a call that had all of   *)
(* them (setParamPropertiesGated).                                            *)
SettingsHold ==
    kb.loaded =>
        /\ \A code \in Code \ {"138", "15d"} : kb.adbMap[code] = Wanted(code)
        /\ kb.complete => \A code \in {"138", "15d"} : kb.adbMap[code] = Wanted(code)
        /\ FKeyModeSupported(kb) =>
              LET keys == (IF kb.fkeymode # 0 THEN kb.standard ELSE kb.special)[1]
              IN  \A code \in DOMAIN keys : kb.ps2Map[code] = keys[code]

(* The level that follows another when a key for more light is pressed, or    *)
(* one for less, in a table that begins at first.                             *)
Follows(levels, first, more, level, next) ==
    /\ levels[first] <= next /\ next <= Top(levels)
    /\ more /\ level <= Top(levels) => next > level \/ level = Top(levels)
    /\ ~more /\ level >= levels[first] => next < level \/ level = levels[first]

(* A key for more light gives more unless there is none, and a key for less   *)
(* light gives less, from every level within the table, also from one between *)
(* two of its entries; from a level outside it, which the firmware may have   *)
(* set, both lead back into the table, so that the key for less light may     *)
(* give more there and the other one less (modifyScreenBrightness, the first  *)
(* two entries of whose table are not levels, modifyKeyboardBacklight).  If   *)
(* ACPI fails nothing changes.                                                *)
LightFollowsKeys ==
    [][\A raw \in machine.keys : \A with \in Circumstances(raw) : Press(raw, with) =>
          LET code == kb.ps2Map[raw]
              adb == kb.adbMap[code]
          IN  /\ ~with.acpi => UNCHANGED <<kb.screen, kb.backlight>>
              /\ with.acpi /\ Meaning(kb, raw) = "brightness" =>
                    Follows(BrightnessLevels, 3, adb = "90", kb.screen, kb'.screen)
              /\ with.acpi /\ Meaning(kb, raw) = "backlight" =>
                    Follows(BacklightLevels, 1, code = "4e", kb.backlight, kb'.backlight)]_vars
=============================================================================
