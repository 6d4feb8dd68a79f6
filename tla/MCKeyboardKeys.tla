--------------------------- MODULE MCKeyboardKeys ---------------------------
(* An instance of KeyboardKeys and Configuration: a Platform Profile with    *)
(* links, an RMCF with a section for the keyboard and one for the touchpad,  *)
(* and the keys whose meaning depends on the maps, the modifiers and time.   *)
EXTENDS KeyboardKeys

Sections == {"Keyboard", "Synaptics TouchPad"}

Yes == Object("boolean", TRUE)
No == Object("boolean", FALSE)
Number(n) == Object("number", n)
Map(f) == Object("array", f)

Node(dict) == [kind |-> "dict", dict |-> dict]
Link(name) == [kind |-> "link", to |-> name]

Defaults ==
    ("HIDF12EjectDelay" :> Number(250)) @@ ("SleepPressTime" :> Number(0))
    @@ ("UseISOLayoutKeyboard" :> No) @@ ("Breakless PS2" :> Map({"1e"}))
    @@ ("Function Keys Standard" :> Map("3b" :> "3b"))
    @@ ("Function Keys Special" :> Map("3b" :> "15f"))

Probook ==
    ("SleepPressTime" :> Number(10)) @@ ("SwapCommandOption" :> No)
    @@ ("Custom ADB Map" :> Map("3c" :> "90")) @@ ("UseISOLayoutKeyboard" :> Yes)
    @@ ("Custom PS2 Map" :> Map("56" :> "00"))

KeyboardList ==
    ("Default" :> Node(Defaults))
    @@ ("HPQOEM" :> Node(("Default" :> Link("17FA")) @@ ("17FA" :> Link("ProBook"))
                         @@ ("ProBook" :> Node(Probook))))

TouchPadList == ("HPQOEM" :> Node("Default" :> Node("Clicking" :> Yes)))

Lists == ("Keyboard" :> KeyboardList) @@ ("Synaptics TouchPad" :> TouchPadList)

KeyboardSection == ("BrightnessHack" :> Yes) @@ ("SwapCommandOption" :> Yes)
                   @@ ("Text" :> Object("string", ">y"))
Overrides ==
    <<("Keyboard" :> Object("dictionary", KeyboardSection))
      @@ ("Synaptics TouchPad" :> Object("dictionary", "Clicking" :> No))>>

Text(string) == Object("string", string)
Package(items) == Object("array", items)

OverrideMethod ==
    <<Package(<<Text("Keyboard"),
                Package(<<Text("BrightnessHack"), Text(">y"),
                          Text("SwapCommandOption"), Text(">y"),
                          Text("Text"), Text(">>y")>>),
                Text("Synaptics TouchPad"),
                Package(<<Text("Clicking"), Text(">n")>>)>>)>>

SwipeUp == <<[adb |-> "3b", down |-> TRUE], [adb |-> "37", down |-> TRUE],
             [adb |-> "7e", down |-> TRUE], [adb |-> "7e", down |-> FALSE],
             [adb |-> "37", down |-> FALSE], [adb |-> "3b", down |-> FALSE]>>

(* One setting alone, and all the settings that share entries *)
Alone == {name :> value : name \in Coupled, value \in {Yes, No}}
         \cup {"SwapCapsLockLeftControl" :> Yes, "SwapCapsLockLeftControl" :> No,
               "UseISOLayoutKeyboard" :> No, "HIDFKeyMode" :> Number(1),
               "HIDFKeyMode" :> Number(0)}
Together ==
    {[name \in Coupled |-> IF name \in on THEN Yes ELSE No] : on \in SUBSET Coupled}

Use(keys, screen, backlight, dicts, max) ==
    [keys |-> keys, KBCL |-> screen, KKCL |-> backlight, dicts |-> dicts, changes |-> max,
     sierra |-> TRUE]

OtherKeys ==
    Use({"1e", "3a", "15d", "127", "128", "1d", "56"}, <<1, 2, 3>>, <<>>,
        {"SwapCapsLockLeftControl" :> Yes, "MakeApplicationKeyRightWindows" :> Yes}, 1)

Machines == {
    \* settings alone
    Use({}, <<>>, <<>>, Alone \cup Together, 3),
    \* brightness by Ctrl+Shift and the keypad, Ctrl+Alt+Delete, maps that change
    Use({"1d", "2a", "38", "15b", "4e", "153"}, <<>>, <<>>,
        {"SwapCapsLockLeftControl" :> Yes, "SwapCommandOption" :> No}, 1),
    \* sleep and eject, with modes and delays that change
    Use({"1d", "3b", "152", "137", "15f"}, <<>>, <<1>>,
        {"HIDF12EjectDelay" :> Number(0), "HIDFKeyMode" :> Number(1),
         "SleepPressTime" :> Number(0)}, 1),
    \* levels of light, with one below, above and between those of the tables
    Use({"1d", "38", "4e", "4a", "105", "3c"}, <<4, 2, 1, 3, 4>>, <<1, 2, 4>>, {}, 0),
    \* a breakless key, Caps Lock, Hangul and the keys that do other things
    OtherKeys, [OtherKeys EXCEPT !.sierra = FALSE]}
=============================================================================
