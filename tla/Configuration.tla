---------------------------- MODULE Configuration ----------------------------
(***************************************************************************)
(* The configuration of the drivers.  Each driver's probe asks the          *)
(* controller (makeConfigurationNode) for its dictionary: the defaults of   *)
(* its Info.plist, what the same file says of this platform, and what the   *)
(* ACPI method RMCF says of the driver's section.  The result of RMCF is    *)
(* kept in _rmcfCache for the probes of the other drivers, which may run at *)
(* the same time in other threads.                                          *)
(*                                                                         *)
(* A dictionary is a function on names.  An object that may be missing is a *)
(* sequence of at most one element.                                         *)
(***************************************************************************)
EXTENDS Naturals, Sequences, FiniteSets, TLC

CONSTANTS
    Section,       \* the drivers that are probed
    PlatformList,  \* for each of them, the Platform Profile of its Info.plist
    Manufacturer, Product,  \* what the DSDT or an override of it says
    RMCF,          \* the object that RMCF returns, if there is such a method
    Override       \* the dictionary that RMCF is meant to stand for

VARIABLES
    stage,         \* how far each probe has come in makeConfigurationNode
    lockedBy,      \* the probe that holds _cmdbyteLock, if any
    over,          \* what each probe knows of RMCF
    rmcfCache,
    evaluations,   \* how often RMCF has been evaluated
    config         \* the result of each probe, once it is done

configVars == <<stage, lockedBy, over, rmcfCache, evaluations, config>>

ConfigInit ==
    /\ stage = [s \in Section |-> "probe"]
    /\ lockedBy = <<>> /\ rmcfCache = <<>> /\ evaluations = 0
    /\ over = [s \in Section |-> <<>>]
    /\ config = [s \in Section |-> <<>>]

-----------------------------------------------------------------------------
(* An entry of a Platform Profile is a dictionary or the name of another     *)
(* entry beside it.                                                          *)
RECURSIVE GetNode(_, _)
GetNode(root, name) ==
    CASE name \notin DOMAIN root -> <<>>
      [] root[name].kind = "link" -> GetNode(root, root[name].to)
      [] OTHER -> <<root[name].dict>>

(* A chain of names that comes back to itself would be followed for ever:    *)
(* Platform Profiles have none.                                              *)
LinksEnd(root) ==
    \A name \in DOMAIN root : root[name].kind = "link" =>
        \E steps \in [1..Cardinality(DOMAIN root) -> DOMAIN root] :
            /\ steps[1] = name
            /\ root[steps[Cardinality(DOMAIN root)]].kind = "dict"
            /\ \A i \in 2..Cardinality(DOMAIN root) :
                  steps[i] = IF root[steps[i-1]].kind = "link"
                             THEN root[steps[i-1]].to ELSE steps[i-1]

ASSUME LinksAssumption ==
    \A s \in Section :
        /\ LinksEnd(PlatformList[s])
        /\ Manufacturer \in DOMAIN PlatformList[s] =>
              LinksEnd(PlatformList[s][Manufacturer].dict)

GetConfigurationNode(list) ==
    IF Manufacturer \notin DOMAIN list \/ list[Manufacturer].kind # "dict" THEN <<>>
    ELSE LET products == list[Manufacturer].dict
             node == GetNode(products, Product)
         IN  IF node # <<>> THEN node ELSE GetNode(products, "Default")

-----------------------------------------------------------------------------
(* ACPI has no dictionaries and no Booleans: an array of names and values    *)
(* stands for a dictionary, unless its first entry is an empty array, and    *)
(* the strings ">y" and ">n" stand for Booleans.                             *)
Object(kind, value) == [kind |-> kind, value |-> value]

IsEmptyArray(obj) == obj.kind = "array" /\ obj.value = <<>>

TranslateString(text) ==
    CASE text = ">y" -> <<Object("boolean", TRUE)>>
      [] text = ">n" -> <<Object("boolean", FALSE)>>
      [] text = ">>y" -> <<Object("string", ">y")>>
      [] text = ">>n" -> <<Object("string", ">n")>>
      [] OTHER -> <<>>

RECURSIVE TranslateArray(_)

Translated(obj) ==
    LET result == CASE obj.kind = "array" -> TranslateArray(obj.value)
                    [] obj.kind = "string" -> TranslateString(obj.value)
                    [] OTHER -> <<>>
    IN  IF result = <<>> THEN obj ELSE result[1]

(* The pairs are entered in order: of two with the same name the last counts *)
TranslatePairs(items) ==
    LET pairs == 1..(Len(items) \div 2)
        Name(i) == items[2 * i - 1].value
    IN  [n \in {Name(i) : i \in pairs} |->
            Translated(items[2 * CHOOSE i \in pairs :
                /\ Name(i) = n
                /\ \A j \in pairs : Name(j) = n => j <= i])]

TranslateArray(items) ==
    CASE items = <<>> -> <<>>
      [] items # <<>> /\ IsEmptyArray(items[1]) ->
            <<Object("array", [i \in 1..(Len(items) - 1) |-> Translated(items[i + 1])])>>
      [] OTHER ->
            IF \/ Len(items) % 2 = 1
               \/ \E i \in 1..(Len(items) \div 2) : items[2 * i - 1].kind # "string"
            THEN <<>> ELSE <<Object("dictionary", TranslatePairs(items))>>

getConfigurationOverride ==
    IF RMCF = <<>> \/ RMCF[1].kind # "array" THEN <<>>
    ELSE LET obj == TranslateArray(RMCF[1].value)
         IN  IF obj # <<>> /\ obj[1].kind = "dictionary" THEN <<obj[1].value>> ELSE <<>>

-----------------------------------------------------------------------------
(* Mutant: the defaults override what the platform says *)
MergeUnder(base, dict) ==
    IF base # <<>> /\ dict # <<>> THEN <<base[1] @@ dict[1]>> ELSE base \o dict

(* A dictionary with another one merged into it, where either may be missing *)
Merge(base, dict) ==
    IF base # <<>> /\ dict # <<>> THEN <<dict[1] @@ base[1]>> ELSE base \o dict

PlistNode(s) ==
    Merge(GetNode(PlatformList[s], "Default"), GetConfigurationNode(PlatformList[s]))

SectionOf(dict, s) ==
    IF dict # <<>> /\ s \in DOMAIN dict[1] /\ dict[1][s].kind = "dictionary"
    THEN <<dict[1][s].value>> ELSE <<>>

Lock(s) ==
    /\ stage[s] = "probe" /\ lockedBy = <<>>
    /\ lockedBy' = <<s>>
    /\ stage' = [stage EXCEPT ![s] = "locked"]
    /\ UNCHANGED <<over, rmcfCache, evaluations, config>>

CheckCache(s) ==
    /\ stage[s] = "locked"
    /\ over' = [over EXCEPT ![s] = rmcfCache]
    /\ stage' = [stage EXCEPT ![s] = IF rmcfCache = <<>> THEN "evaluate" ELSE "merge"]
    /\ UNCHANGED <<lockedBy, rmcfCache, evaluations, config>>

Evaluate(s) ==
    /\ stage[s] = "evaluate"
    /\ over' = [over EXCEPT ![s] = getConfigurationOverride]
    /\ rmcfCache' = getConfigurationOverride
    /\ evaluations' = evaluations + 1
    /\ stage' = [stage EXCEPT ![s] = "merge"]
    /\ UNCHANGED <<lockedBy, config>>

Unlock(s) ==
    /\ stage[s] = "merge"
    /\ config' = [config EXCEPT ![s] = Merge(PlistNode(s), SectionOf(over[s], s))]
    /\ stage' = [stage EXCEPT ![s] = "done"]
    /\ lockedBy' = <<>>
    /\ UNCHANGED <<over, rmcfCache, evaluations>>

makeConfigurationNode(s) == Lock(s) \/ CheckCache(s) \/ Evaluate(s) \/ Unlock(s)

-----------------------------------------------------------------------------
Sources(s) ==
    SectionOf(Override, s) \o GetConfigurationNode(PlatformList[s])
        \o GetNode(PlatformList[s], "Default")

FirstWith(sources, name) ==
    LET having == {i \in DOMAIN sources : name \in DOMAIN sources[i]}
    IN  sources[CHOOSE i \in having : \A j \in having : i <= j][name]

(* A driver gets every name from the strongest source that has it, RMCF       *)
(* before the platform and the platform before the defaults, whichever probe  *)
(* comes first, and RMCF is not evaluated again once it has returned a        *)
(* dictionary, which other probes may be using (makeConfigurationNode,        *)
(* translateArray, _getConfigurationNode).                                    *)
ConfigurationMerged ==
    /\ \A s \in Section : stage[s] = "done" =>
          config[s] =
              IF Sources(s) = <<>> THEN <<>>
              ELSE <<[name \in UNION {DOMAIN Sources(s)[i] : i \in DOMAIN Sources(s)} |->
                         FirstWith(Sources(s), name)]>>
    /\ Override # <<>> => evaluations <= 1
=============================================================================
