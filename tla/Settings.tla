------------------------------ MODULE Settings ------------------------------
(***************************************************************************)
(* The settings of the page: store.js, which keeps them, inputs.js, which  *)
(* changes them, and the inputs gui.js makes.  Persistent settings live in *)
(* localStorage, which outlives the page and is shared by all its tabs.    *)
(* A tab copies them into its inputs and hears only of its own changes.    *)
(*                                                                         *)
(* Two settings stand for all of them: "backend", a choice that two        *)
(* subscribers follow (the input and Backends), and "max_n", a value.      *)
(* A handler of a tab is atomic; handlers of different tabs interleave.    *)
(***************************************************************************)
EXTENDS Integers, FiniteSets

CONSTANTS
    Tabs,           \* the tabs of the browser
    LastOption,     \* options are numbered from 0 as in WheelSelectInput
    DefaultOption,  \* default of the choice
    MaxSteps,       \* 1024^3, counted in steps of the cube root of 2
    DefaultSteps,   \* default of the value, 32 * 1024, in such steps
    BenchmarkSteps, \* values the benchmarks set
    Unset,          \* null: the item is not in localStorage
    Unknown         \* a key that is none of the options, undefined as backend

Options == 0..LastOption

Values == 0..MaxSteps

ASSUME SettingsAssumption ==
    /\ LastOption \in Nat /\ DefaultOption \in Options
    /\ MaxSteps \in Nat /\ DefaultSteps \in Values
    /\ BenchmarkSteps \subseteq Values
    /\ Unset \notin Options \cup Values /\ Unset \notin Tabs
    /\ Unknown \notin Options \cup Values

VARIABLES
    storedOption,   \* the choice in localStorage
    storedValue,    \* the value in localStorage
    openTabs,       \* the tabs that have loaded the page
    option,         \* WheelSelectInput.selected of each tab
    backend,        \* Backends.selectedBackend of each tab
    shownValue,     \* the text of the WheelValueInput of each tab
    optionWriter,   \* history: the tab that changed storedOption last
    valueWriter     \* history: the tab that changed storedValue last

settingsVars == <<storedOption, storedValue, openTabs, option, backend,
                  shownValue, optionWriter, valueWriter>>

SettingsInit ==
    /\ storedOption \in Options \cup {Unset, Unknown}
    /\ storedValue \in {Unset, DefaultSteps}
    /\ openTabs = {}
    /\ option = [t \in Tabs |-> 0]
    /\ backend = [t \in Tabs |-> Unknown]
    /\ shownValue = [t \in Tabs |-> 0]
    /\ optionWriter = Unset
    /\ valueWriter = Unset

-----------------------------------------------------------------------------
(* Reading and writing a persistent property.                              *)

\* getPersistent: an item that is not there is put there.
GetPersistent(stored, default) == IF stored = Unset THEN default ELSE stored

Writer(t, before, after, writer) == IF before = after THEN writer ELSE t

\* onKeyChanged: the first option stands for a key that is none.
IndexOf(key) == IF key \in Options THEN key ELSE 0

\* Mutant of PutOption: the input moves without comparing.
PutOptionAtOnce(t, key) ==
    /\ storedOption' = key
    /\ optionWriter' = Writer(t, storedOption, key, optionWriter)
    /\ option' = [option EXCEPT ![t] = IndexOf(key)]
    /\ backend' = IF storedOption = key THEN backend
                  ELSE [backend EXCEPT ![t] = key]
    /\ UNCHANGED <<storedValue, openTabs, shownValue, valueWriter>>

\* putPersistent and the subscribers of the tab, which compare the item before
\* with the item after: another tab may have put the same there.
PutOption(t, key) ==
    /\ storedOption' = key
    /\ optionWriter' = Writer(t, storedOption, key, optionWriter)
    /\ option' = IF storedOption = key THEN option
                 ELSE [option EXCEPT ![t] = IndexOf(key)]
    /\ backend' = IF storedOption = key THEN backend
                  ELSE [backend EXCEPT ![t] = key]
    /\ UNCHANGED <<storedValue, openTabs, shownValue, valueWriter>>

PutValue(t, value) ==
    /\ storedValue' = value
    /\ valueWriter' = Writer(t, storedValue, value, valueWriter)
    /\ UNCHANGED <<storedOption, openTabs, option, backend, optionWriter>>

-----------------------------------------------------------------------------
(* The page is opened and closed; the user turns a wheel.                  *)

\* The constructors of Store, Backends and Gui, in one handler.
OpenPage(t) ==
    LET key == GetPersistent(storedOption, DefaultOption)
        value == GetPersistent(storedValue, DefaultSteps) IN
    /\ t \notin openTabs
    /\ openTabs' = openTabs \cup {t}
    /\ storedOption' = key
    /\ storedValue' = value
    /\ option' = [option EXCEPT ![t] = IndexOf(key)]
    /\ backend' = [backend EXCEPT ![t] = key]
    /\ shownValue' = [shownValue EXCEPT ![t] = value]
    /\ optionWriter' = Writer(t, storedOption, key, optionWriter)
    /\ valueWriter' = Writer(t, storedValue, value, valueWriter)

ClosePage(t) ==
    /\ t \in openTabs
    /\ openTabs' = openTabs \ {t}
    /\ UNCHANGED <<storedOption, storedValue, option, backend, shownValue,
                   optionWriter, valueWriter>>

\* The wheel one way: onUp(false).
OnUp(t) ==
    /\ t \in openTabs
    /\ PutOption(t, IF option[t] = 0 THEN 0 ELSE option[t] - 1)

\* Mutant of NextOption: no Math.min.
NextOptionUnbounded(i, wrap) == i + 1

NextOption(i, wrap) ==
    IF i < LastOption THEN i + 1 ELSE IF wrap THEN 0 ELSE LastOption

\* The wheel the other way, onDown(false), and a click, onDown(true).
OnDown(t, wrap) ==
    /\ t \in openTabs
    /\ PutOption(t, NextOption(option[t], wrap))

\* onWheel of the value: it goes on from what is stored, and shows it.
OnWheel(t, down) ==
    LET value == IF down THEN (IF storedValue = 0 THEN 0 ELSE storedValue - 1)
                 ELSE (IF storedValue = MaxSteps THEN MaxSteps ELSE storedValue + 1) IN
    /\ t \in openTabs
    /\ PutValue(t, value)
    /\ shownValue' = [shownValue EXCEPT ![t] = value]

\* A benchmark sets the value: the subscriber shows it if it changed.
SetByBenchmark(t, value) ==
    /\ t \in openTabs
    /\ PutValue(t, value)
    /\ shownValue' = IF storedValue = value THEN shownValue
                     ELSE [shownValue EXCEPT ![t] = value]

SettingsNext ==
    \E t \in Tabs :
        \/ OpenPage(t)
        \/ ClosePage(t)
        \/ OnUp(t)
        \/ \E wrap \in BOOLEAN : OnDown(t, wrap)
        \/ \E down \in BOOLEAN : OnWheel(t, down)
        \/ \E value \in BenchmarkSteps : SetByBenchmark(t, value)

SettingsSpec == SettingsInit /\ [][SettingsNext]_settingsVars

-----------------------------------------------------------------------------
(* Properties.                                                             *)

SettingsTypeOK ==
    /\ storedOption \in Options \cup {Unset, Unknown}
    /\ storedValue \in Values \cup {Unset}
    /\ openTabs \subseteq Tabs
    /\ option \in [Tabs -> Options]
    /\ backend \in [Tabs -> Options \cup {Unknown}]
    /\ shownValue \in [Tabs -> Values]
    /\ optionWriter \in Tabs \cup {Unset} /\ valueWriter \in Tabs \cup {Unset}

\* Whatever other tabs write: the backend a tab uses is the one its input
\* shows, unless localStorage named none it knows, and the tab that changed a
\* setting last shows what is stored.  (Other tabs show what was there when
\* they last changed it themselves.)
TabsAgree ==
    \A t \in openTabs :
        /\ backend[t] # Unknown => option[t] = backend[t]
        /\ optionWriter = t => option[t] = storedOption
        /\ valueWriter = t => shownValue[t] = storedValue
=============================================================================
