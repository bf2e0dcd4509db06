---------------------------- MODULE PartsProofs ----------------------------
(***************************************************************************)
(* Proofs about the parts of MCParts that need little more than their own  *)
(* properties to be inductive: settings, mouse, history, the registry, the *)
(* plot routine of the C64 and the blocks of a screen.  Each section has   *)
(* the invariant, what a step does to it, and the theorems that follow.    *)
(***************************************************************************)
EXTENDS Settings, Mouse, Navigation, TopList, Registry, C64Plot, BlockGrid, TLAPS

-----------------------------------------------------------------------------
(* Settings.                                                               *)

\* What TabsAgree needs: a tab that has changed a setting left there one that
\* its input can show, so that a page opened again shows it too.
SettingsInv ==
    /\ SettingsTypeOK
    /\ TabsAgree
    /\ optionWriter \in Tabs => storedOption \in Options
    /\ openTabs # {} \/ valueWriter \in Tabs => storedValue \in Values

\* The option after one way of the wheel or the other is an option again.
LEMMA NextIsOption ==
  ASSUME NEW i \in Options, NEW wrap \in BOOLEAN
  PROVE  /\ NextOption(i, wrap) \in Options
         /\ (IF i = 0 THEN 0 ELSE i - 1) \in Options
BY SettingsAssumption DEF NextOption, Options

\* Changing the choice keeps the invariant, whichever option it is.
LEMMA PutOptionKeeps ==
  ASSUME SettingsInv, NEW t \in openTabs, NEW key \in Options, PutOption(t, key)
  PROVE  SettingsInv'
<1> USE SettingsAssumption
<1> USE DEF SettingsInv, SettingsTypeOK, PutOption, Writer, IndexOf
<1>0. t \in Tabs
  OBVIOUS
<1>1. SettingsTypeOK'
  OBVIOUS
<1>2. TabsAgree'
  BY <1>0 DEF TabsAgree
<1> QED BY <1>0, <1>1, <1>2

\* Changing the value and showing it keeps the invariant; an input that already
\* shows what is stored may be left alone.
LEMMA PutValueKeeps ==
  ASSUME SettingsInv, NEW t \in openTabs, NEW value \in Values, PutValue(t, value),
         \/ shownValue' = [shownValue EXCEPT ![t] = value]
         \/ storedValue = value /\ shownValue' = shownValue
  PROVE  SettingsInv'
<1> USE SettingsAssumption
<1> USE DEF SettingsInv, SettingsTypeOK, PutValue, Writer
<1>0. t \in Tabs
  OBVIOUS
<1>1. SettingsTypeOK'
  OBVIOUS
<1>2. TabsAgree'
  BY <1>0 DEF TabsAgree
<1> QED BY <1>0, <1>1, <1>2

\* Opening a page: it reads what is stored, and puts the defaults there if
\* there is nothing.
LEMMA OpenPageKeeps ==
  ASSUME SettingsInv, NEW t \in Tabs, OpenPage(t)
  PROVE  SettingsInv'
<1> DEFINE key == GetPersistent(storedOption, DefaultOption)
           value == GetPersistent(storedValue, DefaultSteps)
<1>1. key \in Options \cup {Unknown} /\ value \in Values
  BY SettingsAssumption DEF SettingsInv, SettingsTypeOK, GetPersistent
<1>2. /\ storedOption' = key /\ storedValue' = value
      /\ openTabs' = openTabs \cup {t}
      /\ option' = [option EXCEPT ![t] = IndexOf(key)]
      /\ backend' = [backend EXCEPT ![t] = key]
      /\ shownValue' = [shownValue EXCEPT ![t] = value]
      /\ optionWriter' = Writer(t, storedOption, key, optionWriter)
      /\ valueWriter' = Writer(t, storedValue, value, valueWriter)
  BY DEF OpenPage
<1>3. IndexOf(key) \in Options /\ (key # Unknown => IndexOf(key) = key)
  BY <1>1, SettingsAssumption DEF IndexOf, Options
<1>4. /\ storedOption # key => key \in Options
      /\ storedOption = key /\ optionWriter \in Tabs => key \in Options
  BY SettingsAssumption DEF SettingsInv, GetPersistent
<1> HIDE DEF key, value
<1>5. SettingsTypeOK'
  BY <1>1, <1>2, <1>3 DEF SettingsInv, SettingsTypeOK, Writer
<1>6. TabsAgree'
  BY <1>1, <1>2, <1>3, <1>4, SettingsAssumption
  DEF SettingsInv, SettingsTypeOK, TabsAgree, Writer
<1> QED BY <1>1, <1>2, <1>4, <1>5, <1>6 DEF SettingsInv, Writer

\* One step of any tab.
LEMMA SettingsStep ==
  ASSUME SettingsInv, [SettingsNext]_settingsVars
  PROVE  SettingsInv'
<1> openTabs \subseteq Tabs
  BY DEF SettingsInv, SettingsTypeOK
<1>1. ASSUME NEW t \in Tabs, OpenPage(t)
      PROVE  SettingsInv'
  BY <1>1, OpenPageKeeps
<1>2. ASSUME NEW t \in Tabs, ClosePage(t)
      PROVE  SettingsInv'
  BY <1>2 DEF ClosePage, SettingsInv, SettingsTypeOK, TabsAgree
<1>3. ASSUME NEW t \in Tabs, OnUp(t)
      PROVE  SettingsInv'
  <2>1. t \in openTabs /\ option[t] \in Options
    BY <1>3 DEF OnUp, SettingsInv, SettingsTypeOK
  <2> QED BY <1>3, <2>1, NextIsOption, PutOptionKeeps DEF OnUp
<1>4. ASSUME NEW t \in Tabs, NEW wrap \in BOOLEAN, OnDown(t, wrap)
      PROVE  SettingsInv'
  <2>1. t \in openTabs /\ option[t] \in Options
    BY <1>4 DEF OnDown, SettingsInv, SettingsTypeOK
  <2> QED BY <1>4, <2>1, NextIsOption, PutOptionKeeps DEF OnDown
<1>5. ASSUME NEW t \in Tabs, NEW wheel \in BOOLEAN, OnWheel(t, wheel)
      PROVE  SettingsInv'
  <2>1. t \in openTabs /\ storedValue \in Values
    BY <1>5 DEF OnWheel, SettingsInv
  <2> DEFINE value == IF wheel THEN (IF storedValue = 0 THEN 0 ELSE storedValue - 1)
                      ELSE (IF storedValue = MaxSteps THEN MaxSteps ELSE storedValue + 1)
  <2>2. value \in Values
    BY <2>1, SettingsAssumption DEF Values
  <2>3. PutValue(t, value) /\ shownValue' = [shownValue EXCEPT ![t] = value]
    BY <1>5 DEF OnWheel
  <2> HIDE DEF value
  <2> QED BY <2>1, <2>2, <2>3, PutValueKeeps
<1>6. ASSUME NEW t \in Tabs, NEW value \in BenchmarkSteps, SetByBenchmark(t, value)
      PROVE  SettingsInv'
  BY <1>6, PutValueKeeps, SettingsAssumption DEF SetByBenchmark
<1>7. CASE UNCHANGED settingsVars
  BY <1>7 DEF settingsVars, SettingsInv, SettingsTypeOK, TabsAgree
<1> QED BY <1>1, <1>2, <1>3, <1>4, <1>5, <1>6, <1>7 DEF SettingsNext

LEMMA SettingsInvariant == SettingsSpec => []SettingsInv
<1>1. SettingsInit => SettingsInv
  BY SettingsAssumption
  DEF SettingsInit, SettingsInv, SettingsTypeOK, TabsAgree, Options, Values
<1>2. SettingsInv /\ [SettingsNext]_settingsVars => SettingsInv'
  BY SettingsStep
<1> QED BY <1>1, <1>2, PTL DEF SettingsSpec

\* Every setting, in localStorage and in each tab, is one that there is.
THEOREM SettingsTypeCorrect == SettingsSpec => []SettingsTypeOK
BY SettingsInvariant, PTL DEF SettingsInv

\* However the handlers of tabs interleave (store.js putPersistent): the input of
\* a tab shows the backend the tab uses, and what is stored if the tab put it.
THEOREM TabsAlwaysAgree == SettingsSpec => []TabsAgree
BY SettingsInvariant, PTL DEF SettingsInv

-----------------------------------------------------------------------------
(* The mouse.                                                              *)

\* What DownIsHeld needs: the page knows of no place while the mouse is outside.
MouseInv ==
    /\ MouseTypeOK
    /\ DownIsHeld
    /\ at = Outside => hover = Null

\* One step of the mouse.
LEMMA MouseStep ==
  ASSUME MouseInv, [MouseNext]_mouseVars
  PROVE  MouseInv'
<1> USE MouseAssumption DEF MouseInv, MouseTypeOK, DownIsHeld
<1>1. ASSUME NEW p \in Points, MouseMove(p)
      PROVE  MouseInv'
  BY <1>1 DEF MouseMove, DownAfterMove
<1>2. CASE MouseOut
  BY <1>2 DEF MouseOut
<1>3. ASSUME NEW b \in MouseButtons, MouseDown(b)
      PROVE  MouseInv'
  <2>1. at # Outside => hover \in Points \cup {Null}
    OBVIOUS
  <2> QED BY <1>3, <2>1 DEF MouseDown
<1>4. ASSUME NEW b \in MouseButtons, MouseUp(b)
      PROVE  MouseInv'
  <2>1. hover # Null => hover \in Points
    OBVIOUS
  <2>2. drawn' \in (Points \X Points) \cup {Null}
    BY <1>4, <2>1 DEF MouseUp
  <2> QED BY <1>4, <2>2 DEF MouseUp
<1>5. CASE MouseReload
  BY <1>5 DEF MouseReload
<1>6. CASE UNCHANGED mouseVars
  BY <1>6 DEF mouseVars
<1> QED BY <1>1, <1>2, <1>3, <1>4, <1>5, <1>6 DEF MouseNext

LEMMA MouseInvariant == MouseSpec => []MouseInv
<1>1. MouseInit => MouseInv
  BY MouseAssumption DEF MouseInit, MouseInv, MouseTypeOK, DownIsHeld
<1>2. MouseInv /\ [MouseNext]_mouseVars => MouseInv'
  BY MouseStep
<1> QED BY <1>1, <1>2, PTL DEF MouseSpec

\* What the page knows of the mouse is where it is, or nothing.
THEOREM MouseTypeCorrect == MouseSpec => []MouseTypeOK
BY MouseInvariant, PTL DEF MouseInv

\* Whatever is pressed and released outside the canvas (gui.js MouseState), a
\* rectangle is drawn only while a button is held.
THEOREM DownAlwaysHeld == MouseSpec => []DownIsHeld
BY MouseInvariant, PTL DEF MouseInv

-----------------------------------------------------------------------------
(* The registry.                                                           *)

\* What LateAnswersAreIgnored needs: objects are numbered in the order of their
\* registration, and a check was sent after its object was registered, to the
\* key that the object has if it is still in the registry.
RegistryInv ==
    /\ RegistryTypeOK
    /\ \A k \in Keys : backends[k] \in {registeredAt[k], Absent}
    /\ \A k, l \in Keys : backends[k] = backends[l] /\ backends[k] # Absent => k = l
    /\ \A check \in asked :
          /\ check.object <= check.sent /\ check.sent <= registrations
          /\ \A k \in Keys : backends[k] = check.object => check.key = k

\* A registration gets a number that nothing in the registry has.
LEMMA RegisterKeeps ==
  ASSUME RegistryInv, NEW k \in Keys, Register(k)
  PROVE  RegistryInv'
<1> USE RegistryAssumption
<1>1. /\ registrations' = registrations + 1
      /\ backends' = [backends EXCEPT ![k] = registrations + 1]
      /\ alive' = alive \cup {registrations + 1}
      /\ registeredAt' = [registeredAt EXCEPT ![k] = registrations + 1]
      /\ asked' = asked /\ host' = host /\ process' = process
      /\ registrations < MaxRegistrations
  BY DEF Register, Registered
<1>2. \A l \in Keys : backends[l] <= registrations
  BY DEF RegistryInv, RegistryTypeOK, Absent
<1>3. RegistryTypeOK'
  BY <1>1 DEF RegistryInv, RegistryTypeOK
<1>4. \A l \in Keys : backends'[l] = IF l = k THEN registrations + 1 ELSE backends[l]
  BY <1>1 DEF RegistryInv, RegistryTypeOK
<1>5. \A l \in Keys : backends'[l] \in {registeredAt'[l], Absent}
  BY <1>1, <1>4 DEF RegistryInv, RegistryTypeOK
<1>6. \A l, m \in Keys : backends'[l] = backends'[m] /\ backends'[l] # Absent => l = m
  BY <1>2, <1>4 DEF RegistryInv, RegistryTypeOK
<1>7. \A check \in asked' :
          /\ check.object <= check.sent /\ check.sent <= registrations'
          /\ \A l \in Keys : backends'[l] = check.object => check.key = l
  BY <1>1, <1>4 DEF RegistryInv, RegistryTypeOK
<1> QED BY <1>3, <1>5, <1>6, <1>7 DEF RegistryInv

\* A round of checks asks each object in the registry under its own key.
LEMMA CheckKeeps ==
  ASSUME RegistryInv, CheckBackends
  PROVE  RegistryInv'
<1>1. ASSUME NEW check \in asked' \ asked
      PROVE  \E k \in Keys :
                /\ backends[k] # Absent
                /\ check = [key |-> k, object |-> backends[k], sent |-> registrations]
  BY DEF CheckBackends
<1>2. \A k \in Keys : backends[k] # Absent =>
          /\ backends[k] \in 1..MaxRegistrations
          /\ backends[k] <= registrations /\ registrations \in 1..MaxRegistrations
  BY RegistryAssumption DEF RegistryInv, RegistryTypeOK, Absent
<1>3. ASSUME NEW check \in asked' \ asked
      PROVE  /\ check \in [key : Keys, object : 1..MaxRegistrations, sent : 1..MaxRegistrations]
             /\ check.object <= check.sent /\ check.sent <= registrations
             /\ \A k \in Keys : backends[k] = check.object => check.key = k
  BY <1>1, <1>2 DEF RegistryInv
<1> QED BY <1>3 DEF CheckBackends, RegistryInv, RegistryTypeOK

\* An answer takes away its check and marks at most its object.
LEMMA AnsweredKeeps ==
  ASSUME RegistryInv, NEW check \in asked, Answered(check)
  PROVE  /\ RegistryInv'
         /\ alive \subseteq alive' \cup {check.object}
         /\ check \notin asked'
<1>1. /\ alive' = alive \ {check.object}
      /\ asked' = asked \ {check}
      /\ UNCHANGED <<host, backends, registrations, registeredAt, process>>
  BY DEF Answered, AfterResponse, AfterError, ResCode
<1> QED BY <1>1 DEF RegistryInv, RegistryTypeOK

LEMMA RegistryStep ==
  ASSUME RegistryInv, [RegistryNext]_registryVars
  PROVE  RegistryInv'
<1>1. ASSUME NEW k \in Keys, Register(k)
      PROVE  RegistryInv'
  BY <1>1, RegisterKeeps
<1>2. ASSUME NEW k \in Keys, NEW h \in Hosts, HostChanges(k, h)
      PROVE  RegistryInv'
  BY <1>2 DEF HostChanges, RegistryInv, RegistryTypeOK
<1>3. CASE BadRequest
  BY <1>3, RegistryAssumption DEF BadRequest, RegistryInv, RegistryTypeOK, Absent
<1>4. CASE Restart
  BY <1>4 DEF Restart, RegistryInv, RegistryTypeOK
<1>5. CASE CheckBackends
  BY <1>5, CheckKeeps
<1>6. ASSUME NEW check \in asked, Answered(check)
      PROVE  RegistryInv'
  BY <1>6, AnsweredKeeps
<1>7. CASE UNCHANGED registryVars
  BY <1>7 DEF registryVars, RegistryInv, RegistryTypeOK
<1> QED BY <1>1, <1>2, <1>3, <1>4, <1>5, <1>6, <1>7 DEF RegistryNext

LEMMA RegistryInvariant == RegistrySpec => []RegistryInv
<1>1. RegistryInit => RegistryInv
  BY RegistryAssumption DEF RegistryInit, RegistryInv, RegistryTypeOK, Hosts, Absent
<1>2. RegistryInv /\ [RegistryNext]_registryVars => RegistryInv'
  BY RegistryStep
<1> QED BY <1>1, <1>2, PTL DEF RegistrySpec

\* Objects, checks and registrations are numbered as the registry numbers them.
THEOREM RegistryTypeCorrect == RegistrySpec => []RegistryTypeOK
BY RegistryInvariant, PTL DEF RegistryInv

\* The step that takes a backend off the list is the answer to a check that was
\* sent after the backend registered.
LEMMA OfflineStep ==
  ASSUME RegistryInv, [RegistryNext]_registryVars, NEW k \in Keys,
         IsAlive(k), ~IsAlive(k)', process' = "runs"
  PROVE  \E check \in asked \ asked' :
            check.key = k /\ check.sent >= registeredAt[k]
<1>0. /\ backends[k] # Absent /\ backends[k] \in alive
      /\ ~(backends'[k] # Absent /\ backends'[k] \in alive')
  BY DEF IsAlive
<1>1. ASSUME NEW l \in Keys, Register(l)
      PROVE  FALSE
  <2>1. /\ backends' = [backends EXCEPT ![l] = registrations + 1]
        /\ alive' = alive \cup {registrations + 1}
        /\ registrations \in Nat
    BY <1>1, RegistryAssumption DEF Register, Registered, RegistryInv, RegistryTypeOK
  <2> QED BY <1>0, <2>1 DEF RegistryInv, RegistryTypeOK, Absent
<1>2. ASSUME NEW check \in asked, Answered(check)
      PROVE  check \in asked \ asked' /\ check.key = k /\ check.sent >= registeredAt[k]
  <2>1. check \notin asked' /\ backends[k] = check.object
    BY <1>0, <1>2, AnsweredKeeps DEF Answered
  <2>2. check.key = k /\ backends[k] = registeredAt[k] /\ check.object <= check.sent
    BY <1>0, <2>1 DEF RegistryInv
  <2>3. check.sent \in Nat /\ check.object \in Nat
    BY DEF RegistryInv, RegistryTypeOK
  <2> QED BY <2>1, <2>2, <2>3
<1>3. ASSUME NEW l \in Keys, NEW h \in Hosts, HostChanges(l, h)
      PROVE  FALSE
  BY <1>0, <1>3 DEF HostChanges
<1>4. ~BadRequest /\ ~Restart /\ ~CheckBackends /\ ~UNCHANGED registryVars
  BY <1>0 DEF BadRequest, Restart, CheckBackends, registryVars
<1> QED BY <1>1, <1>2, <1>3, <1>4 DEF RegistryNext

\* A backend goes offline by the answer to a check that was sent after its last
\* registration (registry.js checkBackends), never by an earlier one.
THEOREM LateAnswers == RegistrySpec => LateAnswersAreIgnored
<1>1. RegistryInv /\ [RegistryNext]_registryVars =>
        [\A k \in Keys :
            IsAlive(k) /\ ~IsAlive(k)' /\ process' = "runs" =>
                \E check \in asked \ asked' :
                    check.key = k /\ check.sent >= registeredAt[k]]_registryVars
  BY OfflineStep
<1> QED BY <1>1, RegistryInvariant, PTL DEF RegistrySpec, LateAnswersAreIgnored

-----------------------------------------------------------------------------
(* The plot routine of the C64.                                            *)

\* Numbers that fit a byte are themselves, without a carry.
LEMMA NoCarry ==
  ASSUME NEW n \in 0..255
  PROVE  Byte(n) = n /\ Carry(n) = 0
BY DEF Byte, Carry

\* Whatever is added, a byte is left.
LEMMA ByteIsByte ==
  ASSUME NEW n \in Nat
  PROVE  Byte(n) \in 0..255 /\ Carry(n) \in Nat /\ n = 256 * Carry(n) + Byte(n)
BY DEF Byte, Carry

\* The high byte: 32 for the bitmap, 5/4 of the line of cells, and one more in
\* the right part of the screen.  No addition carries.
LEMMA HighByte ==
  ASSUME NEW x \in 0 .. XEnd - 1, NEW y \in 0 .. ScreenLines - 1
  PROVE  HiByte(x, y) = 32 + y \div 8 + (y \div 8) \div 4 + x \div 128
<1> USE DEF XEnd, ScreenLines
<1>1. PICK cy \in 0..24 : y \div 8 = cy
  OBVIOUS
<1>2. PICK q \in 0..6 : cy \div 4 = q
  OBVIOUS
<1>3. PICK h \in 0..1 : x \div 128 = h
  OBVIOUS
<1>4. Byte(cy + q) = cy + q /\ Carry(cy + q) = 0
  BY NoCarry
<1>5. Byte(32 + (cy + q) + 0) = 32 + cy + q /\ Carry(32 + (cy + q) + 0) = 0
  BY NoCarry
<1>6. Byte(h * 256 + 0) = 0 /\ Carry(h * 256 + 0) = h
  BY DEF Byte, Carry
<1>7. Byte(0 + (32 + cy + q) + h) = 32 + cy + q + h
  BY NoCarry
<1> QED BY <1>1, <1>2, <1>3, <1>4, <1>5, <1>6, <1>7 DEF HiByte

\* The low byte before the line in the cell: 64 for each line of cells modulo 4,
\* and 8 for each column of cells modulo 32; their sum may carry once.
LEMMA LowSum ==
  ASSUME NEW x \in 0 .. XEnd - 1, NEW y \in 0 .. ScreenLines - 1
  PROVE  LoSum(x, y) = 8 * ((x \div 4) % 32) + 64 * ((y \div 8) % 4)
<1> USE DEF XEnd, ScreenLines
<1>1. PICK cy \in 0..24 : y \div 8 = cy
  OBVIOUS
<1>2. PICK cx \in 0..39 : x \div 4 = cx
  OBVIOUS
<1>3. Byte((cy * 8) * 8) = 64 * (cy % 4)
  BY DEF Byte
<1>4. Byte(64 * (cy % 4) * 4) = 0
  BY DEF Byte
<1>5. Byte((cx * 4) * 2) = 8 * (cx % 32)
  BY DEF Byte
<1>6. Byte(64 * (cy % 4) + 0) = 64 * (cy % 4)
  BY DEF Byte
<1> QED BY <1>1, <1>2, <1>3, <1>4, <1>5, <1>6 DEF LoSum

\* What the comment at plot states of a pixel's address, and what a word is.
CommentHolds(a, x, y) ==
    /\ a = 8192 + ((y \div 8) * 8) * 40 + ((x \div 4) * 4) * 2 + (y % 8)
    /\ a < 8192 + 8000
IsWord(a) == a \in Nat /\ a < 65536

\* The bytes and their carries give the address the comment at plot states.
LEMMA AddressIsRight ==
  ASSUME NEW x \in 0 .. XEnd - 1, NEW y \in 0 .. ScreenLines - 1
  PROVE  CommentHolds(AddressOf(x, y), x, y)
<1> USE DEF XEnd, ScreenLines
<1>1. PICK cy \in 0..24, ly \in 0..7 : y \div 8 = cy /\ y % 8 = ly
  OBVIOUS
<1>2. PICK q \in 0..6, r \in 0..3 : cy \div 4 = q /\ cy % 4 = r /\ cy = 4 * q + r
  OBVIOUS
<1>3. PICK cx \in 0..39 : x \div 4 = cx
  OBVIOUS
<1>4. PICK h \in 0..1, c \in 0..31 : x \div 128 = h /\ cx % 32 = c /\ cx = 32 * h + c
  BY <1>3
<1>5. HiByte(x, y) = 32 + cy + q + h
  BY <1>1, <1>2, <1>4, HighByte
<1>6. LoSum(x, y) = 8 * c + 64 * r
  BY <1>1, <1>2, <1>3, <1>4, LowSum
<1>7. PICK k \in 0..1, l \in 0..31 :
          HiCarry(x, y) = k /\ Byte(LoSum(x, y)) = 8 * l /\ c + 8 * r = 32 * k + l
  BY <1>6 DEF HiCarry, Carry, Byte
<1>8. Byte(32 + cy + q + h + k) = 32 + cy + q + h + k /\ Byte(8 * l + ly) = 8 * l + ly
  BY NoCarry
<1>9. AddressOf(x, y) = (32 + cy + q + h + k) * 256 + 8 * l + ly
  BY <1>1, <1>5, <1>7, <1>8 DEF AddressOf, LoByte
<1> QED BY <1>1, <1>2, <1>3, <1>4, <1>7, <1>9, Z3 DEF CommentHolds

\* Whatever the pixel, also below the screen, only natural numbers are added.
LEMMA HiIsNat ==
  ASSUME NEW x \in 0 .. XEnd - 1, NEW y \in 0..255
  PROVE  /\ HiByte(x, y) + HiCarry(x, y) \in Nat
         /\ Byte(LoSum(x, y)) + (y % 8) \in Nat
<1>1. \A n \in Nat : Byte(n) \in Nat /\ Carry(n) \in Nat /\ n \div 4 \in Nat
  BY DEF Byte, Carry
<1>2. x \div 128 \in Nat /\ x \div 4 \in Nat /\ y \div 8 \in Nat /\ y % 8 \in Nat
  BY DEF XEnd
<1>3. HiByte(x, y) \in Nat
  <2>1. PICK third \in Nat, quarter \in Nat, right \in Nat :
            y \div 8 = third /\ third \div 4 = quarter /\ x \div 128 = right
    BY <1>1, <1>2
  <2>2. PICK based \in Nat :
            32 + Byte(third + quarter) + Carry(third + quarter) = based
    BY <1>1
  <2>3. PICK rolled \in Nat : right * 256 + Carry(based) = rolled
    BY <1>1
  <2> QED BY <1>1, <2>1, <2>2, <2>3 DEF HiByte
<1>4. LoSum(x, y) \in Nat
  <2>1. PICK cell \in Nat, line \in Nat : x \div 4 = cell /\ y \div 8 = line
    BY <1>2
  <2> QED BY <1>1, <2>1 DEF LoSum
<1> QED BY <1>1, <1>2, <1>3, <1>4 DEF HiCarry

\* The loop plots each column of each of 256 lines; the lines that the loop never
\* stops to count have no address to be right.
PlotInv ==
    /\ PlotTypeOK
    /\ plotted # <<>> => plotted \in (0 .. XEnd - 1) \X (0..255)
    /\ PlotAddress

\* A pixel gets a word and an even shift, on the screen those of its place.
LEMMA PixelIsPlotted ==
  ASSUME NEW x \in 0 .. XEnd - 1, NEW y \in 0..255
  PROVE  /\ IsWord(AddressOf(x, y))
         /\ BitsOf(x) \in {0, 2, 4, 6} /\ BitsOf(x) = (3 - (x % 4)) * 2
         /\ y < ScreenLines => CommentHolds(AddressOf(x, y), x, y)
<1>1. IsWord(AddressOf(x, y))
  <2>1. PICK hi \in 0..255, lo \in 0..255 : AddressOf(x, y) = hi * 256 + lo
    BY HiIsNat, ByteIsByte DEF AddressOf, LoByte
  <2> QED BY <2>1, Z3 DEF IsWord
<1>2. BitsOf(x) \in {0, 2, 4, 6} /\ BitsOf(x) = (3 - (x % 4)) * 2
  <2>1. x % 4 \in 0..3
    BY DEF XEnd
  <2>2. PICK r \in 0..3 : x % 4 = r
    BY <2>1
  <2> QED BY <2>2 DEF BitsOf
<1>3. y < ScreenLines => y \in 0 .. ScreenLines - 1
  BY DEF ScreenLines
<1> QED BY <1>1, <1>2, <1>3, AddressIsRight

LEMMA PlotStep ==
  ASSUME PlotInv, [PlotNext]_plotVars
  PROVE  PlotInv'
<1>1. CASE PlotNext
  <2>1. col \in 0 .. XEnd - 1 /\ row \in 0..255
    BY DEF PlotInv, PlotTypeOK
  <2>2. col' \in 0 .. XEnd - 1
    <3>1. \/ col + 1 # XEnd /\ col' = col + 1
          \/ col' = 0
      BY <1>1 DEF PlotNext
    <3> QED BY <2>1, <3>1 DEF XEnd
  <2>3. row' \in 0..255
    <3>1. Byte(row + 1) \in 0..255
      BY <2>1, ByteIsByte
    <3> QED BY <1>1, <2>1, <3>1 DEF PlotNext
  <2>4. plotted' = <<col, row>> /\ address' = AddressOf(col, row) /\ bits' = BitsOf(col)
    BY <1>1 DEF PlotNext
  <2>5. PlotTypeOK'
    <3>1. IsWord(AddressOf(col, row)) /\ BitsOf(col) \in {0, 2, 4, 6}
      BY <2>1, PixelIsPlotted
    <3> QED BY <2>2, <2>3, <2>4, <3>1, Z3 DEF PlotTypeOK, IsWord
  <2>6. PlotAddress'
    <3>1. /\ row < ScreenLines => CommentHolds(AddressOf(col, row), col, row)
          /\ BitsOf(col) = (3 - (col % 4)) * 2
      BY <2>1, PixelIsPlotted
    <3>2. plotted'[1] = col /\ plotted'[2] = row
      BY <2>4
    <3> QED BY <2>4, <3>1, <3>2, Z3 DEF PlotAddress, CommentHolds, ScreenLines
  <2> QED BY <2>1, <2>4, <2>5, <2>6 DEF PlotInv, XEnd
<1>2. CASE UNCHANGED plotVars
  <2>1. PlotTypeOK' /\ (plotted # <<>> => plotted \in (0 .. XEnd - 1) \X (0..255))'
    BY <1>2 DEF plotVars, PlotInv, PlotTypeOK, XEnd
  <2>2. PlotAddress'
    BY <1>2, Z3 DEF plotVars, PlotInv, PlotAddress, ScreenLines
  <2> QED BY <2>1, <2>2 DEF PlotInv
<1> QED BY <1>1, <1>2

LEMMA PlotInvariant == PlotSpec => []PlotInv
<1>1. PlotInit => PlotInv
  BY DEF PlotInit, PlotInv, PlotTypeOK, PlotAddress, XEnd
<1>2. PlotInv /\ [PlotNext]_plotVars => PlotInv'
  BY PlotStep
<1> QED BY <1>1, <1>2, PTL DEF PlotSpec

\* The registers of the C64 are bytes, and its addresses words.
THEOREM PlotTypeCorrect == PlotSpec => []PlotTypeOK
BY PlotInvariant, PTL DEF PlotInv

\* Each of the 32000 pixels of the screen gets the byte and the bits that the
\* comment at plot (main.asm) states.
THEOREM PlotAddressCorrect == PlotSpec => []PlotAddress
BY PlotInvariant, PTL DEF PlotInv

-----------------------------------------------------------------------------
(* Moving through the fractal and its history.                             *)

Squares == {place \in Place : Square(place)}
Requests ==
    [kind : {"none", "push", "max_n", "back"}, place : Squares, max_n : Nat,
     entry : EntryIds \cup {NoData}, pushed : Place]
Entries == [id : EntryIds \cup {NoData}, place : Squares]

\* The variables, with places that are squares and sequences that are sequences.
NavigationTypes ==
    /\ maxN \in MaxNs
    /\ entries \in Seq(Entries) /\ position \in 1 .. Len(entries)
    /\ nextId \in 1 .. MaxIds + 1
    /\ DOMAIN historyData \subseteq 1 .. nextId - 1
    /\ historyData \in [DOMAIN historyData -> [place : Squares, max_n : Nat]]
    /\ currentHistoryId \in DOMAIN historyData \cup {NoData}
    /\ busy \in BOOLEAN
    /\ current \in Requests
    /\ request \in Requests \cup {NoData}
    /\ request # NoData => busy
    /\ shown \in EntryIds \cup {NoData}

\* The browser's entries and the data the page keeps of them agree on the place,
\* and no entry has an id that is still to be given.
EntriesAgree ==
    \A p \in 1 .. Len(entries) :
        /\ entries[p].id \in EntryIds => entries[p].id < nextId
        /\ entries[p].id \in DOMAIN historyData =>
               historyData[entries[p].id].place = entries[p].place

\* What is gone back to is the place that was pushed.
Fits(r) == r.kind = "back" => r.place = r.pushed

NavigationInv ==
    /\ NavigationTypes
    /\ EntriesAgree
    /\ Fits(current)
    /\ request # NoData => Fits(request)

\* The invariant says what the types and the properties say.
LEMMA NavigationConclusions ==
  ASSUME NavigationInv
  PROVE  NavigationTypeOK /\ BackShowsWhatWasPushed
<1> USE NavigationAssumption
<1>1. \A r \in Requests : ParametersOK(r) /\ Square(r.place)
  BY DEF Requests, ParametersOK, Squares
<1>2. ASSUME NEW p \in DOMAIN entries
      PROVE  entries[p].id \in EntryIds \cup {NoData} /\ entries[p].place \in Place
  <2>1. entries[p] \in Entries
    BY DEF NavigationInv, NavigationTypes
  <2> QED BY <2>1 DEF Entries, Squares
<1>3. \A id \in DOMAIN historyData : historyData[id].place \in Place /\ historyData[id].max_n \in Nat
  BY DEF NavigationInv, NavigationTypes, Squares
<1>4. NavigationTypeOK
  BY <1>1, <1>2, <1>3 DEF NavigationInv, NavigationTypes, NavigationTypeOK, EntryIds
<1>5. BackShowsWhatWasPushed
  BY DEF NavigationInv, BackShowsWhatWasPushed, Fits
<1> QED BY <1>4, <1>5 DEF NavigationInv

\* What pushState does to the session history: what was forward is dropped.
LEMMA PushedEntries ==
  ASSUME NEW S, NEW s \in Seq(S), NEW n \in 1 .. Len(s), NEW e \in S
  PROVE  LET t == Append(SubSeq(s, 1, n), e) IN
         /\ t \in Seq(S) /\ Len(t) = n + 1
         /\ \A i \in 1 .. n + 1 : t[i] = IF i <= n THEN s[i] ELSE e
<1> DEFINE u == SubSeq(s, 1, n)
<1>1. u \in Seq(S) /\ Len(u) = n /\ \A i \in 1..n : u[i] = s[i]
  OBVIOUS
<1> HIDE DEF u
<1>2. Append(u, e) \in Seq(S) /\ Len(Append(u, e)) = n + 1
  BY <1>1
<1>3. \A i \in 1 .. n + 1 : Append(u, e)[i] = IF i <= n THEN s[i] ELSE e
  BY <1>1
<1> QED BY <1>2, <1>3 DEF u

\* A rectangle drawn with the mouse becomes a square (asRectWithAspectRatio).
LEMMA AsRectIsSquare ==
  ASSUME NEW first \in Int \X Int, NEW second \in Int \X Int
  PROVE  /\ AsRect(first, second) \in [x : Int, y : Int, dx : Nat, dy : Nat]
         /\ AsRect(first, second).dx = AsRect(first, second).dy
BY DEF AsRect

\* Zooming into a square of a place of squares gives another.
LEMMA ZoomedIsRequest ==
  ASSUME NavigationInv, NEW first \in Int \X Int, NEW second \in Int \X Int
  PROVE  /\ Zoomed(AsRect(first, second)) \in Requests
         /\ Fits(Zoomed(AsRect(first, second)))
<1> USE NavigationAssumption
<1> DEFINE R == [x : Int, y : Int, dx : Nat, dy : Nat]
           rect == AsRect(first, second)
           place == [current.place EXCEPT !.zooms = Append(@, rect)]
<1>1. rect \in R /\ rect.dx = rect.dy
  BY AsRectIsSquare
<1>2. PICK b \in Benchmarks, z \in Seq(R) :
          /\ current.place = [start |-> b, zooms |-> z]
          /\ \A i \in DOMAIN z : z[i].dx = z[i].dy
  BY DEF NavigationInv, NavigationTypes, Requests, Squares, Place, Square
<1> HIDE DEF R, rect
<1>3. Append(z, rect) \in Seq(R) /\ \A i \in DOMAIN Append(z, rect) :
          Append(z, rect)[i].dx = Append(z, rect)[i].dy
  BY <1>1, <1>2
<1>4. place = [start |-> b, zooms |-> Append(z, rect)]
  <2>1. current.place = [start |-> b, zooms |-> z] /\ current.place.zooms = z
    BY <1>2
  <2>2. \A e : [[start |-> b, zooms |-> z] EXCEPT !.zooms = e] = [start |-> b, zooms |-> e]
    OBVIOUS
  <2>3. place = [current.place EXCEPT !.zooms = Append(z, rect)]
    BY <2>1
  <2> QED BY <2>1, <2>2, <2>3
<1>5. place \in Squares
  BY <1>3, <1>4 DEF Squares, Place, Square, R
<1>6. Home \in Place
  BY DEF Home, Place
<1>7. maxN \in Nat
  BY DEF NavigationInv, NavigationTypes
<1> HIDE DEF place
<1>8. Zoomed(rect) = [kind |-> "push", place |-> place, max_n |-> maxN,
                      entry |-> NoData, pushed |-> Home]
  BY DEF Zoomed, Parameters, place
<1> QED BY <1>5, <1>6, <1>7, <1>8 DEF Requests, Fits, rect

\* The other places there are: where benchmarks start.
LEMMA StartsAreSquares ==
  ASSUME NEW b \in Benchmarks
  PROVE  [start |-> b, zooms |-> <<>>] \in Squares
BY DEF Squares, Place, Square

\* A calculation of a new place: its entry has an id of its own, and its data.
LEMMA PushKeeps ==
  ASSUME NavigationInv, NEW r \in Requests, r.kind = "push",
         Fits(r), maxN' \in MaxNs,
         busy' = TRUE, current' = r, request' = NoData, Push(r)
  PROVE  NavigationInv'
<1> USE NavigationAssumption
<1>1. /\ nextId \in EntryIds /\ nextId' = nextId + 1 /\ currentHistoryId' = nextId
      /\ historyData' = [id \in DOMAIN historyData \cup {nextId} |->
             IF id = nextId THEN [place |-> r.place, max_n |-> maxN'] ELSE historyData[id]]
      /\ entries' = Append(SubSeq(entries, 1, position), [id |-> nextId, place |-> r.place])
      /\ position' = position + 1 /\ shown' = nextId
  BY DEF Push, HistoryRecord
<1>2. r.place \in Squares /\ maxN' \in Nat
  BY DEF Requests
<1>3. /\ entries \in Seq(Entries) /\ position \in 1 .. Len(entries)
      /\ DOMAIN historyData \subseteq 1 .. nextId - 1 /\ nextId \in 1 .. MaxIds
      /\ \A id \in DOMAIN historyData : historyData[id] \in [place : Squares, max_n : Nat]
  BY <1>1 DEF NavigationInv, NavigationTypes, EntryIds
<1>4. [id |-> nextId, place |-> r.place] \in Entries
  BY <1>1, <1>2 DEF Entries
<1>5. /\ entries' \in Seq(Entries) /\ Len(entries') = position + 1
      /\ \A p \in 1 .. position + 1 :
            entries'[p] = IF p <= position THEN entries[p]
                          ELSE [id |-> nextId, place |-> r.place]
  BY <1>1, <1>3, <1>4, PushedEntries
<1>6. /\ DOMAIN historyData' = DOMAIN historyData \cup {nextId}
      /\ historyData'[nextId] = [place |-> r.place, max_n |-> maxN']
      /\ \A id \in DOMAIN historyData : historyData'[id] = historyData[id]
  BY <1>1, <1>3
<1>7. historyData' \in [DOMAIN historyData' -> [place : Squares, max_n : Nat]]
  <2>1. \A i \in DOMAIN historyData' : historyData'[i] \in [place : Squares, max_n : Nat]
    BY <1>2, <1>3, <1>6
  <2>2. historyData' = [i \in DOMAIN historyData' |-> historyData'[i]]
    BY <1>1
  <2> QED BY <2>1, <2>2
<1>8. NavigationTypes'
  <2>1. nextId' \in 1 .. MaxIds + 1 /\ DOMAIN historyData' \subseteq 1 .. nextId' - 1
    BY <1>1, <1>3, <1>6
  <2>2. position' \in 1 .. Len(entries')
    BY <1>1, <1>3, <1>5
  <2>3. currentHistoryId' \in DOMAIN historyData'
    BY <1>1, <1>6
  <2> QED BY <1>1, <1>5, <1>7, <2>1, <2>2, <2>3 DEF NavigationTypes, EntryIds
<1>9. EntriesAgree'
  <2> SUFFICES ASSUME NEW p \in 1 .. position + 1
               PROVE  /\ entries'[p].id \in EntryIds => entries'[p].id < nextId + 1
                      /\ entries'[p].id \in DOMAIN historyData' =>
                             historyData'[entries'[p].id].place = entries'[p].place
    BY <1>1, <1>5 DEF EntriesAgree, EntryIds
  <2>1. CASE p <= position
    <3>1. /\ entries'[p] = entries[p]
          /\ entries[p].id \in EntryIds => entries[p].id < nextId
          /\ entries[p].id \in DOMAIN historyData =>
                 historyData[entries[p].id].place = entries[p].place
      <4>1. p \in 1 .. Len(entries) /\ p \in 1 .. position + 1
        BY <1>3, <2>1
      <4>2. entries'[p] = entries[p]
        BY <1>5, <2>1, <4>1
      <4> QED BY <4>1, <4>2 DEF NavigationInv, EntriesAgree
    <3>2. entries[p].id # nextId
      BY <1>1, <1>3, <3>1
    <3>3. nextId \in Nat /\ (entries[p].id \in EntryIds => entries[p].id \in Nat)
      BY <1>3 DEF EntryIds
    <3>4. entries[p].id \in EntryIds => entries'[p].id < nextId + 1
      BY <3>1, <3>3
    <3>5. entries[p].id \in DOMAIN historyData' =>
              historyData'[entries[p].id].place = entries[p].place
      BY <1>6, <3>1, <3>2
    <3> QED BY <3>1, <3>4, <3>5
  <2>2. CASE p = position + 1
    <3>1. entries'[p] = [id |-> nextId, place |-> r.place]
      BY <1>3, <1>5, <2>2
    <3> QED BY <1>3, <1>6, <3>1
  <2> QED BY <1>3, <2>1, <2>2
<1> QED BY <1>8, <1>9 DEF NavigationInv, Fits

\* A calculation with another max_n: only the data of the entry pushed last are
\* written, and not where they came from.
LEMMA UpdateKeeps ==
  ASSUME NavigationInv, NEW r \in Requests, r.kind = "max_n", maxN' \in MaxNs,
         position' \in 1 .. Len(entries),
         busy' = TRUE, current' = r, request' = NoData, Update(r)
  PROVE  NavigationInv'
<1> USE NavigationAssumption
<1>1. /\ UNCHANGED <<entries, currentHistoryId, nextId, shown>>
      /\ DOMAIN historyData' = DOMAIN historyData
      /\ historyData' \in [DOMAIN historyData -> [place : Squares, max_n : Nat]]
      /\ \A id \in DOMAIN historyData : historyData'[id].place = historyData[id].place
      /\ currentHistoryId # NoData => historyData'[currentHistoryId].max_n = r.max_n
  <2>1. r.max_n \in Nat
    BY DEF Requests
  <2>2. /\ historyData \in [DOMAIN historyData -> [place : Squares, max_n : Nat]]
        /\ currentHistoryId \in DOMAIN historyData \cup {NoData}
    BY DEF NavigationInv, NavigationTypes
  <2>3. \A data \in [place : Squares, max_n : Nat] :
            /\ UpdatedEntry(data, r) \in [place : Squares, max_n : Nat]
            /\ UpdatedEntry(data, r).place = data.place
            /\ UpdatedEntry(data, r).max_n = r.max_n
    BY <2>1 DEF UpdatedEntry
  <2>4. CASE currentHistoryId = NoData
    BY <2>2, <2>4 DEF Update
  <2>5. CASE currentHistoryId # NoData
    <3>1. historyData' = [historyData EXCEPT ![currentHistoryId] =
                             UpdatedEntry(historyData[currentHistoryId], r)]
      BY <2>5 DEF Update
    <3>2. currentHistoryId \in DOMAIN historyData
      BY <2>2, <2>5
    <3> QED BY <2>2, <2>3, <3>1, <3>2 DEF Update
  <2> QED BY <2>4, <2>5
<1>2. NavigationTypes'
  BY <1>1 DEF NavigationInv, NavigationTypes
<1>3. EntriesAgree'
  BY <1>1 DEF NavigationInv, EntriesAgree
<1> QED BY <1>2, <1>3 DEF NavigationInv, Fits

\* A calculation of a place gone back to: it is the one that was pushed.
LEMMA BackKeeps ==
  ASSUME NavigationInv, NEW r \in Requests, r.kind = "back",
         Fits(r), maxN' \in MaxNs,
         position' \in 1 .. Len(entries),
         busy' = TRUE, current' = r, request' = NoData,
         shown' = r.entry, UNCHANGED historyVars
  PROVE  NavigationInv'
<1>1. NavigationTypes'
  BY DEF NavigationInv, NavigationTypes, historyVars, Requests
<1>2. EntriesAgree'
  BY DEF NavigationInv, EntriesAgree, historyVars
<1> QED BY <1>1, <1>2 DEF NavigationInv, Fits

LEMMA BeginKeeps ==
  ASSUME NavigationInv, NEW r \in Requests, Fits(r), maxN' \in MaxNs,
         NEW p \in 1 .. Len(entries), Begin(r, p)
  PROVE  NavigationInv'
<1>1. busy' = TRUE /\ current' = r /\ request' = NoData
  BY DEF Begin
<1>2. CASE r.kind = "push" /\ Push(r)
  BY <1>1, <1>2, PushKeeps
<1>3. CASE r.kind = "max_n" /\ Update(r) /\ position' = p
  BY <1>1, <1>3, UpdateKeeps
<1>4. CASE r.kind = "back" /\ shown' = r.entry /\ position' = p /\ UNCHANGED historyVars
  BY <1>1, <1>4, BackKeeps
<1> QED BY <1>2, <1>3, <1>4 DEF Begin

\* The page waits with a request, or without one, and nothing else changes but
\* max_n and the entry of the browser.
LEMMA WaitingKeeps ==
  ASSUME NavigationInv, maxN' \in MaxNs, position' \in 1 .. Len(entries),
         UNCHANGED <<historyVars, current, shown>>,
         busy' \in BOOLEAN, request' \in Requests \cup {NoData},
         request' # NoData => busy' /\ Fits(request')
  PROVE  NavigationInv'
<1>1. NavigationTypes'
  BY DEF NavigationInv, NavigationTypes, historyVars
<1>2. EntriesAgree'
  BY DEF NavigationInv, EntriesAgree, historyVars
<1> QED BY <1>1, <1>2 DEF NavigationInv, historyVars, Fits

\* A request is made: it starts, is refused or waits.
LEMMA SubmitKeeps ==
  ASSUME NavigationInv, NEW r \in Requests, Fits(r), maxN' \in MaxNs,
         NEW p \in 1 .. Len(entries), Submit(r, p)
  PROVE  NavigationInv'
<1>1. CASE ~busy /\ Begin(r, p)
  BY <1>1, BeginKeeps
<1>2. CASE ~busy /\ position' = p /\ UNCHANGED <<historyVars, calculationVars>>
  <2>1. request = NoData
    BY <1>2 DEF NavigationInv, NavigationTypes
  <2> QED BY <1>2, <2>1, WaitingKeeps DEF calculationVars, NavigationInv, NavigationTypes
<1>3. CASE /\ busy /\ request' = r /\ position' = p
           /\ UNCHANGED <<historyVars, busy, current, shown>>
  BY <1>3, WaitingKeeps
<1> QED BY <1>1, <1>2, <1>3 DEF Submit

\* One step of the user, the browser or a backend.
LEMMA NavigationStep ==
  ASSUME NavigationInv, [NavigationNext]_navigationVars
  PROVE  NavigationInv'
<1> USE NavigationAssumption
<1>0. /\ maxN \in MaxNs /\ maxN \in Nat
      /\ entries \in Seq(Entries) /\ position \in 1 .. Len(entries)
      /\ DOMAIN entries = 1 .. Len(entries)
      /\ current \in Requests /\ request \in Requests \cup {NoData}
      /\ current.place \in Squares
  BY DEF NavigationInv, NavigationTypes, Requests
<1>1. CASE End
  <2>1. CASE request # NoData /\ Begin(request, position)
    <3>1. request \in Requests /\ maxN' = maxN /\ Fits(request)
      BY <1>0, <1>1, <2>1 DEF End, NavigationInv
    <3> QED BY <1>0, <2>1, <3>1, BeginKeeps
  <2>2. CASE /\ busy' = FALSE /\ request' = NoData
             /\ UNCHANGED <<position, historyVars, current, shown>>
    BY <1>0, <1>1, <2>2, WaitingKeeps DEF End
  <2> QED BY <1>1, <2>1, <2>2 DEF End
<1>2. ASSUME NEW pair \in Drawn, Zoom(pair[1], pair[2])
      PROVE  NavigationInv'
  <2>1. pair[1] \in Int \X Int /\ pair[2] \in Int \X Int
    OBVIOUS
  <2>2. maxN' = maxN /\ Submit(Zoomed(AsRect(pair[1], pair[2])), position)
    BY <1>2 DEF Zoom
  <2>3. /\ Zoomed(AsRect(pair[1], pair[2])) \in Requests
        /\ Fits(Zoomed(AsRect(pair[1], pair[2])))
    BY <2>1, <2>2, ZoomedIsRequest
  <2> QED BY <1>0, <2>2, <2>3, SubmitKeeps
<1>3. ASSUME NEW n \in MaxNs, NewMaxN(n)
      PROVE  NavigationInv'
  <2> DEFINE r == Parameters("max_n", current.place, Rounded(n), NoData, Home)
  <2>1. Rounded(n) \in Nat
    BY DEF Rounded
  <2>2. r \in Requests /\ Fits(r)
    <3>1. Home \in Place
      BY StartsAreSquares DEF Home, Squares
    <3> QED BY <1>0, <2>1, <3>1 DEF Parameters, Requests, Fits
  <2>3. maxN' = n /\ Submit(r, position)
    BY <1>3 DEF NewMaxN
  <2> HIDE DEF r
  <2> QED BY <1>0, <2>2, <2>3, SubmitKeeps
<1>4. ASSUME NEW n \in MaxNs, OtherTab(n)
      PROVE  NavigationInv'
  BY <1>0, <1>4, WaitingKeeps DEF OtherTab, calculationVars, NavigationInv, NavigationTypes
<1>5. ASSUME NEW b \in Benchmarks, StartBenchmark(b)
      PROVE  NavigationInv'
  <2> DEFINE r == Parameters("push", [start |-> b, zooms |-> <<>>], BenchmarkMaxN, NoData, Home)
  <2>1. r \in Requests /\ Fits(r)
    <3>1. Home \in Place /\ [start |-> b, zooms |-> <<>>] \in Squares
      BY StartsAreSquares DEF Home, Squares
    <3> QED BY <3>1 DEF Parameters, Requests, Fits
  <2>2. maxN' = BenchmarkMaxN /\ Submit(r, position)
    BY <1>5 DEF StartBenchmark
  <2> HIDE DEF r
  <2> QED BY <1>0, <2>1, <2>2, SubmitKeeps
<1>6. ASSUME NEW p \in DOMAIN entries, PopState(p)
      PROVE  NavigationInv'
  <2>1. CASE entries[p].id \in DOMAIN historyData /\ Submit(FromHistory(entries[p]), p)
    <3>1. /\ entries[p].id \in EntryIds \cup {NoData}
          /\ historyData[entries[p].id] \in [place : Squares, max_n : Nat]
          /\ historyData[entries[p].id].place = entries[p].place
      <4>1. entries[p] \in Entries
        BY <1>0
      <4>2. historyData[entries[p].id] \in [place : Squares, max_n : Nat]
        BY <2>1 DEF NavigationInv, NavigationTypes
      <4> QED BY <1>0, <2>1, <4>1, <4>2 DEF NavigationInv, EntriesAgree, Entries
    <3>2. FromHistory(entries[p]) \in Requests /\ Fits(FromHistory(entries[p]))
      <4> DEFINE id == entries[p].id
                 data == historyData[id]
      <4>1. FromHistory(entries[p]) =
                [kind |-> "back", place |-> data.place, max_n |-> data.max_n,
                 entry |-> id, pushed |-> entries[p].place]
        BY DEF FromHistory, Parameters
      <4>2. data.place \in Squares /\ data.place \in Place /\ data.max_n \in Nat
        BY <3>1 DEF Squares
      <4> HIDE DEF data
      <4>3. FromHistory(entries[p]) \in Requests
        BY <3>1, <4>1, <4>2 DEF Requests, data
      <4> QED BY <2>1, <3>1, <4>1, <4>3 DEF Fits, data
    <3>3. maxN' = maxN
      BY <1>6 DEF PopState
    <3> QED BY <1>0, <2>1, <3>2, <3>3, SubmitKeeps
  <2>2. CASE position' = p /\ UNCHANGED <<historyVars, calculationVars>>
    BY <1>0, <1>6, <2>2, WaitingKeeps
    DEF PopState, calculationVars, NavigationInv, NavigationTypes
  <2> QED BY <1>6, <2>1, <2>2 DEF PopState
<1>7. CASE Reload
  <2>1. /\ historyData' = <<>> /\ DOMAIN historyData' = {}
        /\ nextId' = nextId
    BY <1>7 DEF Reload, IdAfterLoad
  <2>2. historyData' \in [DOMAIN historyData' -> [place : Squares, max_n : Nat]]
    BY <2>1
  <2>3. Nothing \in Requests
    <3>1. Home \in Squares /\ Home \in Place
      BY StartsAreSquares DEF Home, Squares
    <3> QED BY <3>1 DEF Nothing, Parameters, Requests
  <2>4. NavigationTypes'
    BY <1>7, <2>1, <2>2, <2>3 DEF Reload, NavigationInv, NavigationTypes
  <2>5. EntriesAgree'
    BY <1>7, <2>1 DEF Reload, NavigationInv, EntriesAgree
  <2> QED BY <1>7, <2>4, <2>5
          DEF Reload, NavigationInv, Fits, Nothing, Parameters
<1>8. CASE UNCHANGED navigationVars
  BY <1>0, <1>8, WaitingKeeps
  DEF navigationVars, calculationVars, NavigationInv, NavigationTypes
<1> QED BY <1>1, <1>2, <1>3, <1>4, <1>5, <1>6, <1>7, <1>8 DEF NavigationNext

LEMMA NavigationInvariant == NavigationSpec => []NavigationInv
<1>1. NavigationInit => NavigationInv
  <2> SUFFICES ASSUME NavigationInit
               PROVE  NavigationInv
    OBVIOUS
  <2> USE NavigationAssumption
  <2>1. Home \in Squares /\ Home \in Place
    BY StartsAreSquares DEF Home, Squares
  <2>2. Nothing \in Requests
    BY <2>1 DEF Nothing, Parameters, Requests
  <2>3. <<NoEntry>> \in Seq(Entries) /\ Len(<<NoEntry>>) = 1
    BY <2>1 DEF NoEntry, Entries
  <2>4. /\ historyData \in [DOMAIN historyData -> [place : Squares, max_n : Nat]]
        /\ DOMAIN historyData = {}
    BY DEF NavigationInit
  <2>5. NavigationTypes
    <3>1. entries \in Seq(Entries) /\ position \in 1 .. Len(entries)
      BY <2>3 DEF NavigationInit
    <3>2. nextId \in 1 .. MaxIds + 1 /\ DOMAIN historyData \subseteq 1 .. nextId - 1
      BY <2>4 DEF NavigationInit
    <3> QED BY <2>2, <2>4, <3>1, <3>2 DEF NavigationInit, NavigationTypes
  <2>6. EntriesAgree
    BY <2>4 DEF NavigationInit, EntriesAgree, NoEntry, EntryIds
  <2> QED BY <2>5, <2>6
          DEF NavigationInit, NavigationInv, Fits, Nothing, Parameters
<1>2. NavigationInv /\ [NavigationNext]_navigationVars => NavigationInv'
  BY NavigationStep
<1> QED BY <1>1, <1>2, PTL DEF NavigationSpec

\* Requests, entries and their data have their types, and places are squares.
THEOREM NavigationTypeCorrect == NavigationSpec => []NavigationTypeOK
BY NavigationInvariant, NavigationConclusions, PTL

\* Going back and forward (history.js onpopstate) asks for the place that was
\* shown when the entry was made, however the page is loaded again meanwhile.
THEOREM BackIsWhatWasPushed == NavigationSpec => []BackShowsWhatWasPushed
BY NavigationInvariant, NavigationConclusions, PTL

-----------------------------------------------------------------------------
(* The top list.                                                           *)

\* The list on the page is the one its filters and its results give.
ListIsCurrent ==
    /\ rows.list = topList
    /\ ~passed =>
          /\ topList = ListOf(items, filters)
          /\ rows.type \in {"none", filters.type}
          /\ \A line \in topList : line.key.workers = AnyWorkers <=> filters.type # "speed"

TopListInv == TopListTypeOK /\ ListIsCurrent

\* A line counts workers exactly if the list is by speed: no machine has none.
LEMMA RowsHaveWorkers ==
  ASSUME NEW its \in SUBSET Results, NEW f \in Filters
  PROVE  \A line \in ListOf(its, f) : line.key.workers = AnyWorkers <=> f.type # "speed"
<1> SUFFICES ASSUME NEW line \in ListOf(its, f)
             PROVE  line.key.workers = AnyWorkers <=> f.type # "speed"
  OBVIOUS
<1>1. PICK id \in its : line.key = GroupKey(id, f)
  <2>1. PICK id \in its : \E group : line = Row(GroupKey(id, f), group, f)
    BY DEF ListOf
  <2> QED BY <2>1 DEF Row
<1>2. ResultOf[id].workers # AnyWorkers
  BY TopListAssumption DEF AnyWorkers
<1> QED BY <1>1, <1>2 DEF GroupKey

\* Whatever changed, making the list anew makes it current.
LEMMA CalculateKeeps ==
  ASSUME items' \in SUBSET Results, filters' \in Filters, CalculateTopList
  PROVE  ListIsCurrent' /\ passed' \in BOOLEAN /\ rows'.type \in Types
<1>1. /\ topList' = ListOf(items', filters')
      /\ rows' = [type |-> filters'.type, list |-> topList']
      /\ passed' = FALSE
  BY DEF CalculateTopList
<1>2. \A line \in topList' : line.key.workers = AnyWorkers <=> filters'.type # "speed"
  BY <1>1, RowsHaveWorkers
<1>3. filters'.type \in Types
  BY DEF Filters
<1> QED BY <1>1, <1>2, <1>3 DEF ListIsCurrent

LEMMA TopListStep ==
  ASSUME TopListInv, [TopListNext]_topListVars
  PROVE  TopListInv'
<1> USE DEF TopListInv, TopListTypeOK
<1>1. ASSUME NEW found \in SUBSET database, ScanAnswers(found)
      PROVE  TopListInv'
  BY <1>1, CalculateKeeps DEF ScanAnswers, Merged
<1>2. CASE ScanFails
  BY <1>2 DEF ScanFails, ListIsCurrent
<1>3. ASSUME NEW id \in Results, NEW put \in BOOLEAN, SaveBenchmark(id, put)
      PROVE  TopListInv'
  BY <1>3, CalculateKeeps DEF SaveBenchmark
<1>4. ASSUME NEW f \in Filters, SetFilters(f)
      PROVE  TopListInv'
  BY <1>4, CalculateKeeps DEF SetFilters
<1>5. ASSUME NEW f \in Filters, OtherTabFilters(f)
      PROVE  TopListInv'
  BY <1>5 DEF OtherTabFilters, ListIsCurrent
<1>6. CASE ReloadTopList
  BY <1>6 DEF ReloadTopList, ListIsCurrent, ListOf
<1>7. CASE UNCHANGED topListVars
  BY <1>7 DEF topListVars, ListIsCurrent
<1> QED BY <1>1, <1>2, <1>3, <1>4, <1>5, <1>6, <1>7 DEF TopListNext

\* Unless another tab changed the filters, the table is the list that the results
\* known and the filters give (benchmark.js calculateTopList), whether the scan
\* answers before or after the results of this page are saved.
THEOREM TableIsCurrent == TopListSpec => []ListIsCurrent
<1>1. TopListInit => TopListInv
  <2>1. DefaultFilters \in Filters
    BY DEF DefaultFilters, Filters, Types, AnyWorkers, Off
  <2>2. ListOf({}, DefaultFilters) = {}
    BY DEF ListOf
  <2>3. ASSUME TopListInit
        PROVE  TopListTypeOK /\ ListIsCurrent
    <3>1. topList = ListOf(items, filters) /\ topList = {}
      BY <2>2, <2>3 DEF TopListInit
    <3> QED BY <2>1, <2>3, <3>1 DEF TopListInit, TopListTypeOK, ListIsCurrent
  <2> QED BY <2>3 DEF TopListInv
<1>2. TopListInv /\ [TopListNext]_topListVars => TopListInv'
  BY TopListStep
<1> QED BY <1>1, <1>2, PTL DEF TopListSpec, TopListInv

-----------------------------------------------------------------------------
(* Blocks of the screen.                                                   *)

LEMMA DivMod ==
  ASSUME NEW a \in Nat, NEW d \in Nat \ {0}
  PROVE  /\ a \div d \in Nat /\ a % d \in 0..d - 1
         /\ a = (a \div d) * d + (a % d)
OBVIOUS

LEMMA DivUnique ==
  ASSUME NEW q \in Nat, NEW d \in Nat \ {0}, NEW r \in 0..d - 1
  PROVE  (q * d + r) \div d = q /\ (q * d + r) % d = r /\ q * d + r \in Nat
OBVIOUS

\* A number of d-tuples and one of the next one's places: less than n of them.
LEMMA Within ==
  ASSUME NEW n \in Nat \ {0}, NEW d \in Nat \ {0}, NEW q \in 0..n - 1, NEW r \in 0..d - 1
  PROVE  /\ q * d + r \in 0 .. n * d - 1
         /\ (q * d + r) \div d = q /\ (q * d + r) % d = r
<1>1. n * d = q * d + (n - q) * d /\ (n - q) * d >= d
  OBVIOUS
<1>2. q * d + r \in 0 .. n * d - 1
  BY <1>1
<1>3. (q * d + r) \div d = q /\ (q * d + r) % d = r
  OBVIOUS
<1> QED  BY <1>2, <1>3

LEMMA Quotient ==
  ASSUME NEW n \in Nat, NEW d \in Nat \ {0}, NEW a \in 0 .. n * d - 1
  PROVE  a \div d \in 0..n - 1 /\ a % d \in 0..d - 1 /\ a = (a \div d) * d + (a % d)
<1>1. n * d \in Nat /\ a \in Nat
  OBVIOUS
<1>2. a \div d \in Nat /\ a % d \in 0..d - 1 /\ a = (a \div d) * d + (a % d)
  BY <1>1, DivMod
<1>3. \A q \in Nat : q >= n => q * d >= n * d
  OBVIOUS
<1>4. a < n * d /\ (a \div d) * d \in Nat
  BY <1>1, <1>2
<1>5. ~(a \div d >= n)
  BY <1>1, <1>2, <1>3, <1>4
<1> QED  BY <1>2, <1>5

\* As many rounds of a loop as steps fit in the size.
LEMMA RoundsOfMultiple ==
  ASSUME NEW size \in Nat \ {0}, NEW step \in Nat \ {0}, size % step = 0
  PROVE  /\ Rounds(size, step) = size \div step /\ Rounds(size, step) \in Nat \ {0}
         /\ size = Rounds(size, step) * step
<1> DEFINE q == size \div step
<1>1. q \in Nat /\ size = q * step + 0
  BY DivMod
<1> HIDE DEF q
<1>2. size + step - 1 = q * step + (step - 1) /\ step - 1 \in 0..step - 1
  BY <1>1
<1>3. (q * step + (step - 1)) \div step = q
  BY <1>1, <1>2, DivUnique
<1>4. (size + step - 1) \div step = q
  BY <1>2, <1>3
<1>5. q # 0
  BY <1>1
<1>6. Rounds(size, step) = q
  BY <1>4 DEF Rounds
<1>7. q = size \div step
  BY DEF q
<1> QED  BY <1>1, <1>5, <1>6, <1>7

\* The invariant: besides what is to be shown, the blocks are those of the sizes.
GridInv ==
    /\ GridTypeOK
    /\ grid # <<>> => Accepted /\ grid = GridOf
    /\ \A n \in ended : \A i \in Filled(grid[n]) : screenData[i] = i

Columns == Rounds(XSize, blockSize[1])
Lines == Rounds(YSize, blockSize[2])

\* The number of the block in which a pixel is.
BlockAt(i) == ((i \div XSize) \div blockSize[2]) * Columns + ((i % XSize) \div blockSize[1]) + 1

LEMMA GridSizes ==
  ASSUME GridTypeOK
  PROVE  /\ XSize \in Nat \ {0} /\ YSize \in Nat \ {0}
         /\ blockSize[1] \in Nat \ {0} /\ blockSize[2] \in Nat \ {0}
         /\ Accepted => /\ Columns \in Nat \ {0} /\ XSize = Columns * blockSize[1]
                        /\ Columns = XSize \div blockSize[1]
                        /\ Lines \in Nat \ {0} /\ YSize = Lines * blockSize[2]
                        /\ Lines = YSize \div blockSize[2]
<1>1. screenSize \in (Nat \ {0}) \X (Nat \ {0}) /\ blockSize \in (Nat \ {0}) \X (Nat \ {0})
  BY BlockGridAssumption DEF GridTypeOK
<1>2. /\ XSize \in Nat \ {0} /\ YSize \in Nat \ {0}
      /\ blockSize[1] \in Nat \ {0} /\ blockSize[2] \in Nat \ {0}
  BY <1>1 DEF XSize, YSize
<1> QED  BY <1>2, RoundsOfMultiple DEF Accepted, Columns, Lines

LEMMA GridBlocks ==
  ASSUME GridInv, grid # <<>>
  PROVE  /\ DOMAIN grid = 1 .. Lines * Columns /\ Len(grid) = Lines * Columns
         /\ \A n \in DOMAIN grid :
               /\ (n - 1) \div Columns \in 0..Lines - 1 /\ (n - 1) % Columns \in 0..Columns - 1
               /\ n - 1 = ((n - 1) \div Columns) * Columns + ((n - 1) % Columns)
               /\ grid[n].x_start = ((n - 1) % Columns) * blockSize[1]
               /\ grid[n].y_start = ((n - 1) \div Columns) * blockSize[2]
<1>1. Columns \in Nat \ {0} /\ Lines \in Nat \ {0}
  BY GridSizes DEF GridInv
<1>2. Columns * Lines = Lines * Columns /\ Lines * Columns \in Nat
  BY <1>1
<1>3. grid = [n \in 1 .. Lines * Columns |->
                 [x_start |-> ((n - 1) % Columns) * blockSize[1],
                  y_start |-> ((n - 1) \div Columns) * blockSize[2]]]
  BY <1>2 DEF GridInv, GridOf, Columns, Lines
<1>4. DOMAIN grid = 1 .. Lines * Columns /\ Len(grid) = Lines * Columns
  BY <1>2, <1>3
<1>5. ASSUME NEW n \in DOMAIN grid
      PROVE  /\ (n - 1) \div Columns \in 0..Lines - 1 /\ (n - 1) % Columns \in 0..Columns - 1
             /\ n - 1 = ((n - 1) \div Columns) * Columns + ((n - 1) % Columns)
  <2>1. n - 1 \in 0 .. Lines * Columns - 1
    BY <1>2, <1>4
  <2> QED  BY <1>1, <2>1, Quotient
<1>6. \A n \in DOMAIN grid :
         /\ grid[n].x_start = ((n - 1) % Columns) * blockSize[1]
         /\ grid[n].y_start = ((n - 1) \div Columns) * blockSize[2]
  BY <1>3, <1>4
<1> QED  BY <1>4, <1>5, <1>6

\* A block fills places of the screen, and none that is of another block.
LEMMA FilledOnce ==
  ASSUME GridInv, NEW n \in DOMAIN grid, NEW i \in Filled(grid[n])
  PROVE  i \in Indexes /\ BlockAt(i) = n
<1> DEFINE w == blockSize[1]
           h == blockSize[2]
           cx == (n - 1) % Columns
           cy == (n - 1) \div Columns
<1>1. grid # <<>>
  OBVIOUS
<1>2. /\ XSize \in Nat \ {0} /\ YSize \in Nat \ {0} /\ w \in Nat \ {0} /\ h \in Nat \ {0}
      /\ Columns \in Nat \ {0} /\ XSize = Columns * w
      /\ Lines \in Nat \ {0} /\ YSize = Lines * h
  BY <1>1, GridSizes DEF GridInv
<1>3. /\ cy \in 0..Lines - 1 /\ cx \in 0..Columns - 1 /\ n - 1 = cy * Columns + cx
      /\ grid[n].x_start = cx * w /\ grid[n].y_start = cy * h
      /\ DOMAIN grid \subseteq Int
  BY <1>1, GridBlocks
<1> HIDE DEF cx, cy, w, h
<1>4. PICK x \in 0..w - 1, y \in 0..h - 1 : i = (y + grid[n].y_start) * XSize + x + grid[n].x_start
  BY DEF Filled, w, h
<1> DEFINE py == cy * h + y
           px == cx * w + x
<1>5. py \in 0..YSize - 1 /\ py \div h = cy
  <2>1. py \in 0 .. Lines * h - 1
    BY <1>2, <1>3, Within
  <2>2. py \div h = cy
    BY <1>2, <1>3
  <2> QED  BY <1>2, <2>1, <2>2, Zenon
<1>6. px \in 0..XSize - 1 /\ px \div w = cx
  <2>1. px \in 0 .. Columns * w - 1
    BY <1>2, <1>3, Within
  <2>2. px \div w = cx
    BY <1>2, <1>3
  <2> QED  BY <1>2, <2>1, <2>2, Zenon
<1>7. py = y + grid[n].y_start /\ px = x + grid[n].x_start
  BY <1>2, <1>3
<1> HIDE DEF py, px
<1>8. i = py * XSize + px
  <2>1. py * XSize \in Int /\ px \in Int /\ x \in Int
    BY <1>2, <1>5, <1>6
  <2>2. grid[n].x_start \in Int
    BY <1>2, <1>3
  <2>3. i = py * XSize + x + grid[n].x_start
    BY <1>4, <1>7
  <2> QED  BY <1>7, <2>1, <2>2, <2>3
<1>9. i \in 0 .. YSize * XSize - 1 /\ i \div XSize = py /\ i % XSize = px
  <2>1. py * XSize + px \in 0 .. YSize * XSize - 1
    BY <1>2, <1>5, <1>6, Within
  <2>2. (py * XSize + px) \div XSize = py /\ (py * XSize + px) % XSize = px
    BY <1>2, <1>5, <1>6
  <2> QED  BY <1>8, <2>1, <2>2
<1>10. i \in Indexes
  <2>1. YSize * XSize = XSize * YSize
    BY <1>2
  <2> QED  BY <1>9, <2>1 DEF Indexes
<1>11. BlockAt(i) = cy * Columns + cx + 1
  BY <1>5, <1>6, <1>9 DEF BlockAt, w, h
<1> QED  BY <1>3, <1>10, <1>11

\* And every place of the screen is one of a block.
LEMMA FilledSomewhere ==
  ASSUME GridInv, grid # <<>>, NEW i \in Indexes
  PROVE  BlockAt(i) \in DOMAIN grid /\ i \in Filled(grid[BlockAt(i)])
<1> DEFINE w == blockSize[1]
           h == blockSize[2]
           py == i \div XSize
           px == i % XSize
           cx == px \div w
           cy == py \div h
           n == BlockAt(i)
<1>1. /\ XSize \in Nat \ {0} /\ YSize \in Nat \ {0} /\ w \in Nat \ {0} /\ h \in Nat \ {0}
      /\ Columns \in Nat \ {0} /\ XSize = Columns * w
      /\ Lines \in Nat \ {0} /\ YSize = Lines * h
  BY GridSizes DEF GridInv
<1>2. n = cy * Columns + cx + 1
  BY DEF BlockAt
<1>3. py \in 0..YSize - 1 /\ px \in 0..XSize - 1 /\ i = py * XSize + px
  <2>1. i \in 0 .. YSize * XSize - 1
    <3>1. YSize * XSize = XSize * YSize
      BY <1>1
    <3> QED  BY <3>1 DEF Indexes
  <2> QED  BY <1>1, <2>1, Quotient
<1> HIDE DEF py, px, n, w, h
<1>4. cx \in 0..Columns - 1 /\ px % w \in 0..w - 1 /\ px = cx * w + (px % w)
  BY <1>1, <1>3, Quotient
<1>5. cy \in 0..Lines - 1 /\ py % h \in 0..h - 1 /\ py = cy * h + (py % h)
  BY <1>1, <1>3, Quotient
<1> HIDE DEF cx, cy
<1>6. /\ n \in DOMAIN grid
      /\ (n - 1) \div Columns = cy /\ (n - 1) % Columns = cx
  <2> DEFINE k == cy * Columns + cx
  <2>1. /\ k \in 0 .. Lines * Columns - 1
        /\ k \div Columns = cy /\ k % Columns = cx
    <3>1. k \in 0 .. Lines * Columns - 1
      BY <1>1, <1>4, <1>5, Within
    <3>2. cy \in Nat /\ cx \in 0..Columns - 1 /\ Columns \in Nat \ {0}
      BY <1>1, <1>4, <1>5
    <3>3. (cy * Columns + cx) \div Columns = cy /\ (cy * Columns + cx) % Columns = cx
      BY <3>2, DivUnique, Zenon
    <3> QED  BY <3>1, <3>3
  <2>2. n = k + 1 /\ Lines * Columns \in Nat
    BY <1>1, <1>2
  <2> HIDE DEF k
  <2>3. n - 1 = k /\ n \in 1 .. Lines * Columns
    BY <2>1, <2>2
  <2>4. n \in DOMAIN grid
    BY <2>3, GridBlocks
  <2> QED  BY <2>1, <2>3, <2>4
<1>7. grid[n].x_start = cx * w /\ grid[n].y_start = cy * h
  BY <1>6, GridBlocks DEF w, h
<1>8. i = ((py % h) + grid[n].y_start) * XSize + (px % w) + grid[n].x_start
  <2>1. (py % h) + grid[n].y_start = py /\ (px % w) + grid[n].x_start = px
    <3>1. cy * h \in Int /\ cx * w \in Int /\ py % h \in Int /\ px % w \in Int
      BY <1>1, <1>4, <1>5
    <3>2. \A a, b \in Int : a + b = b + a
      OBVIOUS
    <3> QED  BY <1>4, <1>5, <1>7, <3>1, <3>2, Zenon
  <2>2. py * XSize \in Int /\ px % w \in Int /\ grid[n].x_start \in Int
    BY <1>1, <1>3, <1>4, <1>7
  <2> QED  BY <1>3, <2>1, <2>2
<1> QED  BY <1>4, <1>5, <1>6, <1>8 DEF Filled, w, h, n

\* Where pixel k of a block is written is the place it was calculated for.
LEMMA WrittenIsOwn ==
  ASSUME GridInv, NEW n \in DOMAIN grid
  PROVE  LET bytes == BytesOf(grid[n]) IN
         /\ \A k \in DOMAIN bytes : TargetOf(grid[n], k) = bytes[k]
         /\ {TargetOf(grid[n], k) : k \in DOMAIN bytes} = Filled(grid[n])
<1> DEFINE w == blockSize[1]
           h == blockSize[2]
           b == grid[n]
           K == 0 .. w * h - 1
<1>1. XSize \in Nat /\ w \in Nat \ {0} /\ h \in Nat \ {0}
  BY GridSizes DEF GridInv
<1>2. b.x_start \in Int /\ b.y_start \in Int
  <2>1. grid # <<>> => Columns \in Nat \ {0} /\ Lines \in Nat \ {0}
    BY GridSizes DEF GridInv
  <2>2. grid # <<>>
    OBVIOUS
  <2> HIDE DEF b
  <2>3. b.x_start = ((n - 1) % Columns) * blockSize[1] /\ b.y_start = ((n - 1) \div Columns) * blockSize[2]
        /\ (n - 1) % Columns \in Int /\ (n - 1) \div Columns \in Int
    BY <2>1, <2>2, GridBlocks DEF b
  <2> QED  BY <1>1, <2>3 DEF w, h
<1>3. DOMAIN BytesOf(b) = K
  BY DEF BytesOf
<1>4. ASSUME NEW k \in K
      PROVE  /\ BytesOf(b)[k] = (b.y_start + (k \div w)) * XSize + b.x_start + (k % w)
             /\ TargetOf(b, k) = b.y_start * XSize + b.x_start + (k \div w) * XSize + (k % w)
             /\ k \div w \in 0..h - 1 /\ k % w \in 0..w - 1
             /\ k \div w \in Int /\ k % w \in Int
  <2>1. w * h = h * w /\ w * h \in Nat
    BY <1>1
  <2>2. k \in 0 .. h * w - 1
    BY <2>1
  <2>3. k \div w \in 0..h - 1 /\ k % w \in 0..w - 1
    BY <1>1, <2>2, Quotient
  <2>4. 0..h - 1 \subseteq Int /\ 0..w - 1 \subseteq Int
    BY <1>1
  <2> QED  BY <2>3, <2>4, Zenon DEF BytesOf, TargetOf
<1> HIDE DEF b, w, h
<1>5. ASSUME NEW v \in Int, NEW r \in Int
      PROVE  LET target == b.y_start * XSize + b.x_start + v * XSize + r IN
             /\ (b.y_start + v) * XSize + b.x_start + r = target
             /\ (v + b.y_start) * XSize + r + b.x_start = target
  <2>1. /\ (b.y_start + v) * XSize = b.y_start * XSize + v * XSize
        /\ v + b.y_start = b.y_start + v
        /\ b.y_start * XSize \in Int /\ v * XSize \in Int
    BY <1>1, <1>2
  <2> QED  BY <1>2, <2>1
<1>6. ASSUME NEW k \in K
      PROVE  TargetOf(b, k) = BytesOf(b)[k]
  <2>1. k \div w \in Int /\ k % w \in Int
    BY <1>4, Zenon
  <2>2. (b.y_start + (k \div w)) * XSize + b.x_start + (k % w)
        = b.y_start * XSize + b.x_start + (k \div w) * XSize + (k % w)
    BY <1>5, <2>1, Zenon
  <2> QED  BY <1>4, <2>2, Zenon
<1>7. ASSUME NEW k \in K
      PROVE  TargetOf(b, k) \in Filled(b)
  <2> DEFINE v == k \div w
             r == k % w
  <2>1. /\ v \in 0..h - 1 /\ r \in 0..w - 1 /\ v \in Int /\ r \in Int
        /\ TargetOf(b, k) = b.y_start * XSize + b.x_start + v * XSize + r
    BY <1>4, Zenon
  <2> HIDE DEF v, r
  <2>2. TargetOf(b, k) = (v + b.y_start) * XSize + r + b.x_start
    BY <1>5, <2>1
  <2> QED  BY <2>1, <2>2 DEF Filled, w, h
<1>8. ASSUME NEW i \in Filled(b)
      PROVE  \E k \in K : TargetOf(b, k) = i
  <2>1. PICK x \in 0..w - 1, y \in 0..h - 1 : i = (y + b.y_start) * XSize + x + b.x_start
    BY DEF Filled, w, h
  <2> DEFINE k == y * w + x
  <2>2. k \in 0 .. h * w - 1
    BY <1>1, Within
  <2>3. y \in Nat
    BY <1>1
  <2>4. (y * w + x) \div w = y /\ (y * w + x) % w = x
    BY <1>1, <2>3, DivUnique, Zenon
  <2>5. w * h = h * w
    BY <1>1
  <2> HIDE DEF k
  <2>6. k \in K
    BY <2>2, <2>5
  <2>7. TargetOf(b, k) = b.y_start * XSize + b.x_start + y * XSize + x
    BY <1>4, <2>4, <2>6, Zenon DEF k
  <2>8. x \in Int /\ y \in Int
    BY <1>1
  <2>9. i = TargetOf(b, k)
    BY <1>5, <2>1, <2>7, <2>8
  <2> QED  BY <2>6, <2>9
<1> HIDE DEF K
<1>9. {TargetOf(b, k) : k \in K} = Filled(b)
  BY <1>7, <1>8
<1> QED  BY <1>3, <1>6, <1>9 DEF b

\* A block just completed is right, and does not touch the others.
LEMMA GridStep == GridInv /\ [GridNext]_gridVars => GridInv'
<1> SUFFICES ASSUME GridInv, [GridNext]_gridVars PROVE GridInv'
  OBVIOUS
<1>1. CASE Cut
  <2>1. grid' = GridOf /\ Accepted
        /\ UNCHANGED <<screenSize, blockSize, begun, ended, screenData>>
    BY <1>1 DEF Cut
  <2>2. ended = {} /\ begun = {}
    BY <1>1 DEF Cut, GridInv, GridTypeOK
  <2>3. GridTypeOK'
    BY <2>1, <2>2 DEF GridInv, GridTypeOK, Indexes, XSize, YSize
  <2>4. (Accepted /\ grid = GridOf)'
    BY <2>1 DEF Accepted, GridOf, XSize, YSize
  <2> QED  BY <2>1, <2>2, <2>3, <2>4 DEF GridInv
<1>2. ASSUME NEW n \in DOMAIN grid, BlockBegins(n)
      PROVE  GridInv'
  <2>1. /\ n \notin begun /\ begun' = begun \cup {n}
        /\ screenData' = [i \in Indexes \cup Filled(grid[n]) |->
              IF i \in Filled(grid[n]) THEN CalculatingNow ELSE screenData[i]]
        /\ UNCHANGED <<screenSize, blockSize, grid, ended>>
    BY <1>2 DEF BlockBegins
  <2>2. \A m \in DOMAIN grid : \A i \in Filled(grid[m]) : i \in Indexes /\ BlockAt(i) = m
    BY FilledOnce
  <2>3. GridTypeOK'
    BY <2>1, <2>2 DEF GridInv, GridTypeOK, Indexes, XSize, YSize
  <2>4. (grid # <<>> => Accepted /\ grid = GridOf)'
    BY <2>1 DEF GridInv, Accepted, GridOf, XSize, YSize
  <2>5. ASSUME NEW m \in ended, NEW i \in Filled(grid[m])
        PROVE  screenData'[i] = i
    <3>1. m \in DOMAIN grid /\ m # n
      BY <2>1 DEF GridInv, GridTypeOK
    <3>2. i \notin Filled(grid[n]) /\ i \in Indexes
      BY <2>2, <3>1
    <3> QED  BY <2>1, <2>5, <3>2 DEF GridInv
  <2>6. \A m : Filled(grid[m])' = Filled(grid[m])
    BY <2>1 DEF Filled, XSize
  <2>7. ended' = ended
    BY <2>1
  <2>8. (\A m \in ended : \A i \in Filled(grid[m]) : screenData[i] = i)'
    BY <2>5, <2>6, <2>7, Zenon
  <2> QED  BY <2>3, <2>4, <2>8 DEF GridInv
<1>3. ASSUME NEW n \in DOMAIN grid, BlockEnds(n)
      PROVE  GridInv'
  <2> DEFINE bytes == BytesOf(grid[n])
             T == {TargetOf(grid[n], k) : k \in DOMAIN bytes}
             written == [i \in T |-> bytes[CHOOSE k \in DOMAIN bytes : TargetOf(grid[n], k) = i]]
  <2>1. /\ n \in begun \ ended /\ ended' = ended \cup {n}
        /\ screenData' = [i \in DOMAIN screenData \cup DOMAIN written |->
              IF i \in DOMAIN written THEN written[i] ELSE screenData[i]]
        /\ UNCHANGED <<screenSize, blockSize, grid, begun>>
    BY <1>3 DEF BlockEnds
  <2>2. \A m \in DOMAIN grid : \A i \in Filled(grid[m]) : i \in Indexes /\ BlockAt(i) = m
    BY FilledOnce
  <2>3. T = Filled(grid[n]) /\ \A k \in DOMAIN bytes : TargetOf(grid[n], k) = bytes[k]
    BY WrittenIsOwn
  <2> HIDE DEF bytes
  <2>4. ASSUME NEW i \in T
        PROVE  written[i] = i
    <3>1. PICK k \in DOMAIN bytes : TargetOf(grid[n], k) = i
      OBVIOUS
    <3> DEFINE c == CHOOSE j \in DOMAIN bytes : TargetOf(grid[n], j) = i
    <3>2. c \in DOMAIN bytes /\ TargetOf(grid[n], c) = i
      BY <3>1
    <3> HIDE DEF c
    <3>3. bytes[c] = i
      BY <2>3, <3>2
    <3> QED  BY <3>3 DEF c
  <2>5. DOMAIN written = T
    OBVIOUS
  <2> HIDE DEF written, T
  <2>6. GridTypeOK'
    BY <2>1, <2>2, <2>3, <2>5 DEF GridInv, GridTypeOK, Indexes, XSize, YSize
  <2>7. (grid # <<>> => Accepted /\ grid = GridOf)'
    BY <2>1 DEF GridInv, Accepted, GridOf, XSize, YSize
  <2>8. ASSUME NEW m \in ended', NEW i \in Filled(grid[m])
        PROVE  screenData'[i] = i
    <3>1. m \in DOMAIN grid
      BY <2>1 DEF GridInv, GridTypeOK
    <3>2. i \in Indexes /\ DOMAIN screenData = Indexes
      BY <2>2, <3>1 DEF GridInv, GridTypeOK
    <3>3. CASE i \in T
      BY <2>1, <2>4, <2>5, <3>3
    <3>4. CASE i \notin T
      <4>1. m \in ended
        BY <2>1, <2>3, <3>4
      <4>2. screenData[i] = i
        BY <4>1 DEF GridInv
      <4> QED  BY <2>1, <2>5, <3>2, <3>4, <4>2
    <3> QED  BY <3>3, <3>4
  <2>9. \A m : Filled(grid[m])' = Filled(grid[m])
    BY <2>1 DEF Filled, XSize
  <2>10. (\A m \in ended : \A i \in Filled(grid[m]) : screenData[i] = i)'
    BY <2>8, <2>9, Zenon
  <2> QED  BY <2>6, <2>7, <2>10 DEF GridInv
<1>4. CASE UNCHANGED gridVars
  <2>1. UNCHANGED <<screenSize, blockSize, grid, begun, ended, screenData>>
    BY <1>4 DEF gridVars
  <2>2. GridTypeOK'
    BY <2>1 DEF GridInv, GridTypeOK, Indexes, XSize, YSize
  <2>3. (grid # <<>> => Accepted /\ grid = GridOf)'
    BY <2>1 DEF GridInv, Accepted, GridOf, XSize, YSize
  <2>4. (\A m \in ended : \A i \in Filled(grid[m]) : screenData[i] = i)'
    BY <2>1 DEF GridInv, Filled, XSize
  <2> QED  BY <2>2, <2>3, <2>4 DEF GridInv
<1> QED  BY <1>1, <1>2, <1>3, <1>4 DEF GridNext

LEMMA GridInvariant == GridSpec => []GridInv
<1>1. GridInit => GridInv
  BY DEF GridInit, GridInv, GridTypeOK
<1> QED  BY <1>1, GridStep, PTL DEF GridSpec

\* A multiple of what is divided by, divided again by its other factor.
LEMMA CountOfMultiple ==
  ASSUME NEW a \in Nat, NEW b \in Nat, NEW d \in Nat \ {0}
  PROVE  (a * (b * d)) \div d = a * b
<1>1. a * (b * d) = (a * b) * d + 0 /\ a * b \in Nat /\ 0 \in 0..d - 1
  OBVIOUS
<1>2. ((a * b) * d + 0) \div d = a * b
  BY <1>1, DivUnique, Zenon
<1> QED  BY <1>1, <1>2

LEMMA GridInvTiles == GridInv => BlocksTile
<1> SUFFICES ASSUME GridInv, grid # <<>> PROVE BlocksTile
  BY DEF BlocksTile
<1>1. /\ blockSize[1] \in Nat \ {0} /\ blockSize[2] \in Nat \ {0}
      /\ Columns \in Nat \ {0} /\ XSize = Columns * blockSize[1]
      /\ Columns = XSize \div blockSize[1]
      /\ Lines \in Nat \ {0} /\ YSize = Lines * blockSize[2]
      /\ Lines = YSize \div blockSize[2]
  BY GridSizes DEF GridInv
<1>2. Len(grid) = Lines * Columns
  BY GridBlocks
<1>3. GoCount = Lines * Columns
  <2>1. (Lines * (Columns * blockSize[1])) \div blockSize[1] = Lines * Columns
    BY <1>1, CountOfMultiple
  <2>2. GoCount = (Lines * XSize) \div blockSize[1]
    BY <1>1, Zenon DEF GoCount
  <2> QED  BY <1>1, <2>1, <2>2, Zenon
<1>4. JavaCount = Lines * Columns
  <2>1. (Columns * (Lines * blockSize[2])) \div blockSize[2] = Columns * Lines
    BY <1>1, CountOfMultiple
  <2>2. JavaCount = (Columns * YSize) \div blockSize[2]
    BY <1>1, Zenon DEF JavaCount
  <2>3. Columns * Lines = Lines * Columns
    BY <1>1
  <2> QED  BY <1>1, <2>1, <2>2, <2>3, Zenon
<1>5. \A n \in ended : \A i \in Filled(grid[n]) : screenData[i] = i
  BY DEF GridInv
<1>6. ASSUME ended = DOMAIN grid, NEW i \in DOMAIN screenData
      PROVE  screenData[i] = i
  <2>1. i \in Indexes
    BY DEF GridInv, GridTypeOK
  <2>2. BlockAt(i) \in DOMAIN grid /\ i \in Filled(grid[BlockAt(i)])
    BY <2>1, FilledSomewhere
  <2> QED  BY <1>5, <1>6, <2>2
<1> QED  BY <1>2, <1>3, <1>4, <1>5, <1>6 DEF BlocksTile

\* The blocks made and painted stay those of the sizes chosen, and the screen
\* keeps its places, for every screen and every block size.
THEOREM GridTypeCorrect == GridSpec => []GridTypeOK
<1>1. GridInv => GridTypeOK
  BY DEF GridInv
<1> QED  BY <1>1, GridInvariant, PTL

\* start() of the client and the loops that cut a calculation: for every screen
\* and every block size that is accepted the blocks are as many as the Go and
\* the Java server count in advance, none writes over another's pixels or beyond
\* the screen, and in whatever order they come every pixel ends where it belongs.
THEOREM ScreenTiled == GridSpec => []BlocksTile
BY GridInvTiles, GridInvariant, PTL
=============================================================================
