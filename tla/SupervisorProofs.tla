-------------------------- MODULE SupervisorProofs --------------------------
(***************************************************************************)
(* Theorems about Supervisor, for any accounts and displays: its types;    *)
(* that it implements Seat; that the UI is pointed at a socket of its own  *)
(* compositor; and that a keyring dies with its session.                   *)
(***************************************************************************)
EXTENDS Supervisor, TLAPS

(* Each child is there exactly from its spawning to its being waited for, *)
(* and so only at certain places.                                          *)
Placed ==
    /\ child["compositor"] # "none" => at \in Greeting
    /\ at \in Greeting => child["compositor"] # "none"
    /\ child["ui"] # "none" => at \in {"accepting", "stopUi"}
    /\ child["session"] # "none" => at = "session"
    /\ child["keyring"] # "none" =>
          at \in {"waitKeyring", "handoff", "spawnSession", "session",
                  "stopKeyring"}

(* Keys are opened by a password that is handed to a running daemon. *)
Opened ==
    /\ at = "handoff" => password
    /\ keys => /\ child["keyring"] = "running"
               /\ password
               /\ at \in {"spawnSession", "session", "stopKeyring"}

(* From the clearing of the directory on, no socket in it is an old one. *)
Cleared ==
    at \in Greeting \cup {"spawnCompositor"} =>
        \A n \in Displays : sockets[n] # "stale"

(* And until the compositor is started there is none at all. *)
Unbound == at = "spawnCompositor" => \A n \in Displays : sockets[n] = "none"

SupInv == TypeOK /\ Placed /\ Opened /\ Cleared /\ Unbound

LEMMA InitInv == Init => SupInv
<1> SUFFICES ASSUME Init PROVE SupInv
  OBVIOUS
<1>1. 0 \in Displays
  BY SupervisorAssumption DEF Displays
<1>2. /\ sockets \in [Displays -> Found] /\ door \in [Accounts -> Found]
      /\ child \in [Children -> {"none", "running", "exited"}]
  BY DEF Init, Found
<1>4. TypeOK
  <2>1. at \in Places /\ at \notin {"session", "stopKeyring"} \cup Starting
    BY DEF Init, Places, Starting
  <2>2. /\ who = Nobody /\ who \in Accounts \cup {Nobody}
        /\ password \in BOOLEAN /\ keys \in BOOLEAN /\ display \in Displays
    BY <1>1 DEF Init
  <2> QED
    BY <1>2, <2>1, <2>2 DEF TypeOK
<1>3. Placed /\ Opened /\ Cleared /\ Unbound
  <2>1. Placed
    BY DEF Init, Placed, Greeting, Children
  <2>2. at = "prepare" /\ ~keys
    BY DEF Init
  <2> QED
    BY <2>1, <2>2 DEF Opened, Cleared, Unbound, Greeting
<1> QED
  BY <1>3, <1>4 DEF SupInv

LEMMA NextTyped == SupInv /\ [Next]_vars => TypeOK'
<1> SUFFICES ASSUME SupInv, [Next]_vars PROVE TypeOK'
  OBVIOUS
<1> USE SupervisorAssumption
    DEF SupInv, TypeOK, Found, Places, Greeting, Starting, login, keyring, Becomes
<1>1. CASE Greets
  <2>1. CASE \/ PrepareGreeter \/ PrepareFails \/ SpawnCompositor
             \/ SpawnCompositorFails \/ NoDisplay
    BY <2>1 DEF PrepareGreeter, PrepareFails, SpawnCompositor,
                SpawnCompositorFails, NoDisplay, Aged, Children
  <2>2. ASSUME NEW n \in Displays, FindDisplay(n) PROVE TypeOK'
    BY <2>2 DEF FindDisplay
  <2>3. CASE SpawnUi \/ SpawnUiFails \/ ScreenGoes \/ WaitsOut
    BY <2>3 DEF SpawnUi, SpawnUiFails, ScreenGoes, WaitsOut, Children
  <2>4. CASE UiStopped \/ CompositorStopped
    BY <2>4 DEF UiStopped, CompositorStopped, Reaped, Stopping, Children
  <2> QED
    BY <1>1, <2>1, <2>2, <2>3, <2>4 DEF Greets
<1>2. CASE RunsSession
  <2>1. CASE PrepareSession \/ PrepareSessionFails
    BY <2>1 DEF PrepareSession, PrepareSessionFails, Back
  <2>2. CASE SpawnKeyring
    BY <2>2 DEF SpawnKeyring, Aged, Children
  <2>3. CASE NoKeyring \/ FindKeyring \/ KeyringNotUp
    BY <2>3 DEF NoKeyring, FindKeyring, KeyringNotUp
  <2>4. CASE Handoff
    BY <2>4 DEF Handoff
  <2>5. CASE SpawnSession
    BY <2>5 DEF SpawnSession, Children
  <2>6. CASE SpawnSessionFails
    BY <2>6 DEF SpawnSessionFails
  <2>7. CASE SessionEnds
    BY <2>7 DEF SessionEnds, Children
  <2>8. CASE KeyringStopped
    <3>1. /\ child' \in [Children -> {"none", "running", "exited"}]
          /\ Back
          /\ UNCHANGED <<sockets, display, keyring>>
      BY <2>8 DEF KeyringStopped, Reaped, Children
    <3> QED
      BY <3>1 DEF Back
  <2> QED
    BY <1>2, <2>1, <2>2, <2>3, <2>4, <2>5, <2>6, <2>7, <2>8 DEF RunsSession
<1>3. ASSUME NEW p \in Children, Exits(p) PROVE TypeOK'
  BY <1>3 DEF Exits, Dies
<1>4. ASSUME NEW p \in Children, ExitsTidily(p) PROVE TypeOK'
  BY <1>4 DEF ExitsTidily, Dies
<1>5. CASE World
  <2>1. ASSUME NEW n \in Displays, CompositorBinds(n) PROVE TypeOK'
    BY <2>1 DEF CompositorBinds
  <2>2. CASE KeyringBinds
    BY <2>2 DEF KeyringBinds
  <2>3. ASSUME NEW a \in Accounts, NEW typed \in BOOLEAN, LogsIn(a, typed)
        PROVE  TypeOK'
    BY <2>3 DEF LogsIn
  <2>4. CASE AcceptFails
    BY <2>4 DEF AcceptFails
  <2> QED
    BY <1>3, <1>4, <1>5, <2>1, <2>2, <2>3, <2>4 DEF World
<1>6. CASE UNCHANGED vars
  BY <1>6 DEF vars
<1> QED
  BY <1>1, <1>2, <1>3, <1>5, <1>6 DEF Next, Kills, Kill

LEMMA NextPlaced == SupInv /\ [Next]_vars => (Placed /\ Opened)'
<1> SUFFICES ASSUME SupInv, [Next]_vars PROVE Placed' /\ Opened'
  OBVIOUS
<1> USE DEF SupInv, Placed, Opened, Greeting, login, keyring, Becomes
<1>a. child \in [Children -> {"none", "running", "exited"}] /\ keys \in BOOLEAN
  BY DEF TypeOK
<1>1. CASE Greets
  <2>1. CASE \/ PrepareGreeter \/ PrepareFails \/ SpawnCompositor
             \/ SpawnCompositorFails \/ NoDisplay
    BY <2>1, <1>a DEF PrepareGreeter, PrepareFails, SpawnCompositor,
                SpawnCompositorFails, NoDisplay, Children
  <2>2. ASSUME NEW n \in Displays, FindDisplay(n) PROVE Placed' /\ Opened'
    BY <2>2, <1>a DEF FindDisplay
  <2>3. CASE SpawnUi \/ SpawnUiFails \/ ScreenGoes \/ WaitsOut
    BY <2>3, <1>a DEF SpawnUi, SpawnUiFails, ScreenGoes, WaitsOut, Children
  <2>4. CASE UiStopped \/ CompositorStopped
    BY <2>4, <1>a DEF UiStopped, CompositorStopped, Reaped, Stopping, Children
  <2> QED
    BY <1>1, <2>1, <2>2, <2>3, <2>4 DEF Greets
<1>2. CASE RunsSession
  <2>1. CASE \/ PrepareSession \/ PrepareSessionFails \/ SpawnKeyring
             \/ NoKeyring \/ FindKeyring \/ KeyringNotUp
    BY <2>1, <1>a DEF PrepareSession, PrepareSessionFails, SpawnKeyring,
                      NoKeyring, FindKeyring, KeyringNotUp, Back, Children
  <2>2. CASE SpawnSession \/ SpawnSessionFails \/ SessionEnds
    BY <2>2, <1>a DEF SpawnSession, SpawnSessionFails, SessionEnds, Children
  <2>4. CASE Handoff
    <3>1. /\ at = "handoff" /\ at' = "spawnSession" /\ UNCHANGED <<child, password>>
          /\ keys' => child["keyring"] = "running"
      BY <2>4 DEF Handoff
    <3> QED
      BY <3>1, <1>a
  <2>3. CASE KeyringStopped
    BY <2>3, <1>a DEF KeyringStopped, Reaped, Stopping, Back, Children
  <2> QED
    BY <1>2, <2>1, <2>2, <2>3, <2>4 DEF RunsSession
<1>3. ASSUME NEW p \in Children, Exits(p) \/ ExitsTidily(p)
      PROVE  Placed' /\ Opened'
  BY <1>3, <1>a DEF Exits, ExitsTidily, Dies, Children
<1>4. CASE World
  <2>1. ASSUME NEW n \in Displays, CompositorBinds(n) PROVE Placed' /\ Opened'
    BY <2>1 DEF CompositorBinds
  <2>2. CASE KeyringBinds
    BY <2>2 DEF KeyringBinds
  <2>3. ASSUME NEW a \in Accounts, NEW typed \in BOOLEAN, LogsIn(a, typed)
        PROVE  Placed' /\ Opened'
    BY <2>3, <1>a DEF LogsIn
  <2>4. CASE AcceptFails
    BY <2>4, <1>a DEF AcceptFails
  <2> QED
    BY <1>3, <1>4, <2>1, <2>2, <2>3, <2>4 DEF World
<1>5. CASE UNCHANGED vars
  BY <1>5 DEF vars
<1> QED
  BY <1>1, <1>2, <1>3, <1>4, <1>5 DEF Next, Kills, Kill

LEMMA NextCleared == SupInv /\ [Next]_vars => (Cleared /\ Unbound)'
<1> SUFFICES ASSUME SupInv, [Next]_vars PROVE Cleared' /\ Unbound'
  OBVIOUS
<1> USE DEF SupInv, Placed, Cleared, Unbound, Greeting, login, keyring
<1>a. sockets \in [Displays -> Found]
      /\ child \in [Children -> {"none", "running", "exited"}]
  BY DEF TypeOK
<1>1. CASE Greets
  <2>1. CASE PrepareGreeter \/ PrepareFails \/ SpawnCompositorFails \/ NoDisplay
    BY <2>1 DEF PrepareGreeter, PrepareFails, SpawnCompositorFails, NoDisplay
  <2>2. CASE SpawnCompositor
    BY <2>2 DEF SpawnCompositor, Aged
  <2>3. ASSUME NEW n \in Displays, FindDisplay(n) PROVE Cleared' /\ Unbound'
    BY <2>3 DEF FindDisplay
  <2>4. CASE \/ SpawnUi \/ SpawnUiFails \/ ScreenGoes \/ WaitsOut
             \/ UiStopped \/ CompositorStopped
    BY <2>4 DEF SpawnUi, SpawnUiFails, ScreenGoes, WaitsOut, UiStopped,
                CompositorStopped, Reaped, Stopping
  <2> QED
    BY <1>1, <2>1, <2>2, <2>3, <2>4 DEF Greets
<1>2. CASE RunsSession
  BY <1>2 DEF RunsSession, PrepareSession, PrepareSessionFails, SpawnKeyring,
     NoKeyring, FindKeyring, KeyringNotUp, Handoff, SpawnSession,
     SpawnSessionFails, SessionEnds, KeyringStopped, Back
<1>3. ASSUME NEW p \in Children, Exits(p) \/ ExitsTidily(p)
      PROVE  Cleared' /\ Unbound'
  BY <1>3 DEF Exits, ExitsTidily
<1>4. CASE World
  <2>1. ASSUME NEW n \in Displays, CompositorBinds(n) PROVE Cleared' /\ Unbound'
    <3>1. at' = at /\ at # "spawnCompositor"
      BY <2>1 DEF CompositorBinds
    <3>2. \A m \in Displays : sockets'[m] = "own" \/ sockets'[m] = sockets[m]
      BY <2>1, <1>a DEF CompositorBinds
    <3> QED
      BY <3>1, <3>2
  <2>2. CASE KeyringBinds \/ AcceptFails
    BY <2>2 DEF KeyringBinds, AcceptFails
  <2>3. ASSUME NEW a \in Accounts, NEW typed \in BOOLEAN, LogsIn(a, typed)
        PROVE  Cleared' /\ Unbound'
    BY <2>3 DEF LogsIn
  <2> QED
    BY <1>3, <1>4, <2>1, <2>2, <2>3 DEF World
<1>5. CASE UNCHANGED vars
  BY <1>5 DEF vars
<1> QED
  BY <1>1, <1>2, <1>3, <1>4, <1>5 DEF Next, Kills, Kill

LEMMA AlwaysInv == Spec => []SupInv
<1>1. SupInv /\ [Next]_vars => SupInv'
  BY NextTyped, NextPlaced, NextCleared DEF SupInv
<1> QED
  BY <1>1, InitInv, PTL DEF Spec

(* The main thread keeps its types, and knows whom it has let in exactly    *)
(* while it takes the login screen down and runs the session.               *)
THEOREM TypeCorrect == Spec => []TypeOK
<1>1. SupInv => TypeOK
  BY DEF SupInv
<1> QED
  BY <1>1, AlwaysInv, PTL

(* The UI is never pointed at a socket left by an earlier compositor, for   *)
(* any numbers that compositors take and leave behind.                      *)
THEOREM AlwaysOwnDisplay == Spec => []OwnDisplay
<1>1. SupInv => OwnDisplay
  BY DEF SupInv, TypeOK, Cleared, OwnDisplay, Greeting
<1> QED
  BY <1>1, AlwaysInv, PTL

(* Whatever step of a session fails, its keyring daemon is waited for       *)
(* before the next login screen, and what it had opened was opened by the   *)
(* password of that login.                                                  *)
THEOREM KeysDie == Spec => []KeysDieWithSession
<1>1. SupInv => KeysDieWithSession
  BY DEF SupInv, Placed, Opened, KeysDieWithSession
<1> QED
  BY <1>1, AlwaysInv, PTL

-----------------------------------------------------------------------------

(* For any accounts, children that ignore being asked to go included: every *)
(* step of the main thread is one of Seat or leaves the seat alone.         *)
THEOREM ImplementsSeat == Spec => SeatSpec
<1>1. Init => Shared!Init
  BY DEF Init, Shared!Init, Holder, Admitted, Children
<1>2. SupInv /\ [Next]_vars => [Shared!Next]_(Shared!vars)
  <2> SUFFICES ASSUME SupInv, [Next]_vars
               PROVE  Shared!Next \/ UNCHANGED <<Holder, Admitted>>
    BY DEF Shared!vars
  <2> USE SupervisorAssumption DEF SupInv, TypeOK, Placed, Greeting, Starting,
          login, keyring, Becomes, Holder, Admitted
  <2>1. CASE Greets
    <3>1. CASE SpawnCompositor
      <4>1. Shared!Greet
        BY <3>1 DEF SpawnCompositor, Shared!Greet, Children
      <4> QED
        BY <4>1 DEF Shared!Next
    <3>2. CASE \/ PrepareGreeter \/ PrepareFails \/ SpawnCompositorFails
               \/ NoDisplay \/ SpawnUiFails \/ ScreenGoes \/ WaitsOut
      BY <3>2 DEF PrepareGreeter, PrepareFails, SpawnCompositorFails, NoDisplay,
                  SpawnUiFails, ScreenGoes, WaitsOut
    <3>3. ASSUME NEW n \in Displays, FindDisplay(n)
          PROVE  UNCHANGED <<Holder, Admitted>>
      BY <3>3 DEF FindDisplay
    <3>4. CASE SpawnUi
      BY <3>4 DEF SpawnUi, Children
    <3>5. CASE UiStopped \/ CompositorStopped
      BY <3>5 DEF UiStopped, CompositorStopped, Reaped, Stopping, Children
    <3> QED
      BY <2>1, <3>1, <3>2, <3>3, <3>4, <3>5 DEF Greets
  <2>2. CASE RunsSession
    <3>1. CASE SpawnSession
      <4>1. Shared!Start
        BY <3>1 DEF SpawnSession, Shared!Start, Children
      <4> QED
        BY <4>1 DEF Shared!Next
    <3>2. CASE PrepareSessionFails \/ SpawnSessionFails
      <4>1. Shared!Forget
        BY <3>2 DEF PrepareSessionFails, SpawnSessionFails, Back, Shared!Forget
      <4> QED
        BY <4>1 DEF Shared!Next
    <3>3. CASE \/ PrepareSession \/ SpawnKeyring \/ NoKeyring \/ FindKeyring
               \/ KeyringNotUp \/ Handoff \/ SessionEnds
      BY <3>3 DEF PrepareSession, SpawnKeyring, NoKeyring, FindKeyring,
                  KeyringNotUp, Handoff, SessionEnds, Children
    <3>4. CASE KeyringStopped
      BY <3>4 DEF KeyringStopped, Reaped, Stopping, Back, Children
    <3> QED
      BY <2>2, <3>1, <3>2, <3>3, <3>4 DEF RunsSession
  <2>3. ASSUME NEW p \in Children, Exits(p) \/ ExitsTidily(p)
        PROVE  Shared!Next \/ UNCHANGED <<Holder, Admitted>>
    <3>1. /\ child[p] = "running" /\ child' = [child EXCEPT ![p] = "exited"]
          /\ UNCHANGED <<at, who>>
      BY <2>3 DEF Exits, ExitsTidily, Dies
    <3>2. CASE p \in {"ui", "keyring"}
      BY <3>1, <3>2 DEF Children
    <3>3. CASE p \in {"compositor", "session"}
      <4>1. Shared!Leave
        BY <3>1, <3>3 DEF Shared!Leave, Children
      <4> QED
        BY <4>1 DEF Shared!Next
    <3> QED
      BY <3>2, <3>3 DEF Children
  <2>4. CASE World
    <3>1. ASSUME NEW n \in Displays, CompositorBinds(n)
          PROVE  UNCHANGED <<Holder, Admitted>>
      BY <3>1 DEF CompositorBinds
    <3>2. CASE KeyringBinds \/ AcceptFails
      BY <3>2 DEF KeyringBinds, AcceptFails
    <3>3. ASSUME NEW a \in Accounts, NEW typed \in BOOLEAN, LogsIn(a, typed)
          PROVE  Shared!Next
      <4>1. Shared!Admit(a)
        BY <3>3 DEF LogsIn, Shared!Admit
      <4> QED
        BY <4>1 DEF Shared!Next
    <3> QED
      BY <2>3, <2>4, <3>1, <3>2, <3>3 DEF World
  <2>5. CASE UNCHANGED vars
    BY <2>5 DEF vars
  <2> QED
    BY <2>1, <2>2, <2>3, <2>4, <2>5 DEF Next, Kills, Kill
<1> QED
  BY <1>1, <1>2, AlwaysInv, PTL DEF Spec, SeatSpec, Shared!Spec
=============================================================================
