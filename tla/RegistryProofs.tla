--------------------------- MODULE RegistryProofs ---------------------------
(***************************************************************************)
(* Theorems about Registry: its types and its invariants on ports and rows *)
(* hold for every number of cameras, ports, requests and faults; it        *)
(* implements PortLease, and what is on disk is what was chosen, under     *)
(* the conditions that each theorem names.                                 *)
(*                                                                         *)
(* The invariants are inductive only together: reconcile reclaims a port   *)
(* that a row remembered, so the ports of streams stay distinct and in the *)
(* pool because every row, in memory, in the file or in a snapshot that    *)
(* waits to be inserted, agrees with its camera's flag and the pool.       *)
(***************************************************************************)
EXTENDS Registry, CameraOpsProofs

IInv ==
    /\ TypeOK
    /\ PortsDistinct
    /\ StreamStateConsistent
    /\ RowsConsistent

\* IInv in the vocabulary of the operations' lemmas.
SoundState ==
    /\ up \in BOOLEAN
    /\ IsPartial(plugged, Path, Cabling)
    /\ scan \subseteq DOMAIN plugged
    /\ saver \in Proc \cup {Nobody}
    /\ disk.torn \in BOOLEAN
    /\ Sound(cams)
    /\ SoundRows(persist) /\ SoundRows(disk.rows)
    /\ DOMAIN pend \subseteq Proc
    /\ \A t \in DOMAIN pend : SoundRows(pend[t])

LEMMA IInvSound == (IInv <=> SoundState) /\ (IInv' <=> SoundState')
BY DEF IInv, TypeOK, PortsDistinct, StreamStateConsistent, RowsConsistent,
       SoundState, Sound, SoundRows

LEMMA IInvInit == Init => IInv
PROOF
  <1> SUFFICES ASSUME Init PROVE IInv
    OBVIOUS
  <1>1. IsPartial(plugged, Path, Cabling)
    BY DEF Init, Cablings, IsPartial
  <1>2. Sound(cams) /\ SoundRows(persist) /\ SoundRows(disk.rows) /\ pend = Empty
    BY EmptySound DEF Init
  <1> QED
    BY <1>1, <1>2, IInvSound DEF Init, Empty, SoundState

\* A handler that ends in a sound registry leaves a sound snapshot.
LEMMA LeaveSound ==
    ASSUME IInv, NEW t \in Proc, NEW new, Sound(new), Leave(t, new)
    PROVE  /\ Sound(cams')
           /\ DOMAIN pend' \subseteq Proc
           /\ \A u \in DOMAIN pend' : SoundRows(pend'[u])
PROOF
  <1>1. SoundRows(SnapshotPersist(new))
    BY SnapshotSound
  <1>2. cams' = new /\ pend' = Put(pend, t, SnapshotPersist(new))
    BY DEF Leave
  <1>3. DOMAIN pend \subseteq Proc /\ \A u \in DOMAIN pend : SoundRows(pend[u])
    BY IInvSound DEF SoundState
  <1> HIDE DEF Proc
  <1> QED
    BY <1>1, <1>2, <1>3 DEF Put

\* Taking a snapshot out of pend leaves the others.
LEMMA WithoutSound ==
    ASSUME IInv, NEW t, pend' = Without(pend, t)
    PROVE  /\ DOMAIN pend' \subseteq Proc
           /\ \A u \in DOMAIN pend' : SoundRows(pend'[u])
BY IInvSound DEF SoundState, Without, Restrict

-----------------------------------------------------------------------------
\* Steps.

\* A node is listed, by the initial scan or after it is plugged in.
LEMMA HandleAddSound ==
    ASSUME IInv, NEW p \in Path, NEW dev \in Device, HandleAdd(p, dev)
    PROVE  /\ Sound(cams')
           /\ DOMAIN pend' \subseteq Proc
           /\ \A u \in DOMAIN pend' : SoundRows(pend'[u])
PROOF
  <1>1. Sound(cams) /\ SoundRows(persist) /\ p \in Path \ DOMAIN cams
    BY IInvSound DEF SoundState, HandleAdd
  <1>2. Sound(AddCamera(cams, p, dev, persist))
    BY <1>1, AddCameraSound
  <1>3. Leave(Monitor, AddCamera(cams, p, dev, persist)) /\ Monitor \in Proc
    BY DEF HandleAdd, Proc
  <1> QED
    BY <1>2, <1>3, LeaveSound

LEMMA HotplugStepSound == IInv /\ HotplugStep => IInv'
PROOF
  <1> SUFFICES ASSUME IInv, HotplugStep PROVE SoundState'
    BY IInvSound
  <1> USE IInvSound DEF SoundState
  <1>1. CASE ScanAdd
    <2>1. PICK p \in scan : HandleAdd(p, plugged[p]) /\ scan' = scan \ {p} /\ plugged' = plugged
      BY <1>1 DEF ScanAdd
    <2>2. p \in Path /\ plugged[p] \in Device
      BY CablingAssumption DEF IsPartial
    <2>3. UNCHANGED <<up, persist, disk, saver>>
      BY <2>1 DEF HandleAdd
    <2>4. /\ Sound(cams')
          /\ DOMAIN pend' \subseteq Proc
          /\ \A u \in DOMAIN pend' : SoundRows(pend'[u])
      BY <2>1, <2>2, HandleAddSound
    <2> QED
      BY <2>1, <2>3, <2>4
  <1>2. ASSUME NEW p \in Path, NEW dev \in Cabling, PlugIn(p, dev)
        PROVE  SoundState'
    <2>1. HandleAdd(p, dev) /\ scan' = scan /\ plugged' = Put(plugged, p, dev)
      BY <1>2 DEF PlugIn
    <2>2. UNCHANGED <<up, persist, disk, saver>>
      BY <2>1 DEF HandleAdd
    <2>3. /\ Sound(cams')
          /\ DOMAIN pend' \subseteq Proc
          /\ \A u \in DOMAIN pend' : SoundRows(pend'[u])
      BY <2>1, CablingAssumption, HandleAddSound
    <2>4. IsPartial(plugged', Path, Cabling) /\ scan' \subseteq DOMAIN plugged'
      BY <2>1 DEF IsPartial, Put
    <2> QED
      BY <2>1, <2>2, <2>3, <2>4
  <1>3. ASSUME NEW p \in Path, HandleRemove(p)
        PROVE  SoundState'
    <2>1. Sound(cams')
      BY <1>3, RemoveCameraSound DEF HandleRemove
    <2>2. IsPartial(plugged', Path, Cabling) /\ scan' \subseteq DOMAIN plugged'
      BY <1>3 DEF HandleRemove, IsPartial, Without, Restrict
    <2> QED
      BY <1>3, <2>1, <2>2 DEF HandleRemove
  <1> QED
    BY <1>1, <1>2, <1>3 DEF HotplugStep

LEMMA RequestStepSound ==
    ASSUME IInv, NEW r \in Request, RequestStep(r)
    PROVE  IInv'
PROOF
  <1> SUFFICES SoundState'
    BY IInvSound
  <1> USE IInvSound DEF SoundState
  <1>0. r \in Proc
    BY DEF Proc
  <1>1. PICK id \in CamId :
            \/ \E on \in BOOLEAN : SetEnabled(r, id, on)
            \/ DisableDropped(r, id)
            \/ \E mode \in Mode : SetMode(r, id, mode)
            \/ \E auth \in Auth \cup {NoAuth, EmptyUser} : SetStreamAuth(r, id, auth)
    BY DEF RequestStep
  <1>2. ASSUME NEW new, Sound(new), Leave(r, new),
               UNCHANGED <<up, plugged, scan, persist, disk, saver>>
        PROVE  SoundState'
    BY <1>0, <1>2, LeaveSound
  <1>3. ASSUME NEW on \in BOOLEAN, SetEnabled(r, id, on)
        PROVE  SoundState'
    BY <1>2, <1>3, EnableCameraSound DEF SetEnabled
  <1>4. CASE DisableDropped(r, id)
    BY <1>4, SwitchCameraSound DEF DisableDropped
  <1>5. ASSUME NEW mode \in Mode, SetMode(r, id, mode)
        PROVE  SoundState'
    BY <1>2, <1>5, ChangeModeSound DEF SetMode
  <1>6. ASSUME NEW auth \in Auth \cup {NoAuth, EmptyUser}, SetStreamAuth(r, id, auth)
        PROVE  SoundState'
    BY <1>2, <1>6, ChangeAuthSound DEF SetStreamAuth
  <1> QED
    BY <1>1, <1>3, <1>4, <1>5, <1>6

LEMMA PersistStepSound == IInv /\ PersistStep => IInv'
PROOF
  <1> SUFFICES ASSUME IInv, PersistStep PROVE SoundState'
    BY IInvSound
  <1> USE IInvSound DEF SoundState
  <1>1. ASSUME NEW t \in Proc, InsertSnapshot(t)
        PROVE  SoundState'
    <2>1. SoundRows(persist')
      BY <1>1, InsertRowsSound DEF InsertSnapshot
    <2> QED
      BY <1>1, <2>1, WithoutSound DEF InsertSnapshot
  <1>2. ASSUME NEW t \in Proc, InsertUnsaved(t)
        PROVE  SoundState'
    <2>1. SoundRows(persist')
      BY <1>2, InsertRowsSound DEF InsertUnsaved
    <2> QED
      BY <1>2, <2>1, WithoutSound DEF InsertUnsaved
  <1>3. CASE FinishSave
    BY <1>3 DEF FinishSave
  <1>4. CASE WriteFails
    BY <1>4 DEF WriteFails
  <1>5. ASSUME NEW r \in Request, Disconnect(r)
        PROVE  SoundState'
    BY <1>5, WithoutSound DEF Disconnect
  <1> QED
    BY <1>1, <1>2, <1>3, <1>4, <1>5 DEF PersistStep

LEMMA CrashSound == IInv /\ Crash => IInv'
PROOF
  <1> SUFFICES ASSUME IInv, Crash PROVE SoundState'
    BY IInvSound
  <1>1. SoundState
    BY IInvSound
  <1>2. Sound(cams') /\ SoundRows(persist') /\ pend' = Empty
    BY EmptySound DEF Crash
  <1> QED
    BY <1>1, <1>2 DEF Crash, SoundState, Empty

LEMMA BootSound == IInv /\ Boot => IInv'
PROOF
  <1> SUFFICES ASSUME IInv, Boot PROVE SoundState'
    BY IInvSound
  <1>1. SoundState
    BY IInvSound
  <1>2. IsPartial(plugged', Path, Cabling)
    BY <1>1 DEF Boot, SoundState, Cablings, IsPartial
  <1>3. SoundRows(persist')
    BY <1>1, RestrictRowsSound DEF Boot, SoundState, Loadable
  <1> QED
    BY <1>1, <1>2, <1>3 DEF Boot, SoundState

LEMMA IInvStep == IInv /\ [Next]_vars => IInv'
PROOF
  <1> SUFFICES ASSUME IInv, [Next]_vars PROVE IInv'
    OBVIOUS
  <1>1. CASE HotplugStep
    BY <1>1, HotplugStepSound
  <1>2. CASE \E r \in Request : RequestStep(r)
    BY <1>2, RequestStepSound
  <1>3. CASE PersistStep
    BY <1>3, PersistStepSound
  <1>4. CASE Crash
    BY <1>4, CrashSound
  <1>5. CASE Boot
    BY <1>5, BootSound
  <1>6. CASE UNCHANGED vars
    BY <1>6 DEF vars, IInv, TypeOK, PortsDistinct, StreamStateConsistent, RowsConsistent
  <1> QED
    BY <1>1, <1>2, <1>3, <1>4, <1>5, <1>6 DEF Next

-----------------------------------------------------------------------------
\* Streams, across a step.

\* Each handler keeps the streams it does not stop, on their ports; a stop of the
\* daemon leaves none.
LEMMA StepKeepsOrStops == IInv /\ [Next]_vars => KeptOrStopped(cams, cams')
PROOF
  <1> SUFFICES ASSUME IInv, [Next]_vars PROVE KeptOrStopped(cams, cams')
    OBVIOUS
  <1>0. Sound(cams)
    BY IInvSound DEF SoundState
  <1>1. ASSUME cams' = cams PROVE KeptOrStopped(cams, cams')
    BY <1>0, <1>1 DEF KeptOrStopped
  <1>2. CASE HotplugStep
    <2>1. ASSUME NEW p, NEW dev, HandleAdd(p, dev) PROVE KeptOrStopped(cams, cams')
      BY <2>1, AddCameraKeepsOrStops DEF HandleAdd, Leave
    <2>2. ASSUME NEW p, HandleRemove(p) PROVE KeptOrStopped(cams, cams')
      BY <2>2, RemoveCameraKeepsOrStops DEF HandleRemove
    <2> QED
      BY <1>2, <2>1, <2>2 DEF HotplugStep, ScanAdd, PlugIn
  <1>3. ASSUME NEW r \in Request, RequestStep(r) PROVE KeptOrStopped(cams, cams')
    <2>1. PICK id \in CamId :
              \/ \E on \in BOOLEAN : SetEnabled(r, id, on)
              \/ DisableDropped(r, id)
              \/ \E mode \in Mode : SetMode(r, id, mode)
              \/ \E auth \in Auth \cup {NoAuth, EmptyUser} : SetStreamAuth(r, id, auth)
      BY <1>3 DEF RequestStep
    <2>2. ASSUME NEW on \in BOOLEAN, SetEnabled(r, id, on) PROVE KeptOrStopped(cams, cams')
      BY <1>0, <2>2, SwitchCameraKeepsOrStops, ReconcileKeepsOrStops
         DEF SetEnabled, Leave, EnableCamera
    <2>3. CASE DisableDropped(r, id)
      BY <1>0, <2>3, SwitchCameraKeepsOrStops DEF DisableDropped
    <2>4. ASSUME NEW mode, SetMode(r, id, mode) PROVE KeptOrStopped(cams, cams')
      BY <1>0, <2>4, ChangeModeKeepsOrStops DEF SetMode, Leave
    <2>5. ASSUME NEW auth, SetStreamAuth(r, id, auth) PROVE KeptOrStopped(cams, cams')
      BY <1>0, <2>5, ChangeAuthKeepsOrStops DEF SetStreamAuth, Leave
    <2> QED
      BY <2>1, <2>2, <2>3, <2>4, <2>5
  <1>4. CASE PersistStep
    BY <1>1, <1>4 DEF PersistStep, InsertSnapshot, InsertUnsaved, FinishSave,
                      WriteFails, Disconnect
  <1>5. CASE Crash
    BY <1>5 DEF Crash, Empty, KeptOrStopped
  <1>6. CASE Boot
    BY <1>1, <1>6 DEF Boot
  <1>7. CASE UNCHANGED vars
    BY <1>1, <1>7 DEF vars
  <1> QED
    BY <1>2, <1>3, <1>4, <1>5, <1>6, <1>7 DEF Next

\* Every handler that frees a port, or makes a camera wait, reconciles; only a
\* request that is dropped before it does may leave someone waiting.
LEMMA StepServes ==
    ASSUME IInv, Served(cams), [Next]_vars, "disconnect" \notin Faults
    PROVE  Served(cams)'
PROOF
  <1>0. Sound(cams) /\ SoundRows(persist)
    BY IInvSound DEF SoundState
  <1>1. CASE cams' = cams
    BY <1>1
  <1>2. CASE HotplugStep
    <2>1. ASSUME NEW p \in Path, NEW dev \in Device, HandleAdd(p, dev) PROVE Served(cams')
      <3> DEFINE mid == Put(cams, p, NewCamera(dev, persist))
      <3>1. cams' = Reconcile(mid)
        BY <2>1 DEF HandleAdd, Leave, AddCamera
      <3>2. p \in Path \ DOMAIN cams
        BY <2>1 DEF HandleAdd
      <3>3. Sound(mid)
        BY <1>0, <3>2, PutCameraSound
      <3> QED
        BY <3>1, <3>3, ReconcileServes
    <2>2. ASSUME NEW p, HandleRemove(p) PROVE Served(cams')
      BY <1>0, <2>2, RestrictSound, ReconcileServes DEF HandleRemove, RemoveCamera
    <2>3. ASSUME NEW p \in scan, HandleAdd(p, plugged[p]) PROVE Served(cams')
      <3>1. p \in Path /\ plugged[p] \in Device
        BY IInvSound, CablingAssumption DEF SoundState, IsPartial
      <3> QED
        BY <2>1, <2>3, <3>1
    <2> QED
      BY <1>2, <2>1, <2>2, <2>3, CablingAssumption DEF HotplugStep, ScanAdd, PlugIn
  <1>3. ASSUME NEW r \in Request, RequestStep(r) PROVE Served(cams')
    <2>1. PICK id \in CamId :
              \/ \E on \in BOOLEAN : SetEnabled(r, id, on)
              \/ DisableDropped(r, id)
              \/ \E mode \in Mode : SetMode(r, id, mode)
              \/ \E auth \in Auth \cup {NoAuth, EmptyUser} : SetStreamAuth(r, id, auth)
      BY <1>3 DEF RequestStep
    <2>2. ASSUME NEW on \in BOOLEAN, SetEnabled(r, id, on) PROVE Served(cams')
      BY <1>0, <2>2, SwitchCameraSound, ReconcileServes DEF SetEnabled, Leave, EnableCamera
    <2>3. ~DisableDropped(r, id)
      BY DEF DisableDropped
    <2>4. ASSUME NEW mode \in Mode, SetMode(r, id, mode) PROVE Served(cams')
      BY <1>0, <2>4, StoreModeSound, ReconcileServes DEF SetMode, Leave, ChangeMode
    <2>5. ASSUME NEW auth, SetStreamAuth(r, id, auth) PROVE Served(cams')
      BY <1>0, <2>5, ChangeAuthServes DEF SetStreamAuth, Leave
    <2> QED
      BY <2>1, <2>2, <2>3, <2>4, <2>5
  <1>4. CASE PersistStep
    BY <1>1, <1>4 DEF PersistStep, InsertSnapshot, InsertUnsaved, FinishSave,
                      WriteFails, Disconnect
  <1>5. CASE Crash
    BY <1>5, EmptyServed DEF Crash
  <1>6. CASE Boot
    BY <1>1, <1>6 DEF Boot
  <1>7. CASE UNCHANGED vars
    BY <1>1, <1>7 DEF vars
  <1> QED
    BY <1>2, <1>3, <1>4, <1>5, <1>6, <1>7 DEF Next

-----------------------------------------------------------------------------
\* The file and the memory.

\* DiskMirrorsMemory is inductive with what holds while the file is written: it
\* is written from memory as it is, and only a running daemon has tasks at work.
Mirrored ==
    /\ DiskMirrorsMemory
    /\ saver # Nobody => persist = disk.rows
    /\ ~up => DOMAIN pend = {} /\ saver = Nobody

LEMMA MirroredStep ==
    ASSUME Mirrored, [Next]_vars, "save_error" \notin Faults
    PROVE  Mirrored'
PROOF
  <1> USE DEF Mirrored, DiskMirrorsMemory
  <1>1. ASSUME UNCHANGED <<up, persist, disk, saver>>,
               ~up => pend' = pend
        PROVE  Mirrored'
    BY <1>1
  <1>2. CASE HotplugStep
    BY <1>1, <1>2 DEF HotplugStep, ScanAdd, PlugIn, HandleAdd, HandleRemove, MayStart
  <1>3. ASSUME NEW r \in Request, RequestStep(r) PROVE Mirrored'
    BY <1>1, <1>3 DEF RequestStep, SetEnabled, DisableDropped, SetMode,
                      SetStreamAuth, MayStart
  <1>4. CASE PersistStep
    <2>1. ASSUME NEW t \in Proc, InsertSnapshot(t) PROVE Mirrored'
      BY <2>1 DEF InsertSnapshot
    <2>2. ASSUME NEW t \in Proc PROVE ~InsertUnsaved(t) /\ ~WriteFails
      BY DEF InsertUnsaved, WriteFails
    <2>3. CASE FinishSave
      BY <2>3 DEF FinishSave
    <2>4. ASSUME NEW r \in Request, Disconnect(r) PROVE Mirrored'
      BY <2>4 DEF Disconnect, Without, Restrict
    <2> QED
      BY <1>4, <2>1, <2>2, <2>3, <2>4 DEF PersistStep, WriteFails
  <1>5. CASE Crash
    BY <1>5 DEF Crash, Empty
  <1>6. CASE Boot
    BY <1>6 DEF Boot, Loadable
  <1>7. CASE UNCHANGED vars
    BY <1>7 DEF vars
  <1> QED
    BY <1>2, <1>3, <1>4, <1>5, <1>6, <1>7 DEF Next

-----------------------------------------------------------------------------
\* Modes.

\* A mode of a camera that may sit in the USB port.
FitsPort(id, mode) == \E dev \in Cabling :
    /\ dev.id = id
    /\ \/ mode \in Advertised[dev.cam]
       \/ FirstMode[dev.cam] \in {mode, NoMode}

RowsFit(rows)    == \A id \in DOMAIN rows : FitsPort(id, rows[id].mode)
ModesFit(listed) == \A p \in DOMAIN listed :
    /\ [cam |-> listed[p].cam, id |-> listed[p].id] \in Cabling
    /\ FitsPort(listed[p].id, listed[p].mode)

\* ModeFitsPort is inductive together with the rows that modes are resumed from.
ModesRight ==
    /\ ModesFit(cams)
    /\ RowsFit(persist) /\ RowsFit(disk.rows)
    /\ \A t \in DOMAIN pend : RowsFit(pend[t])

\* What the catalogue takes and what a camera starts with fit the port the camera is in.
LEMMA SupportedFits ==
    ASSUME NEW dev \in Cabling, NEW mode, Supports(dev.cam, mode)
    PROVE  FitsPort(dev.id, mode)
PROOF
  <1>1. dev.cam \in Camera
    BY CablingAssumption DEF Device
  <1> QED
    BY <1>1, FirstModeAssumption DEF Supports, FitsPort

LEMMA InitialFits ==
    ASSUME NEW dev \in Cabling
    PROVE  FitsPort(dev.id, InitialSettings(dev.cam))
PROOF
  <1>1. dev.cam \in Camera
    BY CablingAssumption DEF Device
  <1> QED
    BY <1>1, FirstModeAssumption DEF InitialSettings, FitsPort

LEMMA SameModesFit ==
    ASSUME NEW listed, ModesFit(listed), NEW new, SameModes(listed, new)
    PROVE  ModesFit(new)
BY DEF ModesFit, SameModes

\* A camera is listed in a mode that fits, remembered or not.
LEMMA AddCameraFits ==
    ASSUME Sound(cams), ModesFit(cams),
           SoundRows(persist), RowsFit(persist),
           NEW p \in Path \ DOMAIN cams, NEW dev \in Cabling
    PROVE  ModesFit(AddCamera(cams, p, dev, persist))
PROOF
  <1> DEFINE c   == NewCamera(dev, persist)
             new == Put(cams, p, c)
  <1>1. dev \in Device
    BY CablingAssumption
  <1>2. dev = [cam |-> dev.cam, id |-> dev.id]
    BY <1>1 DEF Device
  <1>3. c.cam = dev.cam /\ c.id = dev.id /\ FitsPort(c.id, c.mode)
    <2>1. CASE dev.id \in DOMAIN persist
      BY <2>1 DEF NewCamera, RowsFit
    <2>2. CASE dev.id \notin DOMAIN persist
      BY <2>2, InitialFits DEF NewCamera
    <2> QED
      BY <2>1, <2>2
  <1>4. Sound(new)
    BY <1>1, PutCameraSound
  <1> HIDE DEF c
  <1>5. ModesFit(new)
    BY <1>2, <1>3 DEF ModesFit, Put
  <1> HIDE DEF new
  <1>6. ModesFit(Reconcile(new))
    BY <1>4, <1>5, ReconcileSameModes, SameModesFit
  <1> QED
    BY <1>6 DEF AddCamera, new, c

\* A mode is chosen among those of the camera.
LEMMA ChangeModeFits ==
    ASSUME Sound(cams), ModesFit(cams), NEW id, NEW mode \in Mode,
           Supports(cams[FirstNode(cams, id)].cam, mode)
    PROVE  ModesFit(ChangeMode(cams, id, mode))
PROOF
  <1> DEFINE p   == FirstNode(cams, id)
             new == [cams EXCEPT ![p].mode = mode]
  <1>1. \A q \in DOMAIN cams : cams[q] \in CamRecord
    BY DEF Sound, IsRegistry, IsPartial
  <1>2. p \in DOMAIN cams => FitsPort(cams[p].id, mode)
    BY SupportedFits DEF ModesFit
  <1> HIDE DEF p
  <1>3. ModesFit(new)
    BY <1>1, <1>2 DEF ModesFit, CamRecord
  <1>4. Sound(new)
    BY StoreModeSound
  <1> HIDE DEF new
  <1>5. ModesFit(Reconcile(new))
    BY <1>3, <1>4, ReconcileSameModes, SameModesFit
  <1> QED
    BY <1>5 DEF ChangeMode, new, p

\* A snapshot remembers modes under the ports of the cameras that are in them.
LEMMA SnapshotFits ==
    ASSUME NEW listed, Sound(listed), ModesFit(listed)
    PROVE  RowsFit(SnapshotPersist(listed))
PROOF
  <1> SUFFICES ASSUME NEW id \in Ids(listed)
               PROVE  FitsPort(id, SnapshotPersist(listed)[id].mode)
    BY DEF RowsFit, SnapshotPersist
  <1> DEFINE p == LastNode(listed, id)
  <1>1. p \in DOMAIN listed /\ listed[p].id = id
    BY LastNodeExists
  <1>2. SnapshotPersist(listed)[id].mode = listed[p].mode
    BY DEF SnapshotPersist, RowOf
  <1> QED
    BY <1>1, <1>2 DEF ModesFit

LEMMA LeaveFits ==
    ASSUME ModesRight, NEW t, NEW new, Sound(new), ModesFit(new),
           Leave(t, new), UNCHANGED <<persist, disk>>
    PROVE  ModesRight'
PROOF
  <1>1. RowsFit(SnapshotPersist(new))
    BY SnapshotFits
  <1> QED
    BY <1>1 DEF Leave, Put, ModesRight

LEMMA ModesRightStep ==
    ASSUME IInv, ModesRight, [Next]_vars
    PROVE  ModesRight'
PROOF
  <1>0. Sound(cams) /\ SoundRows(persist) /\ ModesFit(cams) /\ RowsFit(persist)
    BY IInvSound DEF SoundState, ModesRight
  <1>1. ASSUME NEW new, SameModes(cams, new) PROVE ModesFit(new)
    BY <1>0, <1>1, SameModesFit
  <1>2. CASE HotplugStep
    <2>1. ASSUME NEW p \in Path, NEW dev \in Cabling, HandleAdd(p, dev) PROVE ModesRight'
      <3>1. p \in Path \ DOMAIN cams /\ dev \in Device
        BY <2>1, CablingAssumption DEF HandleAdd
      <3>2. ModesFit(AddCamera(cams, p, dev, persist))
        BY <1>0, <3>1, AddCameraFits
      <3>3. Sound(AddCamera(cams, p, dev, persist))
        BY <1>0, <3>1, AddCameraSound
      <3> QED
        BY <2>1, <3>2, <3>3, LeaveFits DEF HandleAdd
    <2>2. ASSUME NEW p, HandleRemove(p) PROVE ModesRight'
      BY <1>0, <1>1, <2>2, RemoveCameraSameModes DEF HandleRemove, ModesRight
    <2>3. ASSUME NEW p \in scan, HandleAdd(p, plugged[p]) PROVE ModesRight'
      <3>1. p \in Path /\ plugged[p] \in Cabling
        BY IInvSound DEF SoundState, IsPartial
      <3> QED
        BY <2>1, <2>3, <3>1
    <2> QED
      BY <1>2, <2>1, <2>2, <2>3 DEF HotplugStep, ScanAdd, PlugIn
  <1>3. ASSUME NEW r \in Request, RequestStep(r) PROVE ModesRight'
    <2>1. PICK id \in CamId :
              \/ \E on \in BOOLEAN : SetEnabled(r, id, on)
              \/ DisableDropped(r, id)
              \/ \E mode \in Mode : SetMode(r, id, mode)
              \/ \E auth \in Auth \cup {NoAuth, EmptyUser} : SetStreamAuth(r, id, auth)
      BY <1>3 DEF RequestStep
    <2>2. ASSUME NEW on \in BOOLEAN, SetEnabled(r, id, on) PROVE ModesRight'
      BY <1>0, <1>1, <2>2, EnableCameraSound, EnableCameraSameModes, LeaveFits
         DEF SetEnabled
    <2>3. CASE DisableDropped(r, id)
      BY <1>0, <1>1, <2>3, SwitchCameraSameModes DEF DisableDropped, ModesRight
    <2>4. ASSUME NEW mode \in Mode, SetMode(r, id, mode) PROVE ModesRight'
      BY <1>0, <2>4, ChangeModeSound, ChangeModeFits, LeaveFits DEF SetMode
    <2>5. ASSUME NEW auth \in Auth \cup {NoAuth, EmptyUser}, SetStreamAuth(r, id, auth)
          PROVE  ModesRight'
      BY <1>0, <1>1, <2>5, ChangeAuthSound, ChangeAuthSameModes, LeaveFits
         DEF SetStreamAuth
    <2> QED
      BY <2>1, <2>2, <2>3, <2>4, <2>5
  <1>4. CASE PersistStep
    <2>1. ASSUME NEW t \in DOMAIN pend PROVE RowsFit(InsertRows(persist, pend[t]))
      BY <1>0 DEF ModesRight, RowsFit, InsertRows, Override
    <2>2. ASSUME NEW t, pend' = Without(pend, t)
          PROVE  \A u \in DOMAIN pend' : u \in DOMAIN pend /\ pend'[u] = pend[u]
      BY <2>2 DEF Without, Restrict
    <2>3. ASSUME NEW t, InsertSnapshot(t) PROVE ModesRight'
      BY <2>1, <2>2, <2>3 DEF InsertSnapshot, ModesRight
    <2>4. ASSUME NEW t, InsertUnsaved(t) PROVE ModesRight'
      BY <2>1, <2>2, <2>4 DEF InsertUnsaved, ModesRight
    <2>5. CASE FinishSave
      BY <2>5 DEF FinishSave, ModesRight
    <2>6. CASE WriteFails
      BY <2>6 DEF WriteFails, ModesRight
    <2>7. ASSUME NEW r, Disconnect(r) PROVE ModesRight'
      BY <2>2, <2>7 DEF Disconnect, ModesRight
    <2> QED
      BY <1>4, <2>3, <2>4, <2>5, <2>6, <2>7 DEF PersistStep
  <1>5. CASE Crash
    BY <1>5 DEF Crash, Empty, ModesRight, ModesFit, RowsFit
  <1>6. CASE Boot
    <2>1. RowsFit(persist')
      BY <1>6 DEF Boot, Loadable, ModesRight, RowsFit, Restrict
    <2> QED
      BY <1>6, <2>1 DEF Boot, ModesRight
  <1>7. CASE UNCHANGED vars
    BY <1>7 DEF vars, ModesRight
  <1> QED
    BY <1>2, <1>3, <1>4, <1>5, <1>6, <1>7 DEF Next

-----------------------------------------------------------------------------
\* Choices.

\* The row that rows has for every listed camera is that of the camera as it is.
Recorded(rows, listed) ==
    \A p \in DOMAIN listed : /\ listed[p].id \in DOMAIN rows
                             /\ rows[listed[p].id] = RowOf(listed[p])

\* A USB port has one node.
OneNodePerPort(pl) == \A p, q \in DOMAIN pl : pl[p].id = pl[q].id => p = q

\* new lists nodes that cams lists, in the same USB ports.
SamePorts(listed, new) ==
    DOMAIN new \subseteq DOMAIN listed /\ \A p \in DOMAIN new : new[p].id = listed[p].id

\* ChoicesDurable, with what holds between the critical section of a handler and
\* the end of its write: the snapshot on its way is of the registry as it is, and
\* it is the only one.
Settling ==
    /\ OneNodePerPort(plugged) /\ SamePorts(plugged, cams)
    /\ DOMAIN pend # {} => saver = Nobody
    /\ \A t, u \in DOMAIN pend : t = u
    /\ \A t \in DOMAIN pend : pend[t] = SnapshotPersist(cams)
    /\ saver # Nobody => Recorded(disk.rows, cams)
    /\ ChoicesDurable
    /\ ~up => cams = Empty

\* With one node per camera, legal cabling has one node per USB port.
LEMMA LegalIsOneNode ==
    ASSUME NodesPerCamera = 1, NEW pl, IsPartial(pl, Path, Cabling), LegalCabling(pl)
    PROVE  OneNodePerPort(pl)
PROOF
  <1> SUFFICES ASSUME NEW p \in DOMAIN pl, NEW q \in DOMAIN pl,
                      pl[p].id = pl[q].id, p # q
               PROVE  FALSE
    BY DEF OneNodePerPort
  <1> DEFINE S == {n \in DOMAIN pl : pl[n].cam = pl[p].cam}
  <1>1. {p, q} \subseteq S
    BY DEF LegalCabling
  <1>2. IsFiniteSet(S)
    BY PathAssumption, FS_Subset DEF IsPartial
  <1>3. Cardinality(S) <= 1
    BY DEF LegalCabling
  <1> HIDE DEF S
  <1>4. Cardinality({p, q}) = 2
    <2>1. IsFiniteSet({q}) /\ Cardinality({q}) = 1
      BY FS_Singleton
    <2>2. Cardinality({q} \cup {p}) = 2
      BY <2>1, FS_AddElement
    <2>3. {q} \cup {p} = {p, q}
      OBVIOUS
    <2> QED
      BY <2>2, <2>3
  <1>5. Cardinality({p, q}) <= Cardinality(S) /\ Cardinality(S) \in Nat
    BY <1>1, <1>2, FS_Subset, FS_CardinalityType
  <1> QED
    BY <1>3, <1>4, <1>5

\* A snapshot records the cameras it is of, when no two of them share an id.
LEMMA SnapshotRecords ==
    ASSUME NEW listed, Sound(listed), OneNodePerPort(listed), NEW rows
    PROVE  Recorded(InsertRows(rows, SnapshotPersist(listed)), listed)
PROOF
  <1> SUFFICES ASSUME NEW p \in DOMAIN listed
               PROVE  LET new == InsertRows(rows, SnapshotPersist(listed)) IN
                      /\ listed[p].id \in DOMAIN new
                      /\ new[listed[p].id] = RowOf(listed[p])
    BY DEF Recorded
  <1>1. listed[p].id \in Ids(listed)
    BY DEF Ids
  <1>2. LastNode(listed, listed[p].id) = p
    BY <1>1, LastNodeExists DEF OneNodePerPort
  <1>3. /\ DOMAIN SnapshotPersist(listed) = Ids(listed)
        /\ SnapshotPersist(listed)[listed[p].id] = RowOf(listed[p])
    BY <1>1, <1>2 DEF SnapshotPersist
  <1> QED
    BY <1>1, <1>3 DEF InsertRows, Override

\* A handler that starts when nothing is on its way and ends in its snapshot.
LEMMA LeaveSettles ==
    ASSUME Settling, NEW t \in Proc, NEW new, Leave(t, new), DOMAIN pend = {},
           up' = up, up, saver = Nobody, UNCHANGED <<disk, saver>>,
           OneNodePerPort(plugged'), SamePorts(plugged', new)
    PROVE  Settling'
BY DEF Settling, Leave, Put, ChoicesDurable

LEMMA SettlingStep ==
    ASSUME IInv, IInv', Served(cams), Settling, [Next]_vars,
           Overlap = FALSE, "disconnect" \notin Faults, "save_error" \notin Faults,
           NodesPerCamera = 1, Cardinality(Path) <= Cardinality(Pool)
    PROVE  Settling'
PROOF
  <1>0. /\ Sound(cams) /\ SoundRows(persist)
        /\ OneNodePerPort(plugged) /\ SamePorts(plugged, cams)
    BY IInvSound DEF SoundState, Settling
  <1>1. ASSUME NEW t, MayStart(t) PROVE up /\ DOMAIN pend = {} /\ saver = Nobody
    BY <1>1 DEF MayStart
  <1>2. CASE HotplugStep
    <2>1. ASSUME NEW p, NEW dev, HandleAdd(p, dev), OneNodePerPort(plugged'),
                 \A q \in DOMAIN cams : q \in DOMAIN plugged' /\ plugged'[q] = plugged[q],
                 p \in DOMAIN plugged', plugged'[p] = dev, p \in Path, dev \in Device
          PROVE  Settling'
      <3> DEFINE mid == Put(cams, p, NewCamera(dev, persist))
      <3>1. MayStart(Monitor) /\ Leave(Monitor, Reconcile(mid)) /\ Monitor \in Proc
        BY <2>1 DEF HandleAdd, AddCamera, Proc
      <3>2. p \in Path \ DOMAIN cams
        BY <2>1 DEF HandleAdd
      <3>3. SameModes(mid, Reconcile(mid))
        BY <1>0, <2>1, <3>2, PutCameraSound, ReconcileSameModes
      <3>4. NewCamera(dev, persist).id = dev.id
        BY DEF NewCamera
      <3>5. SamePorts(plugged', mid)
        BY <1>0, <2>1, <3>4 DEF SamePorts, Put
      <3> HIDE DEF mid
      <3>6. SamePorts(plugged', Reconcile(mid))
        BY <3>3, <3>5 DEF SamePorts, SameModes
      <3>7. UNCHANGED <<up, disk, saver>>
        BY <2>1 DEF HandleAdd
      <3> QED
        BY <1>1, <2>1, <3>1, <3>6, <3>7, LeaveSettles
    <2>2. CASE ScanAdd
      <3>1. PICK p \in scan : HandleAdd(p, plugged[p]) /\ plugged' = plugged
        BY <2>2 DEF ScanAdd
      <3>2. p \in Path /\ plugged[p] \in Device /\ p \in DOMAIN plugged
        BY IInvSound, CablingAssumption DEF SoundState, IsPartial
      <3> QED
        BY <1>0, <2>1, <3>1, <3>2 DEF SamePorts
    <2>3. ASSUME NEW p \in Path, NEW dev \in Cabling, PlugIn(p, dev) PROVE Settling'
      <3>1. /\ HandleAdd(p, dev) /\ plugged' = Put(plugged, p, dev)
            /\ LegalCabling(plugged') /\ p \notin DOMAIN plugged /\ dev \in Device
        BY <2>3, CablingAssumption DEF PlugIn
      <3>2. OneNodePerPort(plugged')
        <4>1. IsPartial(plugged', Path, Cabling)
          BY IInvSound DEF SoundState
        <4> QED
          BY <3>1, <4>1, LegalIsOneNode
      <3>3. /\ p \in DOMAIN plugged' /\ plugged'[p] = dev
            /\ \A q \in DOMAIN cams : q \in DOMAIN plugged' /\ plugged'[q] = plugged[q]
        BY <1>0, <3>1 DEF Put, SamePorts
      <3> QED
        BY <2>1, <3>1, <3>2, <3>3
    <2>4. ASSUME NEW p \in Path, HandleRemove(p) PROVE Settling'
      <3> DEFINE left == Restrict(cams, DOMAIN cams \ {p})
      <3>1. Sound(left)
        BY <1>0, RestrictSound
      <3>2. Waiting(cams) = {}
        BY <1>0, ServedIsNotWaiting
      <3>3. Waiting(left) = {}
        BY <3>2 DEF Waiting, Restrict
      <3>4. cams' = left
        BY <2>4, <3>1, <3>3, ReconcileIdles DEF HandleRemove, RemoveCamera
      <3>5. /\ plugged' = Without(plugged, p)
            /\ UNCHANGED <<up, disk, saver, pend>>
            /\ up /\ DOMAIN pend = {} /\ saver = Nobody
        BY <1>1, <2>4 DEF HandleRemove
      <3>6. /\ OneNodePerPort(plugged') /\ SamePorts(plugged', cams')
        BY <1>0, <3>4, <3>5 DEF OneNodePerPort, SamePorts, Without, Restrict
      <3>7. ChoicesDurable'
        BY <3>4, <3>5 DEF Settling, ChoicesDurable, Restrict
      <3> QED
        BY <3>5, <3>6, <3>7 DEF Settling
    <2> QED
      BY <1>2, <2>2, <2>3, <2>4 DEF HotplugStep
  <1>3. ASSUME NEW r \in Request, RequestStep(r) PROVE Settling'
    <2>1. PICK id \in CamId :
              \/ \E on \in BOOLEAN : SetEnabled(r, id, on)
              \/ DisableDropped(r, id)
              \/ \E mode \in Mode : SetMode(r, id, mode)
              \/ \E auth \in Auth \cup {NoAuth, EmptyUser} : SetStreamAuth(r, id, auth)
      BY <1>3 DEF RequestStep
    <2>2. ASSUME NEW new, SamePorts(cams, new), MayStart(r), Leave(r, new),
                 UNCHANGED <<up, plugged, scan, persist, disk, saver>>
          PROVE  Settling'
      <3>1. SamePorts(plugged', new) /\ OneNodePerPort(plugged')
        BY <1>0, <2>2 DEF SamePorts
      <3>2. r \in Proc
        BY DEF Proc
      <3> QED
        BY <1>1, <2>2, <3>1, <3>2, LeaveSettles
    <2>3. ASSUME NEW new, SameModes(cams, new) PROVE SamePorts(cams, new)
      BY <2>3 DEF SameModes, SamePorts
    <2>4. ASSUME NEW on \in BOOLEAN, SetEnabled(r, id, on) PROVE Settling'
      BY <1>0, <2>2, <2>3, <2>4, EnableCameraSameModes DEF SetEnabled
    <2>5. ~DisableDropped(r, id)
      BY DEF DisableDropped
    <2>6. ASSUME NEW mode \in Mode, SetMode(r, id, mode) PROVE Settling'
      <3> DEFINE p   == FirstNode(cams, id)
                 mid == [cams EXCEPT ![p].mode = mode]
      <3>1. \A q \in DOMAIN cams : cams[q] \in CamRecord
        BY <1>0 DEF Sound, IsRegistry, IsPartial
      <3>2. cams' = Reconcile(mid) /\ Leave(r, Reconcile(mid))
        BY <2>6 DEF SetMode, ChangeMode, Leave
      <3> HIDE DEF p
      <3>3. SamePorts(cams, mid)
        BY <3>1 DEF SamePorts, CamRecord
      <3>4. Sound(mid)
        BY <1>0, StoreModeSound
      <3> HIDE DEF mid
      <3>5. SamePorts(cams, Reconcile(mid))
        BY <3>3, <3>4, ReconcileSameModes DEF SamePorts, SameModes
      <3> QED
        BY <2>2, <2>6, <3>2, <3>5 DEF SetMode
    <2>7. ASSUME NEW auth \in Auth \cup {NoAuth, EmptyUser}, SetStreamAuth(r, id, auth)
          PROVE  Settling'
      BY <1>0, <2>2, <2>3, <2>7, ChangeAuthSameModes DEF SetStreamAuth
    <2> QED
      BY <2>1, <2>4, <2>5, <2>6, <2>7
  <1>4. CASE PersistStep
    <2>1. ASSUME NEW t \in Proc, InsertSnapshot(t) PROVE Settling'
      <3>1. /\ t \in DOMAIN pend /\ pend[t] = SnapshotPersist(cams) /\ t # Nobody
            /\ saver' = t /\ pend' = Without(pend, t) /\ disk'.rows = persist'
            /\ persist' = InsertRows(persist, pend[t])
            /\ UNCHANGED <<up, plugged, cams>>
        BY <2>1, ProcAssumption DEF InsertSnapshot, Settling
      <3>2. DOMAIN pend' = {}
        BY <3>1 DEF Settling, Without, Restrict
      <3>3. OneNodePerPort(cams)
        BY <1>0 DEF OneNodePerPort, SamePorts
      <3>4. Recorded(persist', cams)
        BY <1>0, <3>1, <3>3, SnapshotRecords
      <3>5. Recorded(disk'.rows, cams')
        BY <3>1, <3>4
      <3> QED
        BY <3>1, <3>2, <3>5 DEF Settling, ChoicesDurable
    <2>2. ASSUME NEW t \in Proc PROVE ~InsertUnsaved(t) /\ ~WriteFails
      BY DEF InsertUnsaved, WriteFails
    <2>3. CASE FinishSave
      BY <2>3 DEF FinishSave, Settling, ChoicesDurable, Recorded
    <2>4. ASSUME NEW r PROVE ~Disconnect(r)
      BY DEF Disconnect
    <2> QED
      BY <1>4, <2>1, <2>2, <2>3, <2>4 DEF PersistStep, WriteFails
  <1>5. CASE Crash
    BY <1>5 DEF Crash, Empty, Settling, SamePorts, ChoicesDurable
  <1>6. CASE Boot
    <2>1. plugged' \in Cablings \cup {plugged}
      BY <1>6 DEF Boot
    <2>2. OneNodePerPort(plugged')
      <3>1. CASE plugged' = plugged
        BY <1>0, <3>1
      <3>2. CASE plugged' \in Cablings
        <4>1. LegalCabling(plugged') /\ IsPartial(plugged', Path, Cabling)
          BY <3>2 DEF Cablings, IsPartial
        <4> QED
          BY <4>1, LegalIsOneNode
      <3> QED
        BY <2>1, <3>1, <3>2
    <2>3. cams = Empty /\ DOMAIN cams = {}
      BY <1>6 DEF Boot, Settling, Empty
    <2> QED
      BY <1>6, <2>2, <2>3 DEF Boot, Settling, SamePorts, ChoicesDurable, Recorded
  <1>7. CASE UNCHANGED vars
    BY <1>7 DEF vars, Settling, ChoicesDurable
  <1> QED
    BY <1>2, <1>3, <1>4, <1>5, <1>6, <1>7 DEF Next

-----------------------------------------------------------------------------
\* Theorems.

\* The inductive invariant holds in every reachable state.
THEOREM Invariance == Spec => []IInv
BY IInvInit, IInvStep, PTL DEF Spec

\* The registry, the rows and the snapshots keep their types whatever the
\* handlers, the faults and their order.
THEOREM TypeCorrect == Spec => []TypeOK
PROOF
  <1>1. IInv => TypeOK
    BY DEF IInv
  <1> QED
    BY <1>1, Invariance, PTL

\* Two streams never have one port, for any number of cameras and any pool.
THEOREM PortsStayDistinct == Spec => []PortsDistinct
PROOF
  <1>1. IInv => PortsDistinct
    BY DEF IInv
  <1> QED
    BY <1>1, Invariance, PTL

\* A stream has a port of the pool, is that of an enabled camera and is the one
\* that is remembered.
THEOREM StreamsStayConsistent == Spec => []StreamStateConsistent
PROOF
  <1>1. IInv => StreamStateConsistent
    BY DEF IInv
  <1> QED
    BY <1>1, Invariance, PTL

\* No boot ever finds a port remembered for a camera that is off, also when the
\* file was torn or snapshots overtook one another.
THEOREM RowsStayConsistent == Spec => []RowsConsistent
PROOF
  <1>1. IInv => RowsConsistent
    BY DEF IInv
  <1> QED
    BY <1>1, Invariance, PTL

\* No step of any handler, fault or boot moves a stream that runs before and
\* after it to another port, for any number of cameras that come, go and wait.
THEOREM StreamsKeepPorts == Spec => NoPortMoved
PROOF
  <1>1. IInv /\ [Next]_vars =>
          [\A p \in DOMAIN cams \cap DOMAIN cams' :
             cams[p].streaming /\ cams'[p].streaming
                => cams'[p].port = cams[p].port]_vars
    BY StepKeepsOrStops DEF KeptOrStopped
  <1> QED
    BY <1>1, Invariance, PTL DEF Spec, NoPortMoved

\* As long as no request is dropped half-way, a camera is left waiting only when
\* every port of the pool is in use, for any number of cameras and any pool.
THEOREM NobodyWaitsInVain ==
    ASSUME "disconnect" \notin Faults
    PROVE  Spec => []WaitOnlyWhenExhausted
PROOF
  <1>1. Init => Served(cams)
    BY EmptyServed DEF Init
  <1>2. IInv /\ Served(cams) /\ [Next]_vars => Served(cams)'
    BY StepServes
  <1>3. Served(cams) => WaitOnlyWhenExhausted
    BY DEF Served, WaitOnlyWhenExhausted
  <1> QED
    BY <1>1, <1>2, <1>3, Invariance, PTL DEF Spec

\* What Leased asks of the mapped state.
LEMMA LeasesSound ==
    ASSUME Sound(cams), Served(cams)
    PROVE  Lease!Leased
PROOF
  <1> DEFINE S == {q \in DOMAIN cams : cams[q].streaming}
             l == [p \in S |-> cams[p].port]
  <1>1. \A p \in S : /\ p \in DOMAIN cams /\ p \in Path /\ cams[p].enabled
                     /\ cams[p].port \in Pool /\ cams[p].port # NoPort
    BY DEF Sound, IsRegistry, IsPartial, WellFormed
  <1>2. \A p, q \in S : l[p] = l[q] => p = q
    BY <1>1 DEF Sound, DistinctPorts
  <1>3. {p \in DOMAIN cams : cams[p].enabled} # S => \A port \in Pool : \E p \in S : l[p] = port
    <2> SUFFICES ASSUME {p \in DOMAIN cams : cams[p].enabled} # S, NEW port \in Pool
                 PROVE  \E p \in S : cams[p].port = port
      OBVIOUS
    <2>1. Waiting(cams) # {}
      BY <1>1 DEF Waiting
    <2>2. port \in Used(cams)
      BY <2>1 DEF Served, FreePorts
    <2> QED
      BY <2>2 DEF Used, Sound, WellFormed
  <1>4. {p \in DOMAIN cams : cams[p].enabled} \subseteq Path
    BY DEF Sound, IsRegistry, IsPartial
  <1>5. S \subseteq {p \in DOMAIN cams : cams[p].enabled}
    BY <1>1
  <1>6. l \in [S -> Pool] /\ DOMAIN l = S
    BY <1>1
  <1>7. Lease!IsInjective(l)
    BY <1>2, <1>6 DEF Lease!IsInjective
  <1>8. {p \in DOMAIN cams : cams[p].enabled} # S => Lease!Range(l) = Pool
    <2> HIDE DEF S, l
    <2>1. \A x \in DOMAIN l : l[x] \in Pool
      BY <1>6
    <2> SUFFICES ASSUME {p \in DOMAIN cams : cams[p].enabled} # S
                 PROVE  {l[x] : x \in DOMAIN l} = Pool
      BY DEF Lease!Range
    <2>2. \A port \in Pool : \E x \in DOMAIN l : l[x] = port
      BY <1>3, <1>6
    <2> QED
      BY <2>1, <2>2
  <1> HIDE DEF S
  <1>9. DOMAIN l = S
    OBVIOUS
  <1> QED
    BY <1>4, <1>5, <1>6, <1>7, <1>8, <1>9 DEF Lease!Leased, S

\* The registry keeps the promises of PortLease: every step of every handler, as
\* long as no request is dropped half-way, is a change of leases or none.
THEOREM RegistryImplementsPortLease ==
    ASSUME "disconnect" \notin Faults
    PROVE  Spec => ImplementsPortLease
PROOF
  <1>1. Init => Served(cams) /\ Lease!Init
    BY EmptyServed DEF Init, Empty, Lease!Init
  <1>2. IInv /\ Served(cams) /\ [Next]_vars => Served(cams)'
    BY StepServes
  <1>3. IInv /\ IInv' /\ Served(cams)' /\ [Next]_vars => [Lease!Change]_(Lease!vars)
    <2> SUFFICES ASSUME IInv, IInv', Served(cams)', [Next]_vars
                 PROVE  Lease!Change
      OBVIOUS
    <2>1. Lease!Leased'
      BY IInvSound, LeasesSound, PTL DEF SoundState
    <2>2. KeptOrStopped(cams, cams')
      BY StepKeepsOrStops
    <2> QED
      BY <2>1, <2>2 DEF KeptOrStopped, Lease!Change
  <1> QED
    BY <1>1, <1>2, <1>3, Invariance, PTL DEF Spec, ImplementsPortLease, Lease!Spec

\* As long as no write of state.toml fails, the file that a boot reads holds what
\* the daemon remembers whenever it is not being written.
THEOREM DiskStaysMirror ==
    ASSUME "save_error" \notin Faults
    PROVE  Spec => []DiskMirrorsMemory
PROOF
  <1>1. Init => Mirrored
    BY DEF Init, Mirrored, DiskMirrorsMemory, Empty
  <1>2. Mirrored /\ [Next]_vars => Mirrored'
    BY MirroredStep
  <1>3. Mirrored => DiskMirrorsMemory
    BY DEF Mirrored
  <1> QED
    BY <1>1, <1>2, <1>3, PTL DEF Spec

\* Every camera, also one resumed from a row that was saved long ago, is in a mode of a
\* camera that may sit in its USB port, however cameras are exchanged between ports
\* and whatever faults there are: no mode travels from one port to another.
THEOREM ModesFitPorts == Spec => []ModeFitsPort
PROOF
  <1>1. Init => ModesRight
    BY DEF Init, Empty, ModesRight, ModesFit, RowsFit
  <1>2. IInv /\ ModesRight /\ [Next]_vars => ModesRight'
    BY ModesRightStep
  <1>3. ModesRight => ModeFitsPort
    BY DEF ModesRight, ModesFit, FitsPort, ModeFitsPort
  <1> QED
    BY <1>1, <1>2, <1>3, Invariance, PTL DEF Spec

\* When is a choice kept across a reboot?  Whenever no handler is at work, a boot
\* would read back every listed camera as it is, provided that handlers do not
\* overlap, no request is dropped, no write fails, a camera has one node and the
\* pool has a port for each node.  A stop between boots may come anywhere; the
\* property speaks of the states in which no handler or save is under way.
THEOREM ChoicesStayDurable ==
    ASSUME Overlap = FALSE, "disconnect" \notin Faults, "save_error" \notin Faults,
           NodesPerCamera = 1, Cardinality(Path) <= Cardinality(Pool)
    PROVE  Spec => []ChoicesDurable
PROOF
  <1>1. Init => Served(cams) /\ Settling
    <2> SUFFICES ASSUME Init PROVE Served(cams) /\ Settling
      OBVIOUS
    <2>1. IsPartial(plugged, Path, Cabling) /\ LegalCabling(plugged)
      BY DEF Init, Cablings, IsPartial
    <2>2. OneNodePerPort(plugged)
      BY <2>1, LegalIsOneNode
    <2> QED
      BY <2>2, EmptyServed DEF Init, Settling, SamePorts, ChoicesDurable, Empty
  <1>2. IInv /\ Served(cams) /\ [Next]_vars => Served(cams)'
    BY StepServes
  <1>3. IInv /\ IInv' /\ Served(cams) /\ Settling /\ [Next]_vars => Settling'
    BY SettlingStep
  <1>4. Settling => ChoicesDurable
    BY DEF Settling
  <1> QED
    BY <1>1, <1>2, <1>3, <1>4, Invariance, PTL DEF Spec
=============================================================================
