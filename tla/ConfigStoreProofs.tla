-------------------------- MODULE ConfigStoreProofs --------------------------
(***************************************************************************)
(* Proofs about ConfigStore for any number of invocations, profiles and    *)
(* inputs: its types, that its locked sections see the disk, that it       *)
(* implements ProfileStore, its action properties, and that an add leaves  *)
(* all of its profile or nothing.                                          *)
(***************************************************************************)
EXTENDS ConfigStore, TLAPS

\* What the control state says of the other variables: the strengthening that
\* makes ImageIsDisk inductive and the action properties follow from it.
ControlState ==
    \A p \in Proc :
        /\ pc[p] \in Steps => cmd[p] \in Command
        /\ pc[p] \in Locked \cup {"wait"} =>
               /\ txn[p] \in Txn
               /\ txn[p] = "restore" => snapshot[p] \in Snapshot
        /\ pc[p] \in {"first", "second"} => image[p] \in Image
        /\ pc[p] = "second" => TwoFiles(txn[p])
        /\ pc[p] \in {"first", "second"} /\ txn[p] = "save" /\ cmd[p].refuse =>
               image[p].profiles[cmd[p].name] = None
        /\ pc[p] = "first" /\ txn[p] = "use" =>
               image[p].profiles[cmd[p].name] # None
        /\ pc[p] = "second" /\ txn[p] = "save" => creds[cmd[p].name] # None
        /\ pc[p] = "second" /\ txn[p] = "remove" => profiles[cmd[p].name] = None
        /\ pc[p] = "second" /\ txn[p] = "restore" =>
               profiles[cmd[p].name] = snapshot[p].config

Inv == TypeOK /\ ImageIsDisk /\ ControlState

-----------------------------------------------------------------------------
\* What a transaction computes differs from what it loaded in one slot.

LEMMA ProfilesSlot ==
    ASSUME NEW t \in Txn, NEW c \in Command, NEW img \in Image,
           NEW snap \in Snapshot \cup {None}, t = "restore" => snap \in Snapshot
    PROVE  \E e \in Input \cup {None} :
              NewProfiles(t, c, img, snap) = [img.profiles EXCEPT ![c.name] = e]
<1>1. img.profiles \in [Name -> Input \cup {None}] /\ c.name \in Name /\ c.input \in Input
  BY DEF Image, Command
<1>2. img.profiles = [img.profiles EXCEPT ![c.name] = img.profiles[c.name]]
      /\ img.profiles[c.name] \in Input \cup {None}
  BY <1>1
<1>3. CASE t = "save"
  BY <1>1, <1>3 DEF NewProfiles
<1>4. CASE t = "restore"
  BY <1>4 DEF NewProfiles, Snapshot
<1>5. CASE t = "remove"
  BY <1>5 DEF NewProfiles
<1>6. CASE t \in {"use", "tokens", "logout"}
  BY <1>2, <1>6 DEF NewProfiles
<1>. QED  BY <1>3, <1>4, <1>5, <1>6 DEF Txn

LEMMA DefaultSlot ==
    ASSUME NEW t \in Txn, NEW c \in Command, NEW img \in Image,
           NEW snap \in Snapshot \cup {None}, t = "restore" => snap \in Snapshot
    PROVE  LET d == NewDefault(t, c, img, snap) IN
           /\ d \in Name \cup {None}
           /\ d = img.default_profile \/ d = c.name \/ img.default_profile = c.name
<1>1. img.default_profile \in Name \cup {None} /\ c.name \in Name
  BY DEF Image, Command
<1>2. CASE t \in {"save", "use"}
  BY <1>1, <1>2 DEF NewDefault
<1>3. CASE t = "restore"
  BY <1>1, <1>3 DEF NewDefault, Snapshot
<1>4. CASE t = "remove"
  BY <1>1, <1>4 DEF NewDefault
<1>5. CASE t \in {"tokens", "logout"}
  BY <1>1, <1>5 DEF NewDefault
<1>. QED  BY <1>2, <1>3, <1>4, <1>5 DEF Txn

LEMMA CredsSlot ==
    ASSUME NEW t \in Txn, NEW c \in Command, NEW img \in Image,
           NEW snap \in Snapshot \cup {None}, t = "restore" => snap \in Snapshot,
           NEW client \in Input \cup {None}
    PROVE  \E e \in Credential \cup {None} :
              NewCreds(t, c, img, snap, client) = [img.creds EXCEPT ![c.name] = e]
<1>1. img.creds \in [Name -> Credential \cup {None}] /\ c.name \in Name /\ c.input \in Input
  BY DEF Image, Command
<1>2. img.creds = [img.creds EXCEPT ![c.name] = img.creds[c.name]]
      /\ img.creds[c.name] \in Credential \cup {None}
  BY <1>1
<1>3. CASE t = "save"
  BY <1>1, <1>3 DEF NewCreds, Credential, Store!Credential
<1>4. CASE t = "restore"
  BY <1>4 DEF NewCreds, Snapshot
<1>5. CASE t = "remove"
  BY <1>5 DEF NewCreds
<1>6. CASE t = "tokens"
  BY <1>2, <1>6 DEF NewCreds, Credential, Store!Credential
<1>7. CASE t = "logout"
  BY <1>2, <1>7 DEF NewCreds, Credential, Store!Credential
<1>8. CASE t = "use"
  BY <1>2, <1>8 DEF NewCreds
<1>. QED  BY <1>3, <1>4, <1>5, <1>6, <1>7, <1>8 DEF Txn
-----------------------------------------------------------------------------
\* A rename moves one slot of one file, the one its invocation names, and
\* leaves the other file alone.

LEMMA RenamePutsOneSlot ==
    ASSUME Inv, NEW p \in Proc, NEW file \in File,
           pc[p] \in {"first", "second"},
           file = IF pc[p] = "first" THEN FirstFile(txn[p]) ELSE SecondFile(txn[p]),
           Rename(p, file)
    PROVE  /\ cmd[p].name \in Name
           /\ file = "config" => Store!PutConfig(cmd[p].name)
           /\ file = "credentials" => Store!PutCreds(cmd[p].name)
<1>1. /\ cmd[p] \in Command /\ txn[p] \in Txn /\ image[p] \in Image
      /\ snapshot[p] \in Snapshot \cup {None}
      /\ txn[p] = "restore" => snapshot[p] \in Snapshot
      /\ view[p].config \in Input \cup {None}
  BY DEF Inv, TypeOK, ControlState, Steps, Locked, View
<1>2. cmd[p].name \in Name
  BY <1>1 DEF Command
<1>3. CASE file = "config"
  <2>1. profiles = image[p].profiles /\ default_profile = image[p].default_profile
    BY <1>3 DEF Inv, ImageIsDisk, FirstFile, SecondFile
  <2>2. /\ profiles' = NewProfiles(txn[p], cmd[p], image[p], snapshot[p])
        /\ default_profile' = NewDefault(txn[p], cmd[p], image[p], snapshot[p])
        /\ creds' = creds
    BY <1>3 DEF Rename
  <2>3. \E e \in Input \cup {None} : profiles' = [profiles EXCEPT ![cmd[p].name] = e]
    BY <1>1, <2>1, <2>2, ProfilesSlot
  <2>4. /\ default_profile' \in Name \cup {None}
        /\ \/ default_profile' = default_profile
           \/ default_profile' = cmd[p].name
           \/ default_profile = cmd[p].name
    BY <1>1, <2>1, <2>2, DefaultSlot
  <2>. QED  BY <1>2, <1>3, <2>2, <2>3, <2>4 DEF Store!PutConfig
<1>4. CASE file = "credentials"
  <2>1. creds = image[p].creds
    BY <1>4 DEF Inv, ImageIsDisk, FirstFile, SecondFile
  <2>2. /\ creds' = NewCreds(txn[p], cmd[p], image[p], snapshot[p], view[p].config)
        /\ UNCHANGED <<profiles, default_profile>>
    BY <1>4 DEF Rename
  <2>3. \E e \in Credential \cup {None} :
           NewCreds(txn[p], cmd[p], image[p], snapshot[p], view[p].config)
               = [image[p].creds EXCEPT ![cmd[p].name] = e]
    BY <1>1, CredsSlot
  <2>4. \E e \in Credential \cup {None} : creds' = [creds EXCEPT ![cmd[p].name] = e]
    BY <2>1, <2>2, <2>3
  <2>. QED  BY <1>2, <1>4, <2>2, <2>4 DEF Store!PutCreds, Credential
<1>. QED  BY <1>3, <1>4 DEF File

LEMMA PutKeepsType ==
    ASSUME Store!StoreType, NEW n \in Name, Store!PutConfig(n) \/ Store!PutCreds(n)
    PROVE  Store!StoreType'
BY DEF Store!StoreType, Store!PutConfig, Store!PutCreds

LEMMA RenameKeepsType ==
    ASSUME Inv, NEW p \in Proc, WriteFirst(p) \/ WriteSecond(p)
    PROVE  /\ \E n \in Name : Store!PutConfig(n) \/ Store!PutCreds(n)
           /\ Store!StoreType'
<1>1. PICK file \in File :
          /\ pc[p] \in {"first", "second"}
          /\ file = IF pc[p] = "first" THEN FirstFile(txn[p]) ELSE SecondFile(txn[p])
          /\ Rename(p, file)
  BY DEF WriteFirst, WriteSecond, FirstFile, SecondFile, File
<1>2. /\ cmd[p].name \in Name
      /\ Store!PutConfig(cmd[p].name) \/ Store!PutCreds(cmd[p].name)
  BY <1>1, RenamePutsOneSlot DEF File
<1>. QED  BY <1>2, PutKeepsType DEF Inv, TypeOK

LEMMA InitInv == Init => Inv
<1>. SUFFICES ASSUME Init PROVE Inv
  OBVIOUS
<1>1. Store!StoreType
  BY ConfigAssumption, NoneAssumption
     DEF Init, Store!StoreType, Store!Credential, Credential
<1>2. TypeOK
  BY <1>1 DEF Init, TypeOK, View
<1>3. ImageIsDisk /\ ControlState
  BY DEF Init, ImageIsDisk, ControlState, Locked, Steps
<1>. QED  BY <1>2, <1>3 DEF Inv
-----------------------------------------------------------------------------
\* Every step keeps the types.

LEMMA StepKeepsType == Inv /\ [Next]_vars => TypeOK'
<1>. SUFFICES ASSUME Inv, [Next]_vars PROVE TypeOK'
  OBVIOUS
<1>. USE DEF TypeOK, Goto, Finish, Request, local, Steps, disk
<1>1. UNCHANGED disk => Store!StoreType'
  BY DEF Inv, Store!StoreType
<1>2. CASE UNCHANGED vars
  BY <1>1, <1>2 DEF Inv, vars
<1>3. ASSUME NEW p \in Proc, Begin(p) PROVE TypeOK'
  BY <1>1, <1>3, ConfigAssumption DEF Inv, Begin, Txn
<1>4. ASSUME NEW p \in Proc, CheckName(p) PROVE TypeOK'
  BY <1>1, <1>4 DEF Inv, CheckName, Txn
<1>5. ASSUME NEW p \in Proc, Acquire(p) PROVE TypeOK'
  BY <1>1, <1>5 DEF Inv, Acquire
<1>6. ASSUME NEW p \in Proc, LockTimeout(p) PROVE TypeOK'
  BY <1>1, <1>6 DEF Inv, LockTimeout, Fail, Txn
<1>7. ASSUME NEW p \in Proc, Load(p) PROVE TypeOK'
  <2>1. cmd[p] \in Command
    BY <1>7 DEF Inv, ControlState, Load
  <2>2. [profiles |-> profiles, creds |-> creds, default_profile |-> default_profile] \in Image
    BY DEF Inv, Image, Store!StoreType, Credential
  <2>3. [config |-> profiles[cmd[p].name], creds |-> creds[cmd[p].name],
         prior_default |-> default_profile] \in Snapshot
    BY <2>1 DEF Inv, Snapshot, Store!StoreType, Credential, Command
  <2>4. pc' \in [Proc -> Steps \cup {"idle", "done"}] /\ lock' \in Proc \cup {Free}
    BY <1>7 DEF Inv, Load
  <2>5. result' \in [Proc -> {"none", "ok", "refused", "rejected", "failed"}]
    BY <1>7 DEF Inv, Load
  <2>6. image' \in [Proc -> Image \cup {None}]
    BY <1>7, <2>2 DEF Inv, Load
  <2>7. snapshot' \in [Proc -> Snapshot \cup {None}] /\ touched' \in [Proc -> BOOLEAN]
    <3>1. snapshot \in [Proc -> Snapshot \cup {None}] /\ touched \in [Proc -> BOOLEAN]
      BY DEF Inv
    <3>2. CASE UNCHANGED <<snapshot, touched>>
      BY <3>1, <3>2
    <3>3. CASE ~UNCHANGED <<snapshot, touched>>
      <4>1. /\ snapshot' = [snapshot EXCEPT ![p] =
                   [config |-> profiles[cmd[p].name], creds |-> creds[cmd[p].name],
                    prior_default |-> default_profile]]
            /\ touched' = [touched EXCEPT ![p] = FALSE]
        BY <1>7, <3>3 DEF Load
      <4>. QED  BY <2>3, <3>1, <4>1
    <3>. QED  BY <3>2, <3>3
  <2>8. UNCHANGED <<profiles, default_profile, creds, cmd, txn, view, minted>>
    BY <1>7 DEF Load
  <2>. QED  BY <1>1, <2>4, <2>5, <2>6, <2>7, <2>8 DEF Inv
<1>8. ASSUME NEW p \in Proc, WriteFirst(p) \/ WriteSecond(p) PROVE TypeOK'
  <2>1. Store!StoreType'
    BY <1>8, RenameKeepsType
  <2>2. touched' \in [Proc -> BOOLEAN]
    BY <1>8 DEF Inv, WriteFirst, WriteSecond, Rename
  <2>. QED  BY <1>8, <2>1, <2>2 DEF Inv, WriteFirst, WriteSecond
<1>9. ASSUME NEW p \in Proc, Unlock(p) PROVE TypeOK'
  BY <1>1, <1>9 DEF Inv, Unlock
<1>10. ASSUME NEW p \in Proc, ReadConfig(p) PROVE TypeOK'
  <2>1. cmd[p] \in Command
    BY <1>10 DEF Inv, ControlState, ReadConfig
  <2>. QED  BY <1>1, <1>10, <2>1 DEF Inv, ReadConfig, View, Store!StoreType, Command
<1>11. ASSUME NEW p \in Proc, ReadCreds(p) PROVE TypeOK'
  <2>1. cmd[p] \in Command
    BY <1>11 DEF Inv, ControlState, ReadCreds
  <2>2. creds[cmd[p].name] \in Credential \cup {None}
    BY <2>1 DEF Inv, Store!StoreType, Command, Credential
  <2>3. view' \in [Proc -> View]
    BY <1>11, <2>2 DEF Inv, ReadCreds, View
  <2>4. pc' \in [Proc -> Steps \cup {"idle", "done"}]
        /\ result' \in [Proc -> {"none", "ok", "refused", "rejected", "failed"}]
    BY <1>11 DEF Inv, ReadCreds
  <2>. QED  BY <1>1, <1>11, <2>3, <2>4 DEF Inv, ReadCreds
<1>12. ASSUME NEW p \in Proc, Mint(p) PROVE TypeOK'
  BY <1>1, <1>12 DEF Inv, Mint, Txn
<1>13. ASSUME NEW p \in Proc, Accept(p) PROVE TypeOK'
  BY <1>1, <1>13 DEF Inv, Accept
<1>14. ASSUME NEW p \in Proc, Reject(p) PROVE TypeOK'
  BY <1>1, <1>14 DEF Inv, Reject, Txn
<1>15. ASSUME NEW p \in Proc, IOError(p) PROVE TypeOK'
  BY <1>1, <1>15 DEF Inv, IOError, Fail, Txn
<1>16. ASSUME NEW p \in Proc, Crash(p) PROVE TypeOK'
  BY <1>1, <1>16 DEF Inv, Crash
<1>. QED
  BY <1>2, <1>3, <1>4, <1>5, <1>6, <1>7, <1>8, <1>9, <1>10, <1>11, <1>12, <1>13,
     <1>14, <1>15, <1>16 DEF Next, Step
-----------------------------------------------------------------------------
\* Every step keeps a locked section's image equal to the disk: only the holder
\* of the lock renames a file, and every other locked section would need the
\* lock it holds.

LEMMA StepKeepsImage == Inv /\ [Next]_vars => ImageIsDisk'
<1>. SUFFICES ASSUME Inv, [Next]_vars PROVE ImageIsDisk'
  OBVIOUS
<1>. USE DEF Locked, Goto, Finish, Request, local, disk
<1>0. /\ pc \in [Proc -> Steps \cup {"idle", "done"}]
      /\ txn \in [Proc -> Txn \cup {None}]
      /\ image \in [Proc -> Image \cup {None}]
      /\ ImageIsDisk
  BY DEF Inv, TypeOK
<1>2. CASE UNCHANGED vars
  BY <1>0, <1>2 DEF ImageIsDisk, vars
<1>3. ASSUME NEW p \in Proc, Begin(p) PROVE ImageIsDisk'
  BY <1>0, <1>3 DEF ImageIsDisk, Begin
<1>4. ASSUME NEW p \in Proc, CheckName(p) PROVE ImageIsDisk'
  BY <1>0, <1>4 DEF ImageIsDisk, CheckName
<1>5. ASSUME NEW p \in Proc, Acquire(p) PROVE ImageIsDisk'
  BY <1>0, <1>5, ConfigAssumption DEF ImageIsDisk, Acquire
<1>6. ASSUME NEW p \in Proc, LockTimeout(p) PROVE ImageIsDisk'
  BY <1>0, <1>6 DEF ImageIsDisk, LockTimeout, Fail
<1>7. ASSUME NEW p \in Proc, Load(p) PROVE ImageIsDisk'
  BY <1>0, <1>7 DEF ImageIsDisk, Load
<1>8. ASSUME NEW p \in Proc, WriteFirst(p) PROVE ImageIsDisk'
  BY <1>0, <1>8 DEF ImageIsDisk, WriteFirst, Rename, FirstFile, SecondFile, TwoFiles
<1>9. ASSUME NEW p \in Proc, WriteSecond(p) PROVE ImageIsDisk'
  BY <1>0, <1>9 DEF ImageIsDisk, WriteSecond, Rename
<1>10. ASSUME NEW p \in Proc, Unlock(p) PROVE ImageIsDisk'
  BY <1>0, <1>10 DEF ImageIsDisk, Unlock
<1>11. ASSUME NEW p \in Proc, ReadConfig(p) \/ ReadCreds(p) PROVE ImageIsDisk'
  BY <1>0, <1>11 DEF ImageIsDisk, ReadConfig, ReadCreds
<1>12. ASSUME NEW p \in Proc, Mint(p) \/ Accept(p) \/ Reject(p) PROVE ImageIsDisk'
  BY <1>0, <1>12 DEF ImageIsDisk, Mint, Accept, Reject
<1>13. ASSUME NEW p \in Proc, IOError(p) PROVE ImageIsDisk'
  BY <1>0, <1>13 DEF ImageIsDisk, IOError, Fail
<1>14. ASSUME NEW p \in Proc, Crash(p) PROVE ImageIsDisk'
  BY <1>0, <1>14 DEF ImageIsDisk, Crash
<1>. QED
  BY <1>2, <1>3, <1>4, <1>5, <1>6, <1>7, <1>8, <1>9, <1>10, <1>11, <1>12, <1>13,
     <1>14 DEF Next, Step
-----------------------------------------------------------------------------
\* What the first rename of a two-file transaction leaves for the second.

LEMMA FirstRename ==
    ASSUME Inv, NEW p \in Proc, WriteFirst(p)
    PROVE  LET n == cmd[p].name IN
           /\ txn[p] = "save" => creds'[n] # None
           /\ txn[p] = "remove" => profiles'[n] = None
           /\ txn[p] = "restore" => profiles'[n] = snapshot[p].config
<1>1. /\ cmd[p].name \in Name /\ cmd[p].input \in Input
      /\ image[p] \in Image
      /\ profiles = image[p].profiles /\ creds = image[p].creds
  BY DEF Inv, TypeOK, ControlState, ImageIsDisk, WriteFirst, Command, Steps
<1>2. CASE txn[p] = "save"
  <2>1. creds' = [image[p].creds EXCEPT
                     ![cmd[p].name] = [secret |-> cmd[p].input, tokens |-> None]]
    BY <1>2 DEF WriteFirst, Rename, FirstFile, NewCreds
  <2>2. [secret |-> cmd[p].input, tokens |-> None] \in Credential
    BY <1>1 DEF Credential, Store!Credential
  <2>. QED  BY <1>1, <1>2, <2>1, <2>2, NoneAssumption DEF Image
<1>3. CASE txn[p] \in {"remove", "restore"}
  BY <1>1, <1>3 DEF WriteFirst, Rename, FirstFile, NewProfiles, Image
<1>. QED  BY <1>2, <1>3

LEMMA StepKeepsControl == Inv /\ [Next]_vars => ControlState'
<1>. SUFFICES ASSUME Inv, [Next]_vars, NEW q \in Proc
     PROVE (/\ pc[q] \in Steps => cmd[q] \in Command
            /\ pc[q] \in Locked \cup {"wait"} =>
                   /\ txn[q] \in Txn
                   /\ txn[q] = "restore" => snapshot[q] \in Snapshot
            /\ pc[q] \in {"first", "second"} => image[q] \in Image
            /\ pc[q] = "second" => TwoFiles(txn[q])
            /\ pc[q] \in {"first", "second"} /\ txn[q] = "save" /\ cmd[q].refuse =>
                   image[q].profiles[cmd[q].name] = None
            /\ pc[q] = "first" /\ txn[q] = "use" =>
                   image[q].profiles[cmd[q].name] # None
            /\ pc[q] = "second" /\ txn[q] = "save" => creds[cmd[q].name] # None
            /\ pc[q] = "second" /\ txn[q] = "remove" => profiles[cmd[q].name] = None
            /\ pc[q] = "second" /\ txn[q] = "restore" =>
                   profiles[cmd[q].name] = snapshot[q].config)'
  BY DEF ControlState
<1>. USE DEF Locked, Steps, Goto, Finish, Request, local, disk
<1>0. /\ TypeOK /\ ControlState
      /\ \A p \in Proc : pc[p] \in Locked => lock = p
  BY DEF Inv, ImageIsDisk
<1>2. CASE UNCHANGED vars
  BY <1>0, <1>2 DEF ControlState, vars
<1>3. ASSUME NEW p \in Proc, Begin(p) PROVE ControlState'
  BY <1>0, <1>3, ConfigAssumption DEF TypeOK, ControlState, Begin, Txn
<1>4. ASSUME NEW p \in Proc, CheckName(p) PROVE ControlState'
  BY <1>0, <1>4 DEF TypeOK, ControlState, CheckName, Txn
<1>5. ASSUME NEW p \in Proc, Acquire(p) PROVE ControlState'
  BY <1>0, <1>5 DEF TypeOK, ControlState, Acquire
<1>6. ASSUME NEW p \in Proc, LockTimeout(p) PROVE ControlState'
  BY <1>0, <1>6 DEF TypeOK, ControlState, LockTimeout, Fail, Txn
<1>7. ASSUME NEW p \in Proc, Load(p) PROVE ControlState'
  <2>1. cmd[p] \in Command
    BY <1>0, <1>7 DEF ControlState, Load
  <2>2. [profiles |-> profiles, creds |-> creds, default_profile |-> default_profile] \in Image
    BY <1>0 DEF TypeOK, Image, Store!StoreType, Credential
  <2>3. [config |-> profiles[cmd[p].name], creds |-> creds[cmd[p].name],
         prior_default |-> default_profile] \in Snapshot
    BY <1>0, <2>1 DEF TypeOK, Snapshot, Store!StoreType, Credential, Command
  <2>. QED  BY <1>0, <1>7, <2>2, <2>3 DEF TypeOK, ControlState, Load, Refuses
<1>8. ASSUME NEW p \in Proc, WriteFirst(p) PROVE ControlState'
  <2>1. LET n == cmd[p].name IN
        /\ txn[p] = "save" => creds'[n] # None
        /\ txn[p] = "remove" => profiles'[n] = None
        /\ txn[p] = "restore" => profiles'[n] = snapshot[p].config
    BY <1>8, FirstRename
  <2>2. \A r \in Proc : r # p => pc[r] # "second" /\ pc'[r] = pc[r]
    BY <1>0, <1>8 DEF TypeOK, WriteFirst
  <2>. QED  BY <1>0, <1>8, <2>1, <2>2 DEF TypeOK, ControlState, WriteFirst
<1>9. ASSUME NEW p \in Proc, WriteSecond(p) PROVE ControlState'
  <2>1. \A r \in Proc : pc'[r] # "second"
    BY <1>0, <1>9 DEF TypeOK, WriteSecond
  <2>. QED  BY <1>0, <1>9, <2>1 DEF TypeOK, ControlState, WriteSecond
<1>10. ASSUME NEW p \in Proc, Unlock(p) PROVE ControlState'
  BY <1>0, <1>10 DEF TypeOK, ControlState, Unlock
<1>11. ASSUME NEW p \in Proc, ReadConfig(p) \/ ReadCreds(p) PROVE ControlState'
  BY <1>0, <1>11 DEF TypeOK, ControlState, ReadConfig, ReadCreds
<1>12. ASSUME NEW p \in Proc, Mint(p) \/ Accept(p) \/ Reject(p) PROVE ControlState'
  BY <1>0, <1>12 DEF TypeOK, ControlState, Mint, Accept, Reject, Txn
<1>13. ASSUME NEW p \in Proc, IOError(p) PROVE ControlState'
  BY <1>0, <1>13 DEF TypeOK, ControlState, IOError, Fail, Txn
<1>14. ASSUME NEW p \in Proc, Crash(p) PROVE ControlState'
  BY <1>0, <1>14 DEF TypeOK, ControlState, Crash
<1>. QED
  BY <1>2, <1>3, <1>4, <1>5, <1>6, <1>7, <1>8, <1>9, <1>10, <1>11, <1>12, <1>13,
     <1>14 DEF Next, Step, ControlState

\* Whatever any number of invocations do, crashes and failed renames included,
\* the variables keep their types.
THEOREM TypeCorrect == Spec => []TypeOK
<1>1. Inv /\ [Next]_vars => Inv'
  BY StepKeepsType, StepKeepsImage, StepKeepsControl DEF Inv
<1>. QED  BY <1>1, InitInv, PTL DEF Spec, Inv

LEMMA InvAlways == Spec => []Inv
<1>1. Inv /\ [Next]_vars => Inv'
  BY StepKeepsType, StepKeepsImage, StepKeepsControl DEF Inv
<1>. QED  BY <1>1, InitInv, PTL DEF Spec

\* The lock does its work: what an invocation loaded under it is still on disk
\* when it renames.  (with_config_lock around save_profile_locked, restore,
\* remove, set_default and update_credentials_at.)
THEOREM LockedSectionsSeeTheDisk == Spec => []ImageIsDisk
BY InvAlways, PTL DEF Inv

\* The two whole files implement a store of independent slots: no invocation
\* ever undoes what another did to a different profile.
THEOREM ImplementsProfileStore == Spec => SlotsAreIndependent
<1>1. Init => Store!Init
  BY InitInv DEF Inv, TypeOK, Store!Init
<1>2. Inv /\ [Next]_vars => [Store!Next]_(Store!store)
  <2>. SUFFICES ASSUME Inv, [Next]_vars, ~ UNCHANGED disk
       PROVE  Store!Next
    BY DEF Store!store, disk
  <2>1. PICK p \in Proc : WriteFirst(p) \/ WriteSecond(p)
    BY DEF Next, Step, vars, disk, Begin, CheckName, Acquire, LockTimeout, Load, Unlock,
           ReadConfig, ReadCreds, Mint, Accept, Reject, IOError, Crash
  <2>. QED  BY <2>1, RenameKeepsType DEF Store!Next
<1>. QED  BY <1>1, <1>2, InvAlways, PTL DEF Spec, SlotsAreIndependent, Store!Spec
-----------------------------------------------------------------------------
\* The action properties.

\* `sn profile add` without --force never replaces a profile, whoever else is
\* adding the same name: its check under the lock still holds when it renames
\* config.toml.
THEOREM AddsDoNotClobber == Spec => AddNeverClobbers
<1>1. Inv /\ [Next]_vars =>
        [\A p \in Proc :
            pc[p] = "second" /\ txn[p] = "save" /\ cmd[p].refuse /\ pc'[p] = "unlock"
                => profiles[cmd[p].name] = None]_vars
  BY DEF Inv, ImageIsDisk, ControlState, FirstFile, SecondFile, TwoFiles
<1>. QED  BY <1>1, InvAlways, PTL DEF Spec, AddNeverClobbers

\* Only a rename tears a profile or makes the default dangle.
LEMMA OnlyRenames ==
    ASSUME Inv, [Next]_vars, ~ UNCHANGED disk
    PROVE  \E p \in Proc : WriteFirst(p) \/ WriteSecond(p)
BY DEF Next, Step, vars, disk, Begin, CheckName, Acquire, LockTimeout, Load, Unlock,
       ReadConfig, ReadCreds, Mint, Accept, Reject, IOError, Crash

\* What is known of an invocation about to rename.
LEMMA AtRename ==
    ASSUME Inv, NEW p \in Proc, pc[p] \in {"first", "second"}
    PROVE  /\ cmd[p] \in Command /\ cmd[p].name \in Name /\ cmd[p].input \in Input
           /\ txn[p] \in Txn /\ image[p] \in Image
           /\ image[p].profiles \in [Name -> Input \cup {None}]
           /\ image[p].creds \in [Name -> Credential \cup {None}]
BY DEF Inv, ControlState, Steps, Locked, Command, Image

LEMMA TearingStep ==
    ASSUME Inv, [Next]_vars, NEW n \in Name, ~Torn(n), Torn(n)'
    PROVE  \E p \in Proc :
              /\ txn[p] = "restore" /\ cmd[p].name = n /\ snapshot[p].config # None
              /\ pc[p] \in {"first", "second"} /\ pc'[p] # pc[p]
<1>1. PICK p \in Proc : WriteFirst(p) \/ WriteSecond(p)
  BY OnlyRenames DEF Torn, disk
<1>2. /\ pc[p] \in {"first", "second"} /\ pc'[p] # pc[p]
      /\ pc \in [Proc -> Steps \cup {"idle", "done"}]
  BY <1>1 DEF WriteFirst, WriteSecond, Goto, Inv, TypeOK
<1>3. CASE profiles'[n] # profiles[n]
  \* A configuration appears: by an add its credentials are already there.
  <2>1. /\ profiles' = NewProfiles(txn[p], cmd[p], image[p], snapshot[p])
        /\ profiles = image[p].profiles /\ creds' = creds
        /\ FirstFile(txn[p]) = IF pc[p] = "first" THEN "config" ELSE "credentials"
    BY <1>1, <1>3 DEF WriteFirst, WriteSecond, Rename, Inv, ImageIsDisk,
                      FirstFile, SecondFile
  <2>2. cmd[p].name = n /\ txn[p] \in {"save", "restore", "remove"}
    BY <1>2, <1>3, <2>1, AtRename DEF NewProfiles, Txn
  <2>3. CASE txn[p] = "save"
    <3>1. pc[p] = "second"
      BY <1>2, <2>1, <2>3 DEF FirstFile
    <3>2. creds[n] # None
      BY <2>2, <2>3, <3>1 DEF Inv, ControlState
    <3>. QED  BY <2>1, <3>2 DEF Torn
  <2>4. CASE txn[p] = "remove"
    BY <1>2, <2>1, <2>2, <2>4, AtRename DEF NewProfiles, Torn
  <2>5. CASE txn[p] = "restore"
    BY <1>2, <2>1, <2>2, <2>5, AtRename DEF NewProfiles, Torn
  <2>. QED  BY <2>2, <2>3, <2>4, <2>5
<1>4. CASE profiles'[n] = profiles[n]
  \* Credentials go: a removal takes the configuration first.
  <2>1. creds[n] # None /\ creds'[n] = None /\ profiles[n] # None
    BY <1>4 DEF Torn
  <2>2. /\ creds' = NewCreds(txn[p], cmd[p], image[p], snapshot[p], view[p].config)
        /\ creds = image[p].creds
        /\ FirstFile(txn[p]) = IF pc[p] = "first" THEN "credentials" ELSE "config"
    BY <1>1, <2>1 DEF WriteFirst, WriteSecond, Rename, Inv, ImageIsDisk,
                      FirstFile, SecondFile
  <2>3. [secret |-> cmd[p].input, tokens |-> None] \in Credential
    BY <1>2, AtRename DEF Credential, Store!Credential
  <2>4. view[p].config \in Input \cup {None}
    BY DEF Inv, TypeOK, View
  <2>5. txn[p] \notin {"save", "use", "tokens", "logout"}
    <3>1. ASSUME txn[p] = "save" PROVE FALSE
      <4>1. [secret |-> cmd[p].input, tokens |-> None] # None
        BY <2>3, NoneAssumption
      <4>2. creds' = [creds EXCEPT ![cmd[p].name] = [secret |-> cmd[p].input, tokens |-> None]]
        BY <2>2, <3>1 DEF NewCreds
      <4>3. DOMAIN creds = Name
        BY DEF Inv, TypeOK, Store!StoreType
      <4>. QED  BY <2>1, <4>1, <4>2, <4>3
    <3>2. txn[p] # "use"
      BY <1>2, <2>1, <2>2, AtRename DEF NewCreds
    <3>3. ASSUME txn[p] = "tokens" PROVE FALSE
      <4>. DEFINE old == image[p].creds[cmd[p].name]
                  e == [secret |-> IF old = None THEN None ELSE old.secret,
                        tokens |-> view[p].config]
      <4>1. creds' = [image[p].creds EXCEPT ![cmd[p].name] = e]
        BY <2>2, <3>3 DEF NewCreds
      <4>2. e \in Credential
        BY <1>2, <2>4, AtRename DEF Credential, Store!Credential
      <4>. QED  BY <1>2, <2>1, <2>2, <4>1, <4>2, AtRename, NoneAssumption
    <3>4. ASSUME txn[p] = "logout" PROVE FALSE
      <4>. DEFINE old == image[p].creds[cmd[p].name]
                  e == [secret |-> old.secret, tokens |-> None]
      <4>1. creds' = IF old = None THEN image[p].creds
                     ELSE [image[p].creds EXCEPT ![cmd[p].name] = e]
        BY <2>2, <3>4 DEF NewCreds
      <4>2. old # None => e \in Credential
        BY <1>2, AtRename DEF Credential, Store!Credential
      <4>. QED  BY <1>2, <2>1, <2>2, <4>1, <4>2, AtRename, NoneAssumption
    <3>. QED  BY <3>1, <3>2, <3>3, <3>4
  <2>6. txn[p] \in {"remove", "restore"} /\ pc[p] = "second"
    BY <1>2, <2>2, <2>5, AtRename DEF Txn, FirstFile
  <2>7. cmd[p].name = n
    BY <1>2, <2>1, <2>2, <2>6, AtRename DEF NewCreds
  <2>. QED  BY <1>2, <2>1, <2>6, <2>7 DEF Inv, ControlState
<1>. QED  BY <1>3, <1>4

\* An add, a removal, a login or a logout never leaves a configuration without
\* credentials on disk for an unlocked reader, not even killed half way; only a
\* rollback that reinstates an overwritten profile can.
THEOREM OnlyRollbacksTear == Spec => TornOnlyByRollback
<1>1. Inv /\ [Next]_vars =>
        [\A n \in Name : ~Torn(n) /\ Torn(n)' =>
            \E p \in Proc :
               /\ txn[p] = "restore" /\ cmd[p].name = n /\ snapshot[p].config # None
               /\ pc[p] \in {"first", "second"} /\ pc'[p] # pc[p]]_vars
  BY TearingStep
<1>. QED  BY <1>1, InvAlways, PTL DEF Spec, TornOnlyByRollback

\* `use` and `remove` never leave default_profile naming a profile that is not
\* there, whatever they race with; only a rollback can.
THEOREM OnlyRollbacksDangle == Spec => DanglesOnlyByRollback
<1>1. ASSUME Inv, [Next]_vars, ~Dangling, Dangling'
      PROVE  \E p \in Proc :
                pc[p] = "first" /\ pc'[p] = "second" /\ txn[p] = "restore"
  <2>1. PICK p \in Proc : WriteFirst(p) \/ WriteSecond(p)
    BY <1>1, OnlyRenames DEF Dangling, disk
  <2>2. /\ pc[p] \in {"first", "second"}
        /\ pc \in [Proc -> Steps \cup {"idle", "done"}]
        /\ default_profile \in Name \cup {None}
    BY <1>1, <2>1 DEF WriteFirst, WriteSecond, Inv, TypeOK, Store!StoreType
  <2>3. /\ profiles' = NewProfiles(txn[p], cmd[p], image[p], snapshot[p])
        /\ default_profile' = NewDefault(txn[p], cmd[p], image[p], snapshot[p])
        /\ profiles = image[p].profiles /\ default_profile = image[p].default_profile
        /\ FirstFile(txn[p]) = IF pc[p] = "first" THEN "config" ELSE "credentials"
    BY <1>1, <2>1 DEF Dangling, WriteFirst, WriteSecond, Rename, Inv, ImageIsDisk,
                      FirstFile, SecondFile
  <2>a. cmd[p].name \in Name /\ cmd[p].input \in Input
    BY <1>1, <2>2, AtRename
  <2>b. profiles \in [Name -> Input \cup {None}]
    BY <1>1 DEF Inv, TypeOK, Store!StoreType
  <2>d. /\ cmd[p].name \in Name /\ cmd[p].input \in Input /\ None \notin Name /\ None \notin Input
        /\ profiles \in [Name -> Input \cup {None}]
    BY <2>a, <2>b, NoneAssumption
  <2>4. ASSUME txn[p] = "save" PROVE FALSE
    <3>1. /\ profiles' = [profiles EXCEPT ![cmd[p].name] = cmd[p].input]
          /\ default_profile' = cmd[p].name \/ default_profile' = default_profile
      BY <2>3, <2>4 DEF NewProfiles, NewDefault
    <3>2. profiles'[cmd[p].name] # None /\ \A n \in Name : profiles[n] # None => profiles'[n] # None
      BY <2>d, <3>1
    <3>. QED  BY <1>1, <2>2, <2>d, <3>1, <3>2 DEF Dangling
  <2>5. ASSUME txn[p] = "remove" PROVE FALSE
    <3>1. /\ profiles' = [profiles EXCEPT ![cmd[p].name] = None]
          /\ default_profile' = IF default_profile = cmd[p].name THEN None ELSE default_profile
      BY <2>3, <2>5 DEF NewProfiles, NewDefault
    <3>2. \A n \in Name \ {cmd[p].name} : profiles'[n] = profiles[n]
      BY <2>d, <3>1
    <3>. QED  BY <1>1, <2>2, <2>d, <3>1, <3>2 DEF Dangling
  <2>6. txn[p] # "use"
    <3>1. txn[p] = "use" => image[p].profiles[cmd[p].name] # None
      BY <1>1, <2>2, <2>3 DEF Inv, ControlState, FirstFile
    <3>. QED  BY <1>1, <2>2, <2>3, <3>1, AtRename DEF Dangling, NewProfiles, NewDefault
  <2>7. txn[p] = "restore" /\ pc[p] = "first"
    <3>1. txn[p] \notin {"tokens", "logout"}
      BY <1>1, <2>3 DEF Dangling, NewProfiles, NewDefault
    <3>. QED  BY <1>1, <2>2, <2>3, <2>4, <2>5, <2>6, <3>1, AtRename DEF Txn, FirstFile
  <2>. QED  BY <2>1, <2>2, <2>7 DEF WriteFirst, WriteSecond, Goto, TwoFiles
<1>2. Inv /\ [Next]_vars =>
        [~Dangling /\ Dangling' =>
            \E p \in Proc :
               pc[p] = "first" /\ pc'[p] = "second" /\ txn[p] = "restore"]_vars
  BY <1>1
<1>. QED  BY <1>2, InvAlways, PTL DEF Spec, DanglesOnlyByRollback

\* Both together: what an unlocked reader or a crash finds in the two files is
\* whole and consistent but for what a rollback publishes.
THEOREM OnlyRollbacksBreak == Spec => BrokenOnlyByRollback
BY OnlyRollbacksTear, OnlyRollbacksDangle DEF BrokenOnlyByRollback

-----------------------------------------------------------------------------
\* `sn init` and `sn profile add` are all or nothing: what an add finds in its
\* slots at each of its stages, as long as nobody else has written there.


\* What save_profile leaves of credentials.toml, and of both files.
HoldsSecret(p) ==
    LET n == cmd[p].name IN creds[n] # None /\ creds[n].secret = cmd[p].input

HoldsInput(p) ==
    /\ profiles[cmd[p].name] = cmd[p].input
    /\ HoldsSecret(p)
    /\ default_profile = IF cmd[p].set_default THEN cmd[p].name
                         ELSE snapshot[p].prior_default

\* config.toml, and both files, are what save_profile found.
ConfigAsFound(p) ==
    /\ profiles[cmd[p].name] = snapshot[p].config
    /\ default_profile = snapshot[p].prior_default

AsFound(p) == ConfigAsFound(p) /\ creds[cmd[p].name] = snapshot[p].creds

\* Between the save and a rollback's first rename.
Saved(p) ==
    \/ pc[p] = "unlock" /\ txn[p] = "save"
    \/ pc[p] \in {"config", "creds", "verdict"}
    \/ pc[p] \in {"wait", "load", "first", "unlock"} /\ txn[p] = "tokens"
    \/ pc[p] \in {"wait", "load", "first"} /\ txn[p] = "restore"

\* Only an add has a Snapshot, from its load on.
HasSnapshot(p) ==
    /\ pc[p] \in {"idle", "check"} => snapshot[p] = None
    /\ pc[p] \in {"wait", "load"} /\ txn[p] = "save" => snapshot[p] = None
    /\ pc[p] = "check" => cmd[p].kind = "add"
    /\ pc[p] \in Locked \cup {"wait"} /\ txn[p] = "save" => cmd[p].kind = "add"
    /\ snapshot[p] # None =>
           /\ cmd[p] \in Command /\ cmd[p].kind = "add"
           /\ snapshot[p] \in Snapshot
           /\ txn[p] \in {"save", "tokens", "restore"}

\* What its slots hold while nobody else has written there.
SlotsHold(p) ==
    snapshot[p] # None /\ ~touched[p] =>
        /\ pc[p] = "first" /\ txn[p] = "save" => AsFound(p)
        /\ pc[p] = "second" /\ txn[p] = "save" => ConfigAsFound(p) /\ HoldsSecret(p)
        /\ Saved(p) => HoldsInput(p)
        /\ pc[p] \in {"creds", "verdict"} => view[p].config = cmd[p].input
        /\ pc[p] = "second" /\ txn[p] = "restore" => ConfigAsFound(p)
        /\ pc[p] = "unlock" /\ txn[p] = "restore" => AsFound(p)
        /\ pc[p] = "done" /\ result[p] = "ok" =>
               HoldsInput(p) /\ (cmd[p].verify => cmd[p].input \in Good)
        /\ pc[p] = "done" /\ result[p] = "rejected" => AsFound(p)

Snapshots == \A p \in Proc : HasSnapshot(p)
Slots == \A p \in Proc : SlotsHold(p)

-----------------------------------------------------------------------------
\* A step of one invocation leaves the others where they are, and what it
\* renames it either leaves alone in their slots or marks as touched.

\* What is local to another stays.
LEMMA OnesElse ==
    ASSUME Inv, Snapshots, NEW p \in Proc,
           Begin(p) \/ Step(p) \/ IOError(p) \/ Crash(p),
           NEW q \in Proc, q # p
    PROVE  /\ pc'[q] = pc[q] /\ cmd'[q] = cmd[q] /\ txn'[q] = txn[q]
           /\ snapshot'[q] = snapshot[q] /\ view'[q] = view[q] /\ result'[q] = result[q]
<1>. USE DEF Goto, Finish, Request, Fail, local
<1>0. /\ pc \in [Proc -> Steps \cup {"idle", "done"}]
      /\ cmd \in [Proc -> Command \cup {None}]
      /\ txn \in [Proc -> Txn \cup {None}]
      /\ snapshot \in [Proc -> Snapshot \cup {None}]
      /\ view \in [Proc -> View]
      /\ result \in [Proc -> {"none", "ok", "refused", "rejected", "failed"}]
  BY DEF Inv, TypeOK
<1>1. CASE Begin(p) \/ CheckName(p) \/ Acquire(p) \/ LockTimeout(p)
  BY <1>0, <1>1 DEF Begin, CheckName, Acquire, LockTimeout
<1>2. CASE Load(p) \/ WriteFirst(p) \/ WriteSecond(p) \/ Unlock(p)
  BY <1>0, <1>2 DEF Load, WriteFirst, WriteSecond, Unlock
<1>3. CASE ReadConfig(p) \/ ReadCreds(p) \/ Mint(p) \/ Accept(p) \/ Reject(p)
  BY <1>0, <1>3 DEF ReadConfig, ReadCreds, Mint, Accept, Reject
<1>4. CASE IOError(p) \/ Crash(p)
  BY <1>0, <1>4 DEF IOError, Crash
<1>. QED  BY <1>1, <1>2, <1>3, <1>4 DEF Step

\* The slots of q are not written, or the history variable says they were.
Undisturbed(q) ==
    snapshot[q] # None /\ ~touched'[q] =>
        /\ ~touched[q]
        /\ profiles'[cmd[q].name] = profiles[cmd[q].name]
        /\ creds'[cmd[q].name] = creds[cmd[q].name]
        /\ default_profile' = default_profile

\* A rename in another's slots marks it.
LEMMA TouchedTells ==
    ASSUME Inv, Snapshots, NEW p \in Proc,
           Begin(p) \/ Step(p) \/ IOError(p) \/ Crash(p),
           NEW q \in Proc, q # p
    PROVE  Undisturbed(q)
<1>. SUFFICES ASSUME snapshot[q] # None PROVE Undisturbed(q)
  BY DEF Undisturbed
<1>0. /\ touched \in [Proc -> BOOLEAN] /\ Store!StoreType
      /\ cmd[q] \in Command /\ cmd[q].name \in Name
  BY DEF Inv, TypeOK, Snapshots, HasSnapshot, Command
<1>1. CASE WriteFirst(p) \/ WriteSecond(p)
  <2>1. PICK file \in File :
            /\ pc[p] \in {"first", "second"}
            /\ file = IF pc[p] = "first" THEN FirstFile(txn[p]) ELSE SecondFile(txn[p])
            /\ Rename(p, file)
    BY <1>1 DEF WriteFirst, WriteSecond, FirstFile, SecondFile, File
  <2>2. /\ cmd[p].name \in Name
        /\ file = "config" => Store!PutConfig(cmd[p].name)
        /\ file = "credentials" => Store!PutCreds(cmd[p].name)
    BY <2>1, RenamePutsOneSlot
  <2>3. ~touched'[q] =>
           /\ ~touched[q]
           /\ cmd[q].name # cmd[p].name
           /\ default_profile' = default_profile
    BY <1>0, <2>1 DEF Rename
  <2>4. cmd[q].name # cmd[p].name =>
           /\ profiles'[cmd[q].name] = profiles[cmd[q].name]
           /\ creds'[cmd[q].name] = creds[cmd[q].name]
    BY <1>0, <2>1, <2>2 DEF File, Store!PutConfig, Store!PutCreds, Store!StoreType
  <2>. QED  BY <2>3, <2>4 DEF Undisturbed
<1>2. CASE Load(p)
  BY <1>0, <1>2 DEF Load, disk, Undisturbed
<1>3. CASE ~ (WriteFirst(p) \/ WriteSecond(p) \/ Load(p))
  <2>1. UNCHANGED <<disk, touched>>
    BY <1>3 DEF Step, Begin, CheckName, Acquire, LockTimeout, Unlock, ReadConfig,
                ReadCreds, Mint, Accept, Reject, IOError, Crash, local
  <2>. QED  BY <2>1 DEF disk, Undisturbed
<1>. QED  BY <1>1, <1>2, <1>3

\* So the invariants of the others survive.
LEMMA OthersKeep ==
    ASSUME Inv, Snapshots, Slots, NEW p \in Proc,
           Begin(p) \/ Step(p) \/ IOError(p) \/ Crash(p),
           NEW q \in Proc, q # p
    PROVE  HasSnapshot(q)' /\ SlotsHold(q)'
<1>1. /\ pc'[q] = pc[q] /\ cmd'[q] = cmd[q] /\ txn'[q] = txn[q]
      /\ snapshot'[q] = snapshot[q] /\ view'[q] = view[q] /\ result'[q] = result[q]
  BY OnesElse
<1>2. Undisturbed(q)
  BY TouchedTells
<1>3. HasSnapshot(q) /\ SlotsHold(q)
  BY DEF Snapshots, Slots
<1>4. HasSnapshot(q)'
  BY <1>1, <1>3 DEF HasSnapshot
<1>5. SlotsHold(q)'
  BY <1>1, <1>2, <1>3
     DEF SlotsHold, Undisturbed, Saved, AsFound, ConfigAsFound, HoldsInput, HoldsSecret
<1>. QED  BY <1>4, <1>5

-----------------------------------------------------------------------------
\* The invocation's own steps, when they are no rename.

\* Only an add's save takes a Snapshot, and keeps it.
LEMMA OwnSnapshot ==
    ASSUME Inv, Snapshots, NEW p \in Proc,
           Begin(p) \/ Step(p) \/ IOError(p) \/ Crash(p)
    PROVE  HasSnapshot(p)'
<1>. USE DEF Goto, Finish, Request, Fail, local, Steps, Locked, HasSnapshot
<1>0. /\ pc \in [Proc -> Steps \cup {"idle", "done"}]
      /\ cmd \in [Proc -> Command \cup {None}]
      /\ txn \in [Proc -> Txn \cup {None}]
      /\ snapshot \in [Proc -> Snapshot \cup {None}]
      /\ result \in [Proc -> {"none", "ok", "refused", "rejected", "failed"}]
      /\ HasSnapshot(p)
      /\ pc[p] \in Steps => cmd[p] \in Command
  BY DEF Inv, TypeOK, Snapshots, ControlState
<1>1. CASE Begin(p)
  <2>1. PICK c \in Commands :
            /\ cmd' = [cmd EXCEPT ![p] = c]
            /\ \/ c.kind = "add" /\ pc'[p] = "check" /\ UNCHANGED txn
               \/ c.kind = "add" /\ pc'[p] = "wait" /\ txn'[p] = "save"
               \/ c.kind \in {"remove", "use", "logout"} /\ pc'[p] = "wait" /\ txn'[p] = c.kind
               \/ pc'[p] = "config" /\ UNCHANGED txn
            /\ snapshot' = snapshot
    BY <1>0, <1>1 DEF Begin
  <2>. QED  BY <1>0, <1>1, <2>1 DEF Begin
<1>2. CASE CheckName(p) \/ Acquire(p) \/ LockTimeout(p)
  BY <1>0, <1>2 DEF CheckName, Acquire, LockTimeout
<1>3. CASE Load(p)
  <2>1. [config |-> profiles[cmd[p].name], creds |-> creds[cmd[p].name],
         prior_default |-> default_profile] \in Snapshot
    BY <1>0, <1>3 DEF Load, Inv, TypeOK, Snapshot, Store!StoreType, Credential, Command
  <2>. QED  BY <1>0, <1>3, <2>1 DEF Load
<1>4. CASE WriteFirst(p) \/ WriteSecond(p) \/ Unlock(p)
  BY <1>0, <1>4 DEF WriteFirst, WriteSecond, Unlock
<1>5. CASE ReadConfig(p) \/ ReadCreds(p) \/ Mint(p) \/ Accept(p) \/ Reject(p)
  BY <1>0, <1>5 DEF ReadConfig, ReadCreds, Mint, Accept, Reject
<1>6. CASE IOError(p) \/ Crash(p)
  BY <1>0, <1>6 DEF IOError, Crash
<1>. QED  BY <1>1, <1>2, <1>3, <1>4, <1>5, <1>6 DEF Step

\* What is known of an add's own types.
LEMMA AddTypes ==
    ASSUME Inv, Snapshots, Slots, NEW p \in Proc
    PROVE  /\ pc \in [Proc -> Steps \cup {"idle", "done"}]
           /\ cmd \in [Proc -> Command \cup {None}]
           /\ txn \in [Proc -> Txn \cup {None}]
           /\ snapshot \in [Proc -> Snapshot \cup {None}]
           /\ view \in [Proc -> View]
           /\ result \in [Proc -> {"none", "ok", "refused", "rejected", "failed"}]
           /\ touched \in [Proc -> BOOLEAN]
           /\ HasSnapshot(p) /\ SlotsHold(p)
BY DEF Inv, TypeOK, Snapshots, Slots

\* They keep what the slots hold.
LEMMA OwnQuiet ==
    ASSUME Inv, Snapshots, Slots, NEW p \in Proc,
           \/ Begin(p) \/ CheckName(p) \/ Acquire(p) \/ LockTimeout(p) \/ Load(p)
           \/ Unlock(p) \/ ReadConfig(p) \/ ReadCreds(p) \/ Mint(p) \/ Accept(p)
           \/ Reject(p) \/ IOError(p) \/ Crash(p)
    PROVE  SlotsHold(p)'
<1>. USE DEF Goto, Finish, Request, Fail, local, disk, Steps, SlotsHold, Saved,
             HasSnapshot
<1>0. /\ pc \in [Proc -> Steps \cup {"idle", "done"}]
      /\ cmd \in [Proc -> Command \cup {None}]
      /\ txn \in [Proc -> Txn \cup {None}]
      /\ snapshot \in [Proc -> Snapshot \cup {None}]
      /\ view \in [Proc -> View]
      /\ result \in [Proc -> {"none", "ok", "refused", "rejected", "failed"}]
      /\ touched \in [Proc -> BOOLEAN]
      /\ HasSnapshot(p) /\ SlotsHold(p)
  BY AddTypes
<1>. DEFINE Same == /\ snapshot'[p] = snapshot[p] /\ touched'[p] = touched[p]
                    /\ cmd'[p] = cmd[p]
                    /\ AsFound(p)' = AsFound(p) /\ ConfigAsFound(p)' = ConfigAsFound(p)
                    /\ HoldsInput(p)' = HoldsInput(p) /\ HoldsSecret(p)' = HoldsSecret(p)
<1>s. ASSUME UNCHANGED <<disk, cmd, snapshot, touched>> PROVE Same
  BY <1>s DEF AsFound, ConfigAsFound, HoldsInput, HoldsSecret
<1>. HIDE DEF Same
<1>1. CASE Begin(p)
  BY <1>0, <1>1 DEF Begin
<1>2. CASE CheckName(p)
  BY <1>0, <1>2 DEF CheckName
<1>3. CASE Acquire(p)
  BY <1>0, <1>3, <1>s DEF Acquire, Same
<1>4. CASE LockTimeout(p)
  BY <1>0, <1>4, <1>s DEF LockTimeout, Same
<1>5. CASE Load(p)
  <2>1. CASE Refuses(txn[p], cmd[p]) \/ txn[p] # "save"
    BY <1>0, <1>5, <2>1, <1>s DEF Load, Same
  <2>2. CASE ~Refuses(txn[p], cmd[p]) /\ txn[p] = "save"
    <3>1. snapshot'[p] = [config |-> profiles[cmd[p].name], creds |-> creds[cmd[p].name],
                          prior_default |-> default_profile]
          /\ pc'[p] = "first" /\ UNCHANGED <<profiles, creds, default_profile, cmd, txn>>
      BY <1>0, <1>5, <2>2 DEF Load
    <3>2. AsFound(p)'
      BY <3>1 DEF AsFound, ConfigAsFound
    <3>. QED  BY <3>1, <3>2, <2>2
  <2>. QED  BY <2>1, <2>2
<1>6. CASE Unlock(p)
  BY <1>0, <1>6, <1>s DEF Unlock, Same
<1>7. CASE ReadConfig(p)
  <2>1. Saved(p) /\ view'[p].config = profiles[cmd[p].name]
        /\ pc'[p] = "creds" /\ UNCHANGED <<disk, cmd, snapshot, touched>>
    BY <1>0, <1>7 DEF ReadConfig
  <2>2. snapshot[p] # None /\ ~touched[p] => view'[p].config = cmd[p].input
    BY <1>0, <2>1 DEF HoldsInput
  <2>. QED  BY <1>0, <2>1, <2>2, <1>s DEF Same
<1>8. CASE ReadCreds(p)
  <2>1. view'[p].config = view[p].config
    BY <1>0, <1>8 DEF ReadCreds, View
  <2>2. UNCHANGED <<disk, cmd, snapshot, touched>>
    BY <1>8 DEF ReadCreds
  <2>3. Same
    BY <2>2, <1>s
  <2>. QED  BY <1>0, <1>8, <2>1, <2>3 DEF ReadCreds, Same
<1>9. CASE Mint(p)
  BY <1>0, <1>9, <1>s DEF Mint, Same
<1>10. CASE Accept(p)
  BY <1>0, <1>10, <1>s DEF Accept, Same
<1>11. CASE Reject(p)
  BY <1>0, <1>11, <1>s DEF Reject, Same
<1>12. CASE IOError(p)
  <2>1. UNCHANGED <<disk, cmd, snapshot, touched>>
    BY <1>12 DEF IOError
  <2>2. Same
    BY <2>1, <1>s
  <2>3. CASE txn[p] = "tokens" /\ snapshot[p] # None
    <3>1. Saved(p) /\ pc'[p] = "wait" /\ txn'[p] = "restore"
      BY <1>0, <1>12, <2>3 DEF IOError, TwoFiles, Inv, ControlState
    <3>. QED  BY <1>0, <2>2, <3>1 DEF Same
  <2>4. CASE ~ (txn[p] = "tokens" /\ snapshot[p] # None)
    BY <1>0, <1>12, <2>2, <2>4 DEF IOError, Same
  <2>. QED  BY <2>3, <2>4
<1>13. CASE Crash(p)
  BY <1>0, <1>13, <1>s DEF Crash, Same
<1>. QED  BY <1>1, <1>2, <1>3, <1>4, <1>5, <1>6, <1>7, <1>8, <1>9, <1>10, <1>11,
            <1>12, <1>13

-----------------------------------------------------------------------------
\* Its own renames: the save writes credentials.toml, then config.toml; the
\* tokens go into the entry just written and keep its secret; the rollback
\* puts both slots and the default back.

\* Each leaves the slots as the next stage expects them.
LEMMA OwnRename ==
    ASSUME Inv, Snapshots, Slots, NEW p \in Proc, WriteFirst(p) \/ WriteSecond(p)
    PROVE  SlotsHold(p)'
<1>. SUFFICES ASSUME snapshot[p] # None, ~touched[p] PROVE SlotsHold(p)'
  <2>1. snapshot'[p] = snapshot[p] /\ (touched[p] => touched'[p])
    BY DEF WriteFirst, WriteSecond, Rename, Inv, TypeOK
  <2>. QED  BY <2>1 DEF SlotsHold
<1>. DEFINE n == cmd[p].name
            i == cmd[p].input
<1>0. /\ pc \in [Proc -> Steps \cup {"idle", "done"}]
      /\ HasSnapshot(p) /\ SlotsHold(p)
  BY AddTypes
<1>1. /\ cmd[p] \in Command /\ n \in Name /\ i \in Input
      /\ snapshot[p] \in Snapshot
      /\ txn[p] \in {"save", "tokens", "restore"}
      /\ image[p] \in Image
      /\ image[p].profiles \in [Name -> Input \cup {None}]
      /\ image[p].creds \in [Name -> Credential \cup {None}]
      /\ view[p].config \in Input \cup {None}
  BY <1>0 DEF HasSnapshot, WriteFirst, WriteSecond, Inv, TypeOK, ControlState, Steps,
              Locked, Command, Image, View
<1>2. UNCHANGED <<cmd, txn, snapshot, view, result>>
  BY DEF WriteFirst, WriteSecond
<1>3. CASE WriteFirst(p) /\ txn[p] = "save"
  <2>1. /\ pc[p] = "first" /\ pc'[p] = "second"
        /\ creds' = [image[p].creds EXCEPT ![n] = [secret |-> i, tokens |-> None]]
        /\ UNCHANGED <<profiles, default_profile>>
    BY <1>0, <1>3 DEF WriteFirst, Goto, TwoFiles, Rename, FirstFile, NewCreds
  <2>2. [secret |-> i, tokens |-> None] \in Credential
    BY <1>1 DEF Credential, Store!Credential
  <2>3. HoldsSecret(p)'
    BY <1>1, <1>2, <2>1, <2>2, NoneAssumption DEF HoldsSecret
  <2>4. ConfigAsFound(p)'
    BY <1>0, <1>2, <1>3, <2>1 DEF SlotsHold, AsFound, ConfigAsFound
  <2>. QED  BY <1>2, <1>3, <2>1, <2>3, <2>4 DEF SlotsHold, Saved
<1>4. CASE WriteFirst(p) /\ txn[p] = "tokens"
  <2>1. /\ pc[p] = "first" /\ pc'[p] = "unlock"
        /\ creds' = NewCreds(txn[p], cmd[p], image[p], snapshot[p], view[p].config)
        /\ UNCHANGED <<profiles, default_profile>>
    BY <1>0, <1>4 DEF WriteFirst, Goto, TwoFiles, Rename, FirstFile
  <2>2. HoldsInput(p) /\ image[p].creds = creds
    BY <1>0, <1>4, <2>1 DEF SlotsHold, Saved, Inv, ImageIsDisk
  <2>3. creds' = [creds EXCEPT ![n] = [secret |-> i, tokens |-> view[p].config]]
    BY <1>4, <2>1, <2>2 DEF NewCreds, HoldsInput, HoldsSecret
  <2>4. [secret |-> i, tokens |-> view[p].config] \in Credential
    BY <1>1 DEF Credential, Store!Credential
  <2>5. HoldsSecret(p)'
    BY <1>1, <1>2, <2>2, <2>3, <2>4, NoneAssumption DEF HoldsSecret
  <2>6. HoldsInput(p)'
    BY <1>2, <2>1, <2>2, <2>5 DEF HoldsInput
  <2>. QED  BY <1>2, <1>4, <2>1, <2>6 DEF SlotsHold, Saved
<1>5. CASE WriteFirst(p) /\ txn[p] = "restore"
  <2>1. /\ pc[p] = "first" /\ pc'[p] = "second"
        /\ profiles' = [image[p].profiles EXCEPT ![n] = snapshot[p].config]
        /\ default_profile' = NewDefault(txn[p], cmd[p], image[p], snapshot[p])
        /\ image[p].default_profile = default_profile
    BY <1>0, <1>5 DEF WriteFirst, Goto, TwoFiles, Rename, FirstFile, NewProfiles,
                      Inv, ImageIsDisk
  <2>2. HoldsInput(p)
    BY <1>0, <1>5, <2>1 DEF SlotsHold, Saved
  <2>3. default_profile' = snapshot[p].prior_default
    BY <1>1, <1>5, <2>1, <2>2 DEF NewDefault, HoldsInput, Command
  <2>4. ConfigAsFound(p)'
    BY <1>1, <1>2, <2>1, <2>3 DEF ConfigAsFound
  <2>. QED  BY <1>2, <1>5, <2>1, <2>4 DEF SlotsHold, Saved
<1>6. CASE WriteSecond(p) /\ txn[p] = "save"
  <2>1. /\ pc[p] = "second" /\ pc'[p] = "unlock"
        /\ profiles' = [image[p].profiles EXCEPT ![n] = i]
        /\ default_profile' = NewDefault(txn[p], cmd[p], image[p], snapshot[p])
        /\ image[p].default_profile = default_profile /\ UNCHANGED creds
    BY <1>0, <1>6 DEF WriteSecond, Goto, Rename, SecondFile, FirstFile, NewProfiles,
                      Inv, ImageIsDisk
  <2>2. ConfigAsFound(p) /\ HoldsSecret(p)
    BY <1>0, <1>6, <2>1 DEF SlotsHold
  <2>3. default_profile' = IF cmd[p].set_default THEN n ELSE snapshot[p].prior_default
    BY <1>1, <1>6, <2>1, <2>2 DEF NewDefault, ConfigAsFound, Command
  <2>4. HoldsInput(p)'
    BY <1>1, <1>2, <2>1, <2>2, <2>3 DEF HoldsInput, HoldsSecret
  <2>. QED  BY <1>2, <1>6, <2>1, <2>4 DEF SlotsHold, Saved
<1>7. CASE WriteSecond(p) /\ txn[p] = "restore"
  <2>1. /\ pc[p] = "second" /\ pc'[p] = "unlock"
        /\ creds' = [image[p].creds EXCEPT ![n] = snapshot[p].creds]
        /\ UNCHANGED <<profiles, default_profile>>
    BY <1>0, <1>7 DEF WriteSecond, Goto, Rename, SecondFile, FirstFile, NewCreds
  <2>2. AsFound(p)'
    BY <1>0, <1>1, <1>2, <1>7, <2>1 DEF SlotsHold, AsFound, ConfigAsFound
  <2>. QED  BY <1>2, <1>7, <2>1, <2>2 DEF SlotsHold, Saved
<1>8. ~ (WriteSecond(p) /\ txn[p] = "tokens")
  BY DEF Inv, ControlState, WriteSecond, TwoFiles
<1>. QED  BY <1>1, <1>3, <1>4, <1>5, <1>6, <1>7, <1>8

\* So the slots hold what they should at every stage.
LEMMA SlotsAlways == Spec => [](Inv /\ Snapshots /\ Slots)
<1>1. Init => Snapshots /\ Slots
  BY DEF Init, Snapshots, Slots, HasSnapshot, SlotsHold, Locked
<1>2. Inv /\ Snapshots /\ Slots /\ [Next]_vars => Snapshots' /\ Slots'
  <2>. SUFFICES ASSUME Inv, Snapshots, Slots, [Next]_vars PROVE Snapshots' /\ Slots'
    OBVIOUS
  <2>1. CASE UNCHANGED vars
    <3>1. \A q \in Proc : HasSnapshot(q)' = HasSnapshot(q)
      BY <2>1 DEF vars, HasSnapshot
    <3>2. \A q \in Proc : SlotsHold(q)' = SlotsHold(q)
      BY <2>1 DEF vars, SlotsHold, Saved, AsFound, ConfigAsFound, HoldsInput, HoldsSecret
    <3>. QED  BY <3>1, <3>2 DEF Snapshots, Slots
  <2>2. ASSUME NEW p \in Proc, Begin(p) \/ Step(p) \/ IOError(p) \/ Crash(p)
        PROVE  Snapshots' /\ Slots'
    <3>1. HasSnapshot(p)'
      BY <2>2, OwnSnapshot
    <3>2. SlotsHold(p)'
      BY <2>2, OwnQuiet, OwnRename DEF Step
    <3>3. \A q \in Proc \ {p} : HasSnapshot(q)' /\ SlotsHold(q)'
      BY <2>2, OthersKeep
    <3>. QED  BY <3>1, <3>2, <3>3 DEF Snapshots, Slots
  <2>. QED  BY <2>1, <2>2 DEF Next
<1>. QED  BY <1>1, <1>2, InvAlways, PTL DEF Spec

\* `sn init` and `sn profile add` are all or nothing for a profile nobody else
\* wrote meanwhile, whatever other invocations do to other profiles and
\* wherever they are killed: on success both files hold the input, verified if
\* asked; after a refused verification everything is what was found.
\* (save_and_verify, save_profile_locked, Snapshot::restore.)
THEOREM AddsAreAllOrNothing == Spec => []AllOrNothing
<1>1. Inv /\ Snapshots /\ Slots => AllOrNothing
  BY DEF AllOrNothing, Slots, SlotsHold, AsFound, ConfigAsFound, HoldsInput, HoldsSecret
<1>. QED  BY <1>1, SlotsAlways, PTL

===============================================================================
