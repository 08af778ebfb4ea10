---------------------------- MODULE HarnessProofs ----------------------------
(***************************************************************************)
(* Proofs about the disk scripts, for any number of devices, of which none *)
(* may be left, and of operations in the smoke test.                       *)
(***************************************************************************)
EXTENDS Harness, FiniteSetTheorems, TLAPS

(* The types of what the scripts keep, and that a device is not given back *)
(* while it is mounted.                                                    *)
HarnessTypes ==
  /\ sudo \in BOOLEAN
  /\ script \in Scripts \cup {"none"}
  /\ pc \in {"idle", "unpack", "config", "newfs", "mount", "run", "umount",
             "fsck", "unconfig"}
  /\ acount \in 0 .. (NFUNCS - 1)
  /\ md \in Units \cup {NoUnit}
  /\ mdtxt \in Units \cup {NoUnit}
  /\ units \in [Units -> Images \cup {"none"}]
  /\ mounts \in Seq(Units)
  /\ \A i \in 1 .. Len(mounts) : mounts[i] \in Configured
  /\ image \in [Images -> {"pristine", "used", "broken"}]
  /\ rc \in {0, 1}
  /\ before \subseteq Units
  /\ trouble \in BOOLEAN

(* The script has one device, which was not configured when it started.    *)
OneDevice == md \in Units \ before /\ Configured = before \cup {md}

(* The device is what is mounted topmost, and is mounted once.             *)
OnTop ==
  /\ Len(mounts) > 0
  /\ mounts[Len(mounts)] = md
  /\ \A i \in 1 .. (Len(mounts) - 1) : mounts[i] # md

(* What a script has configured at each of its steps, and what the last    *)
(* one has left.                                                           *)
DeviceInv ==
  /\ script # "none" => before \subseteq Configured
  /\ pc # "idle" => script \in Scripts
  /\ pc \in {"unpack", "config"} => Configured = before
  /\ pc \in {"newfs", "mount", "fsck", "unconfig"} => OneDevice /\ ~Mounted(md)
  /\ pc \in {"run", "umount"} => OneDevice /\ OnTop
  /\ pc \in {"newfs", "mount", "run"} /\ script = "make" => mdtxt = md
  /\ pc = "idle" /\ script # "none" =>
       /\ \A u, v \in Configured \ before : u = v
       /\ rc = 0 => Configured = before

(* Unless a script has failed since the last boot there is no device but   *)
(* the script's own.  The image is as it was unpacked until the test       *)
(* program runs, or a device that the script has found is configured for   *)
(* it.                                                                     *)
FreshInv ==
  /\ pc = "newfs" => script = "make"
  /\ ~trouble => before = {} /\ (pc = "idle" => Configured = {})
  /\ pc \in {"config", "mount", "run"} /\ script # "make" =>
       image[Mine] = "pristine" \/ \E u \in before : units[u] = Mine

HarnessInv == HarnessTypes /\ DeviceInv /\ FreshInv

-----------------------------------------------------------------------------
(* A device that is configured, or released.                               *)
LEMMA ConfigOK ==
  ASSUME HarnessTypes, NEW u \in Units, NEW i \in Images,
         units' = [units EXCEPT ![u] = i]
  PROVE  units' \in [Units -> Images \cup {"none"}] /\ Configured' = Configured \cup {u}
<1>1. units \in [Units -> Images \cup {"none"}] /\ i # "none"
  BY DEF HarnessTypes, Images
<1>. HIDE DEF Images
<1>2. \A v \in Units : units'[v] = IF v = u THEN i ELSE units[v]
  BY <1>1
<1>. QED  BY <1>1, <1>2 DEF Configured

LEMMA ReleaseOK ==
  ASSUME HarnessTypes, md \in Units, Release(md)
  PROVE  /\ units' \in [Units -> Images \cup {"none"}]
         /\ \/ Configured' = Configured
            \/ ~Mounted(md) /\ Configured' = Configured \ {md}
         /\ units'[md] = "none" <=> md \notin Configured'
<1>1. units \in [Units -> Images \cup {"none"}]
  BY DEF HarnessTypes
<1>2. CASE units' = units
  BY <1>1, <1>2 DEF Configured
<1>3. CASE ~Mounted(md) /\ units' = [units EXCEPT ![md] = "none"]
  <2>1. units' \in [Units -> Images \cup {"none"}]
    BY <1>1, <1>3
  <2>2. \A v \in Units : units'[v] = IF v = md THEN "none" ELSE units[v]
    BY <1>1, <1>3
  <2>. QED  BY <1>1, <1>3, <2>1, <2>2 DEF Configured
<1>. QED  BY <1>2, <1>3 DEF Release, Unconfig

(* A device that is not configured is not mounted.                         *)
LEMMA MountedIsConfigured ==
  ASSUME HarnessTypes, NEW u, Mounted(u)
  PROVE  u \in Configured
BY DEF HarnessTypes, Mounted

(* What a script returns.                                                  *)
LEMMA Failed ==
  ASSUME Return(1)
  PROVE  rc' = 1 /\ pc' = "idle" /\ trouble' = TRUE /\ before' = before
<1>1. 1 # 0
  OBVIOUS
<1>. QED  BY <1>1, Zenon DEF Return

LEMMA Succeeded ==
  ASSUME trouble \in BOOLEAN, Return(0)
  PROVE  rc' = 0 /\ pc' = "idle" /\ trouble' = trouble /\ before' = before
BY Zenon DEF Return

LEMMA HarnessInit == Init => HarnessInv
<1>. SUFFICES ASSUME Init PROVE HarnessInv
  OBVIOUS
<1>1. Configured = {}
  BY DEF Init, Configured
<1>2. HarnessTypes
  <2>1. image \in [Images -> {"pristine", "used", "broken"}]
    BY DEF Init
  <2>2. units \in [Units -> Images \cup {"none"}]
    BY DEF Init
  <2>3. trouble \in BOOLEAN /\ sudo \in BOOLEAN
    BY Zenon DEF Init
  <2>4. mounts \in Seq(Units) /\ \A i \in 1 .. Len(mounts) : mounts[i] \in Configured
    BY DEF Init
  <2>5. acount \in 0 .. (NFUNCS - 1)
    BY HarnessAssumption DEF Init
  <2>. QED  BY <2>1, <2>2, <2>3, <2>4, <2>5 DEF Init, HarnessTypes
<1>3. DeviceInv /\ FreshInv
  BY <1>1 DEF Init, DeviceInv, FreshInv
<1>. QED  BY <1>2, <1>3 DEF HarnessInv

-----------------------------------------------------------------------------
LEMMA StartStep ==
  ASSUME HarnessInv, Start
  PROVE  HarnessInv'
<1>1. Configured' = Configured /\ Configured \subseteq Units
  BY DEF Start, disks, Configured
<1>2. HarnessTypes'
  BY <1>1, HarnessAssumption
     DEF HarnessInv, HarnessTypes, Start, disks, FirstStep, Scripts
<1>3. pc' \in {"unpack", "config"} /\ (pc' = "config" => script' = "make")
      /\ script' \in Scripts /\ before' = Configured /\ trouble' = trouble
  BY DEF Start, FirstStep
<1>4. DeviceInv'
  BY <1>1, <1>3 DEF DeviceInv, Scripts
<1>5. ~trouble => Configured = {}
  BY DEF HarnessInv, FreshInv, Start
<1>6. FreshInv'
  BY <1>1, <1>3, <1>5 DEF FreshInv
<1>. QED  BY <1>2, <1>4, <1>6 DEF HarnessInv

LEMMA UnpackStep ==
  ASSUME HarnessInv, Unpack
  PROVE  HarnessInv'
<1>1. /\ Configured' = Configured /\ Configured = before /\ before' = before
      /\ script' = script /\ script \in Scripts /\ pc = "unpack"
      /\ UNCHANGED <<units, mounts>>
  BY DEF Unpack, Configured, HarnessInv, DeviceInv, Continue, result, Return
<1>2. Mine \in Images /\ Mine' = Mine
  BY <1>1 DEF Mine, ImageOf, Images
<1>3. CASE /\ image' = [image EXCEPT ![Mine] = IF InUse THEN "broken" ELSE "pristine"]
           /\ pc' = "config" /\ UNCHANGED result
  <2>1. image' \in [Images -> {"pristine", "used", "broken"}]
    BY <1>2, <1>3 DEF HarnessInv, HarnessTypes
  <2>2. HarnessTypes'
    BY <1>1, <1>3, <2>1 DEF HarnessInv, HarnessTypes, Unpack, result
  <2>3. DeviceInv'
    BY <1>1, <1>3 DEF DeviceInv
  <2>4. InUse => \E u \in before : units[u] = Mine
    BY <1>1, <1>2 DEF InUse, Configured, Images
  <2>5. ~InUse => image'[Mine] = "pristine"
    BY <1>2, <1>3 DEF HarnessInv, HarnessTypes
  <2>6. FreshInv'
    BY <1>1, <1>2, <1>3, <2>4, <2>5 DEF HarnessInv, FreshInv, result
  <2>. QED  BY <2>2, <2>3, <2>6 DEF HarnessInv
<1>4. CASE /\ image' \in {image, [image EXCEPT ![Mine] = "broken"]}
           /\ Return(1)
  <2>1. image' \in [Images -> {"pristine", "used", "broken"}]
    BY <1>2, <1>4 DEF HarnessInv, HarnessTypes
  <2>2. rc' = 1 /\ pc' = "idle" /\ trouble' = TRUE
    BY <1>4, Failed
  <2>3. HarnessTypes'
    BY <1>1, <2>1, <2>2 DEF HarnessInv, HarnessTypes, Unpack
  <2>. QED  BY <1>1, <2>2, <2>3 DEF HarnessInv, DeviceInv, FreshInv
<1>. QED  BY <1>3, <1>4 DEF Unpack, Continue

LEMMA ConfigStep ==
  ASSUME HarnessInv, Config
  PROVE  HarnessInv'
<1>1. /\ Configured = before /\ before' = before /\ script' = script
      /\ script \in Scripts /\ pc = "config" /\ mounts' = mounts /\ image' = image
      /\ UNCHANGED <<sudo, acount>>
  BY DEF Config, HarnessInv, DeviceInv, Continue, result, Return
<1>2. Mine' = Mine /\ Mine \in Images
  BY <1>1 DEF Mine, ImageOf, Images
<1>3. ASSUME NEW u \in Units \ Configured, units' = [units EXCEPT ![u] = Mine]
      PROVE  /\ units' \in [Units -> Images \cup {"none"}]
             /\ Configured' = before \cup {u}
             /\ \A i \in 1 .. Len(mounts) : mounts[i] \in Configured' /\ mounts[i] # u
  <2>1. /\ units' \in [Units -> Images \cup {"none"}]
        /\ Configured' = before \cup {u}
    BY <1>1, <1>2, <1>3, ConfigOK DEF HarnessInv
  <2>. QED  BY <1>1, <2>1 DEF HarnessInv, HarnessTypes
<1>4. CASE \E u \in Units \ Configured :
             /\ units' = [units EXCEPT ![u] = Mine]
             /\ md' = u
             /\ mdtxt' = IF script = "make" THEN u ELSE mdtxt
             /\ pc' = IF script = "make" THEN "newfs" ELSE "mount"
             /\ UNCHANGED result
  <2>1. PICK u \in Units \ Configured :
             /\ units' = [units EXCEPT ![u] = Mine]
             /\ md' = u
             /\ mdtxt' = IF script = "make" THEN u ELSE mdtxt
             /\ pc' = IF script = "make" THEN "newfs" ELSE "mount"
             /\ UNCHANGED result
    BY <1>4
  <2>2. HarnessTypes'
    BY <1>1, <1>3, <2>1 DEF HarnessInv, HarnessTypes, result
  <2>3. OneDevice' /\ ~Mounted(md)'
    BY <1>1, <1>3, <2>1 DEF OneDevice, Mounted
  <2>4. DeviceInv'
    BY <1>1, <1>3, <2>1, <2>3 DEF DeviceInv
  <2>5. script # "make" => image'[Mine'] = "pristine" \/ \E v \in before' : units'[v] = Mine'
    <3>1. \A v \in before : units'[v] = units[v]
      BY <1>1, <2>1 DEF Configured, HarnessInv, HarnessTypes
    <3>2. before' = before
      BY <1>1
    <3>. QED  BY <1>1, <1>2, <3>1, <3>2 DEF HarnessInv, FreshInv
  <2>6. FreshInv'
    BY <1>1, <2>1, <2>5 DEF HarnessInv, FreshInv, result
  <2>. QED  BY <2>2, <2>4, <2>6 DEF HarnessInv
<1>5. CASE \E u \in Units \ Configured :
             units' = [units EXCEPT ![u] = Mine] /\ Return(1) /\ UNCHANGED <<md, mdtxt>>
  <2>1. PICK u \in Units \ Configured :
             units' = [units EXCEPT ![u] = Mine] /\ Return(1) /\ UNCHANGED <<md, mdtxt>>
    BY <1>5
  <2>2. rc' = 1 /\ pc' = "idle" /\ trouble' = TRUE
    BY <2>1, Failed
  <2>3. HarnessTypes'
    BY <1>1, <1>3, <2>1, <2>2 DEF HarnessInv, HarnessTypes
  <2>4. before' = before /\ Configured' = before \cup {u}
    BY <1>1, <1>3, <2>1
  <2>5. DeviceInv'
    BY <1>1, <2>2, <2>4 DEF DeviceInv
  <2>. QED  BY <2>2, <2>3, <2>5 DEF HarnessInv, FreshInv
<1>6. CASE Return(1) /\ UNCHANGED <<md, mdtxt, units>>
  <2>1. rc' = 1 /\ pc' = "idle" /\ trouble' = TRUE /\ Configured' = Configured
    BY <1>6, Failed DEF Configured
  <2>2. HarnessTypes'
    BY <1>1, <1>6, <2>1 DEF HarnessInv, HarnessTypes
  <2>. QED  BY <1>1, <2>1, <2>2 DEF HarnessInv, DeviceInv, FreshInv
<1>. QED  BY <1>4, <1>5, <1>6 DEF Config, Continue

(* The device is given back, or not, by a script that has failed.          *)
LEMMA FailedRelease ==
  ASSUME HarnessInv, pc \in {"newfs", "mount"}, Return(1), Release(md) \/ UNCHANGED units,
         image' \in [Images -> {"pristine", "used", "broken"}],
         UNCHANGED <<sudo, script, acount, md, mounts, mdtxt>>
  PROVE  HarnessInv'
<1>1. OneDevice /\ ~Mounted(md) /\ script \in Scripts /\ md \in Units
  BY DEF HarnessInv, DeviceInv, OneDevice
<1>2. rc' = 1 /\ pc' = "idle" /\ trouble' = TRUE /\ before' = before
  BY Failed
<1>3. /\ units' \in [Units -> Images \cup {"none"}]
      /\ Configured' = Configured \/ Configured' = Configured \ {md}
  <2>1. CASE Release(md)
    BY <1>1, <2>1, ReleaseOK DEF HarnessInv
  <2>2. CASE UNCHANGED units
    BY <2>2 DEF HarnessInv, HarnessTypes, Configured
  <2>. QED  BY <2>1, <2>2
<1>4. \A i \in 1 .. Len(mounts) : mounts[i] \in Configured'
  BY <1>1, <1>3 DEF HarnessInv, HarnessTypes, Mounted
<1>5. HarnessTypes'
  BY <1>2, <1>3, <1>4 DEF HarnessInv, HarnessTypes
<1>6. before \subseteq Configured' /\ Configured' \ before \subseteq {md}
  BY <1>1, <1>3 DEF OneDevice
<1>7. DeviceInv'
  BY <1>1, <1>2, <1>6 DEF DeviceInv
<1>. QED  BY <1>2, <1>5, <1>7 DEF HarnessInv, FreshInv

LEMMA NewfsStep ==
  ASSUME HarnessInv, Newfs
  PROVE  HarnessInv'
<1>1. /\ OneDevice /\ ~Mounted(md) /\ script \in Scripts /\ pc = "newfs"
      /\ image' = [image EXCEPT ![Mine] = "used"]
      /\ UNCHANGED <<sudo, script, acount, md, mounts, mdtxt>>
  BY DEF Newfs, HarnessInv, DeviceInv
<1>2. image' \in [Images -> {"pristine", "used", "broken"}]
  BY <1>1 DEF HarnessInv, HarnessTypes
<1>3. CASE pc' = "mount" /\ UNCHANGED result /\ UNCHANGED units
  <2>1. before' = before /\ Configured' = Configured
    BY <1>3 DEF result, Configured
  <2>2. HarnessTypes'
    BY <1>1, <1>2, <1>3, <2>1 DEF HarnessInv, HarnessTypes, result
  <2>3. OneDevice' /\ ~Mounted(md)'
    BY <1>1, <2>1 DEF OneDevice, Mounted
  <2>4. DeviceInv'
    BY <1>1, <1>3, <2>1, <2>3 DEF HarnessInv, DeviceInv
  <2>5. FreshInv'
    BY <1>1, <1>3, <2>1 DEF HarnessInv, FreshInv, result
  <2>. QED  BY <2>2, <2>4, <2>5 DEF HarnessInv
<1>4. CASE Return(1) /\ Release(md)
  BY <1>1, <1>2, <1>4, FailedRelease
<1>. QED  BY <1>3, <1>4 DEF Newfs, Continue

LEMMA MountStep ==
  ASSUME HarnessInv, Mount
  PROVE  HarnessInv'
<1>1. /\ OneDevice /\ ~Mounted(md) /\ script \in Scripts /\ pc = "mount"
      /\ UNCHANGED <<sudo, script, acount, md, mdtxt, image>>
  BY DEF Mount, HarnessInv, DeviceInv
<1>2. mounts \in Seq(Units) /\ Len(mounts) \in Nat /\ md \in Units
  BY <1>1 DEF HarnessInv, HarnessTypes, OneDevice
<1>3. CASE mounts' = Append(mounts, md) /\ pc' = "run" /\ UNCHANGED result /\ UNCHANGED units
  <2>1. before' = before /\ Configured' = Configured
    BY <1>3 DEF result, Configured
  <2>2. /\ mounts' \in Seq(Units) /\ Len(mounts') = Len(mounts) + 1
        /\ mounts'[Len(mounts) + 1] = md
        /\ \A i \in 1 .. Len(mounts) : mounts'[i] = mounts[i]
    BY <1>2, <1>3
  <2>3. \A i \in 1 .. Len(mounts') : mounts'[i] \in Configured'
    <3>1. \A i \in 1 .. Len(mounts') : i \in 1 .. Len(mounts) \/ i = Len(mounts) + 1
      BY <1>2, <2>2
    <3>. QED  BY <1>1, <2>1, <2>2, <3>1 DEF HarnessInv, HarnessTypes, OneDevice
  <2>4. HarnessTypes'
    BY <1>1, <1>3, <2>1, <2>2, <2>3 DEF HarnessInv, HarnessTypes, result
  <2>5. OneDevice' /\ OnTop'
    <3>1. Len(mounts') - 1 = Len(mounts) /\ Len(mounts') > 0
      BY <1>2, <2>2
    <3>2. OneDevice'
      BY <1>1, <2>1 DEF OneDevice
    <3>3. OnTop'
      BY <1>1, <2>2, <3>1 DEF OnTop, Mounted
    <3>. QED  BY <3>2, <3>3
  <2>6. DeviceInv'
    BY <1>1, <1>3, <2>1, <2>5 DEF HarnessInv, DeviceInv
  <2>7. FreshInv'
    BY <1>1, <1>3, <2>1 DEF HarnessInv, FreshInv, result, Mine
  <2>. QED  BY <2>4, <2>6, <2>7 DEF HarnessInv
<1>4. CASE /\ Return(1)
           /\ IF script = "smoke" /\ sudo THEN UNCHANGED units ELSE Release(md)
           /\ UNCHANGED mounts
  <2>1. image' \in [Images -> {"pristine", "used", "broken"}]
    BY <1>1 DEF HarnessInv, HarnessTypes
  <2>2. Release(md) \/ UNCHANGED units
    BY <1>4
  <2>. QED  BY <1>1, <1>4, <2>1, <2>2, FailedRelease
<1>. QED  BY <1>3, <1>4 DEF Mount, Continue

(* A script that fails while its device is configured.                     *)
LEMMA FailedLater ==
  ASSUME HarnessInv, OneDevice, Return(1), HarnessTypes',
         UNCHANGED <<script, units>>
  PROVE  HarnessInv'
<1>1. rc' = 1 /\ pc' = "idle" /\ trouble' = TRUE /\ before' = before
  BY Failed
<1>2. Configured' = before \cup {md}
  BY DEF Configured, OneDevice
<1>. QED  BY <1>1, <1>2 DEF HarnessInv, DeviceInv, FreshInv

LEMMA RunStep ==
  ASSUME HarnessInv, Run
  PROVE  HarnessInv'
<1>1. /\ OneDevice /\ OnTop /\ script \in Scripts /\ pc = "run"
      /\ image' = [image EXCEPT ![Mine] = "used"]
      /\ UNCHANGED <<sudo, script, acount, units, mounts, mdtxt>>
      /\ md' = md
  BY DEF Run, HarnessInv, DeviceInv
<1>2. image' \in [Images -> {"pristine", "used", "broken"}] /\ Configured' = Configured
  BY <1>1 DEF HarnessInv, HarnessTypes, Configured
<1>3. CASE pc' = "umount" /\ UNCHANGED result
  <2>1. HarnessTypes'
    BY <1>1, <1>2, <1>3 DEF HarnessInv, HarnessTypes, result
  <2>2. OneDevice' /\ OnTop' /\ before' = before
    BY <1>1, <1>2, <1>3 DEF OneDevice, OnTop, result
  <2>3. DeviceInv'
    BY <1>1, <1>2, <1>3, <2>2 DEF HarnessInv, DeviceInv
  <2>4. FreshInv'
    BY <1>3 DEF HarnessInv, FreshInv, result
  <2>. QED  BY <2>1, <2>3, <2>4 DEF HarnessInv
<1>4. CASE Return(1)
  <2>1. rc' = 1 /\ pc' = "idle" /\ trouble' = TRUE /\ before' = before
    BY <1>4, Failed
  <2>2. HarnessTypes'
    BY <1>1, <1>2, <2>1 DEF HarnessInv, HarnessTypes
  <2>. QED  BY <1>1, <1>4, <2>2, FailedLater
<1>. QED  BY <1>3, <1>4 DEF Run, Continue

LEMMA PanicStep ==
  ASSUME HarnessInv, Panic
  PROVE  HarnessInv'
<1>1. Configured' = {} /\ units' \in [Units -> Images \cup {"none"}]
  BY DEF Panic, Configured
<1>2. image' \in [Images -> {"pristine", "used", "broken"}]
  BY DEF Panic, HarnessInv, HarnessTypes
<1>3. /\ script' = "none" /\ pc' = "idle" /\ md' = NoUnit /\ mounts' = <<>>
      /\ before' = {} /\ trouble' = FALSE /\ UNCHANGED <<sudo, acount, mdtxt, rc>>
  BY Zenon DEF Panic
<1>4. mounts' \in Seq(Units) /\ \A i \in 1 .. Len(mounts') : mounts'[i] \in Configured'
  BY <1>3
<1>5. trouble' \in BOOLEAN
  BY <1>3
<1>6. HarnessTypes'
  BY <1>1, <1>2, <1>3, <1>4, <1>5 DEF HarnessInv, HarnessTypes
<1>7. DeviceInv' /\ FreshInv'
  BY <1>1, <1>3 DEF DeviceInv, FreshInv
<1>. QED  BY <1>6, <1>7 DEF HarnessInv

LEMMA UmountStep ==
  ASSUME HarnessInv, Umount
  PROVE  HarnessInv'
<1>1. /\ OneDevice /\ OnTop /\ script \in Scripts /\ pc = "umount"
      /\ UNCHANGED <<sudo, script, acount, md, units, mdtxt, image>>
      /\ Configured' = Configured
  BY DEF Umount, HarnessInv, DeviceInv, Configured
<1>2. CASE /\ mounts' = SubSeq(mounts, 1, Len(mounts) - 1)
           /\ pc' = IF script = "make" THEN "unconfig" ELSE "fsck"
           /\ UNCHANGED result
  <2>1. mounts \in Seq(Units) /\ Len(mounts) \in Nat /\ Len(mounts) > 0
    BY <1>1 DEF HarnessInv, HarnessTypes, OnTop
  <2>2. /\ mounts' \in Seq(Units) /\ Len(mounts') = Len(mounts) - 1
        /\ \A i \in 1 .. (Len(mounts) - 1) : mounts'[i] = mounts[i]
    <3>. DEFINE n == Len(mounts) - 1
    <3>1. n \in 0 .. Len(mounts) /\ n + 1 - 1 = n /\ n - 1 + 1 = n
      BY <2>1
    <3>2. /\ SubSeq(mounts, 1, n) \in Seq(Units)
          /\ Len(SubSeq(mounts, 1, n)) = n
          /\ \A i \in 1 .. n : SubSeq(mounts, 1, n)[i] = mounts[i]
      <4>. HIDE DEF n
      <4>. QED  BY <2>1, <3>1
    <3>. QED  BY <1>2, <3>2
  <2>3. \A i \in 1 .. Len(mounts') : mounts'[i] \in Configured' /\ mounts'[i] # md
    <3>1. \A i \in 1 .. Len(mounts') : i \in 1 .. Len(mounts)
      BY <2>1, <2>2
    <3>. QED  BY <1>1, <2>2, <3>1 DEF HarnessInv, HarnessTypes, OnTop
  <2>4. HarnessTypes'
    BY <1>1, <1>2, <2>2, <2>3 DEF HarnessInv, HarnessTypes, result
  <2>5. OneDevice' /\ ~Mounted(md)' /\ before' = before
    BY <1>1, <1>2, <2>3 DEF OneDevice, Mounted, result
  <2>6. DeviceInv'
    BY <1>1, <1>2, <2>5 DEF HarnessInv, DeviceInv
  <2>7. FreshInv'
    BY <1>2 DEF HarnessInv, FreshInv, result
  <2>. QED  BY <2>4, <2>6, <2>7 DEF HarnessInv
<1>3. CASE Return(1) /\ UNCHANGED mounts
  <2>1. rc' = 1 /\ pc' = "idle" /\ trouble' = TRUE /\ before' = before
    BY <1>3, Failed
  <2>2. HarnessTypes'
    BY <1>1, <1>3, <2>1 DEF HarnessInv, HarnessTypes
  <2>. QED  BY <1>1, <1>3, <2>2, FailedLater
<1>. QED  BY <1>2, <1>3 DEF Umount, Continue

LEMMA FsckStep ==
  ASSUME HarnessInv, Fsck
  PROVE  HarnessInv'
<1>1. /\ OneDevice /\ ~Mounted(md) /\ script \in Scripts /\ pc = "fsck"
      /\ UNCHANGED <<sudo, script, acount, md, disks>>
      /\ Configured' = Configured
  BY DEF Fsck, HarnessInv, DeviceInv, Configured, disks
<1>2. CASE pc' = "unconfig" /\ UNCHANGED result
  <2>1. HarnessTypes'
    BY <1>1, <1>2 DEF HarnessInv, HarnessTypes, result, disks
  <2>2. OneDevice' /\ ~Mounted(md)' /\ before' = before
    BY <1>1, <1>2 DEF OneDevice, Mounted, result, disks
  <2>3. DeviceInv'
    BY <1>1, <1>2, <2>2 DEF HarnessInv, DeviceInv
  <2>4. FreshInv'
    BY <1>2 DEF HarnessInv, FreshInv, result
  <2>. QED  BY <2>1, <2>3, <2>4 DEF HarnessInv
<1>3. CASE Return(1)
  <2>1. rc' = 1 /\ pc' = "idle" /\ trouble' = TRUE /\ before' = before
    BY <1>3, Failed
  <2>2. HarnessTypes'
    BY <1>1, <2>1 DEF HarnessInv, HarnessTypes, disks
  <2>. QED  BY <1>1, <1>3, <2>2, FailedLater DEF disks
<1>. QED  BY <1>2, <1>3 DEF Fsck, Continue

LEMMA ReleaseDeviceStep ==
  ASSUME HarnessInv, ReleaseDevice
  PROVE  HarnessInv'
<1>1. /\ OneDevice /\ ~Mounted(md) /\ script \in Scripts /\ pc = "unconfig"
      /\ md \in Units /\ Release(md)
      /\ UNCHANGED <<sudo, script, md, mounts, mdtxt, image>>
  BY DEF ReleaseDevice, HarnessInv, DeviceInv, OneDevice
<1>2. /\ units' \in [Units -> Images \cup {"none"}]
      /\ Configured' = Configured \/ Configured' = Configured \ {md}
      /\ units'[md] = "none" <=> md \notin Configured'
  BY <1>1, ReleaseOK DEF HarnessInv
<1>3. \A i \in 1 .. Len(mounts) : mounts[i] \in Configured'
  BY <1>1, <1>2 DEF HarnessInv, HarnessTypes, Mounted
<1>4. CASE units'[md] = "none" /\ Succeed
  <2>1. Configured' = before
    BY <1>1, <1>2, <1>4 DEF OneDevice
  <2>2. CASE pc' = "unpack" /\ UNCHANGED result /\ acount + 1 < NFUNCS /\ acount' = acount + 1
    <3>1. acount' \in 0 .. (NFUNCS - 1)
      BY <2>2, HarnessAssumption DEF HarnessInv, HarnessTypes
    <3>2. HarnessTypes'
      BY <1>1, <1>2, <1>3, <2>2, <3>1 DEF HarnessInv, HarnessTypes, result
    <3>3. before' = before
      BY <2>2 DEF result
    <3>4. DeviceInv'
      BY <1>1, <2>1, <2>2, <3>3 DEF DeviceInv
    <3>5. FreshInv'
      BY <2>1, <2>2, <3>3 DEF HarnessInv, FreshInv, result
    <3>. QED  BY <3>2, <3>4, <3>5 DEF HarnessInv
  <2>3. CASE Return(0) /\ UNCHANGED acount
    <3>1. rc' = 0 /\ pc' = "idle" /\ trouble' = trouble /\ before' = before
      BY <2>3, Succeeded DEF HarnessInv, HarnessTypes
    <3>2. HarnessTypes'
      BY <1>1, <1>2, <1>3, <2>3, <3>1 DEF HarnessInv, HarnessTypes
    <3>3. DeviceInv'
      BY <1>1, <2>1, <3>1 DEF DeviceInv
    <3>4. FreshInv'
      BY <2>1, <3>1 DEF HarnessInv, FreshInv
    <3>. QED  BY <3>2, <3>3, <3>4 DEF HarnessInv
  <2>. QED  BY <1>4, <2>2, <2>3 DEF Succeed, Continue
<1>5. CASE Return(1) /\ UNCHANGED acount
  <2>1. rc' = 1 /\ pc' = "idle" /\ trouble' = TRUE /\ before' = before
    BY <1>5, Failed
  <2>2. HarnessTypes'
    BY <1>1, <1>2, <1>3, <1>5, <2>1 DEF HarnessInv, HarnessTypes
  <2>3. before \subseteq Configured' /\ Configured' \ before \subseteq {md}
    BY <1>1, <1>2 DEF OneDevice
  <2>4. DeviceInv'
    BY <1>1, <2>1, <2>3 DEF DeviceInv
  <2>. QED  BY <2>1, <2>2, <2>4 DEF HarnessInv, FreshInv
<1>. QED  BY <1>4, <1>5 DEF ReleaseDevice

LEMMA HarnessStutter ==
  ASSUME HarnessInv, UNCHANGED vars
  PROVE  HarnessInv'
<1>1. UNCHANGED <<sudo, script, pc, acount, md, units, mounts, mdtxt, image, rc,
                  before, trouble>>
  BY DEF vars
<1>2. Configured' = Configured /\ Mounted(md)' = Mounted(md) /\ OneDevice' = OneDevice
      /\ OnTop' = OnTop /\ Mine' = Mine
  BY <1>1 DEF Configured, Mounted, OneDevice, OnTop, Mine
<1>. QED  BY <1>1, <1>2 DEF HarnessInv, HarnessTypes, DeviceInv, FreshInv

(* Devices, mounts and images, at every step of every script.              *)
THEOREM HarnessInvariance == Spec => []HarnessInv
<1>1. HarnessInv /\ [Next]_vars => HarnessInv'
  BY StartStep, UnpackStep, ConfigStep, NewfsStep, MountStep, RunStep, PanicStep,
     UmountStep, FsckStep, ReleaseDeviceStep, HarnessStutter DEF Next
<1>. QED  BY <1>1, HarnessInit, PTL DEF Spec

-----------------------------------------------------------------------------
(* The types; what is mounted is configured.                               *)
THEOREM TypeCorrect == Spec => []TypeOK
<1>1. HarnessInv => TypeOK
  <2>. SUFFICES ASSUME HarnessInv PROVE TypeOK
    OBVIOUS
  <2>1. mounts \in Seq(Configured)
    <3>1. mounts \in [1 .. Len(mounts) -> Configured] /\ Len(mounts) \in Nat
      BY DEF HarnessInv, HarnessTypes
    <3>2. Seq(Configured) = UNION {[1 .. n -> Configured] : n \in Nat}
      OBVIOUS
    <3>. QED  BY <3>1, <3>2
  <2>. QED  BY <2>1 DEF HarnessInv, HarnessTypes, TypeOK
<1>. QED  BY <1>1, HarnessInvariance, PTL

(* A script that succeeds leaves the devices as it has found them.         *)
THEOREM GivesBack == Spec => []SuccessReleases
<1>1. HarnessInv => SuccessReleases
  BY DEF HarnessInv, DeviceInv, SuccessReleases
<1>. QED  BY <1>1, HarnessInvariance, PTL

(* A script leaves one device behind at most, whatever fails, and none of  *)
(* the devices that it found is released.                                  *)
THEOREM LeavesOneAtMost == Spec => []FailureLeaksOne
<1>1. HarnessInv => FailureLeaksOne
  <2>. SUFFICES ASSUME HarnessInv, script # "none"
                PROVE  /\ before \subseteq Configured
                       /\ Cardinality(Configured \ before) <= 1
    BY DEF FailureLeaksOne
  <2>. DEFINE rest == Configured \ before
  <2>1. before \subseteq Configured
    BY DEF HarnessInv, DeviceInv
  <2>2. \A u, v \in rest : u = v
    <3>1. OneDevice \/ Configured = before \/ (\A u, v \in rest : u = v)
      BY DEF HarnessInv, HarnessTypes, DeviceInv
    <3>. QED  BY <3>1 DEF OneDevice
  <2>. HIDE DEF rest
  <2>3. rest = {} \/ \E u : rest = {u}
    BY <2>2
  <2>4. Cardinality(rest) \in {0, 1}
    BY <2>3, FS_EmptySet, FS_Singleton
  <2>5. Cardinality(rest) <= 1
    BY <2>4
  <2>. QED  BY <2>1, <2>5 DEF rest
<1>. QED  BY <1>1, HarnessInvariance, PTL

(* The test program starts on an image that is as it was unpacked and that *)
(* no other device uses, or a script has failed since the last boot and a  *)
(* device that was configured before this one is still using the image.    *)
THEOREM FreshImage == Spec => []StartsFresh
<1>1. HarnessInv => StartsFresh
  <2>. SUFFICES ASSUME HarnessInv, pc = "run", script # "make",
                       ~(trouble /\ \E u \in before : units[u] = Mine)
                PROVE  /\ image[Mine] = "pristine"
                       /\ \A u \in Units \ {md} : units[u] # Mine
    BY DEF StartsFresh
  <2>1. image[Mine] = "pristine" /\ \A u \in before : units[u] # Mine
    BY DEF HarnessInv, FreshInv
  <2>2. OneDevice /\ script \in Scripts
    BY DEF HarnessInv, DeviceInv
  <2>3. Mine # "none"
    BY <2>2 DEF Mine, ImageOf
  <2>. QED  BY <2>1, <2>2, <2>3 DEF OneDevice, Configured
<1>. QED  BY <1>1, HarnessInvariance, PTL

=============================================================================
