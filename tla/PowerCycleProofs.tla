-------------------------- MODULE PowerCycleProofs --------------------------
(***************************************************************************)
(* Proofs about the power cycle, as SystemSettings runs it: for any fleet  *)
(* of machines, any system.ini, and any number of boots and mishaps.       *)
(***************************************************************************)
EXTENDS SystemSettings, SequenceTheorems, TLAPS

(* What a boot, or a shutdown, may still have to do after which step.      *)
FollowsUp(a, b) ==
  /\ a # "switch" /\ b # "check"
  /\ b = "boot" => a = "check"
  /\ a = "configure" => b # "configure"

FollowsDown(a, b) ==
  /\ a # b /\ a # "reboot"
  /\ a = "unstamp" => b \in {"boot", "fsck", "reboot"}
  /\ a = "boot" => b \in {"fsck", "reboot"}
  /\ a = "fsck" => b = "reboot"

UpOrder(s) ==
  /\ s \in Seq(Steps) /\ s # <<>> /\ s[Len(s)] = "switch"
  /\ \A i, j \in 1..Len(s) : i < j => FollowsUp(s[i], s[j])

DownOrder(s) ==
  /\ s \in Seq(Steps) /\ s # <<>> /\ s[Len(s)] = "reboot"
  /\ \A i, j \in 1..Len(s) : i < j => FollowsDown(s[i], s[j])

Left == ToSet(todo)

PlanInv ==
  /\ machine \in Machines
  /\ phase = "find" => todo = UpPlan[program]
  /\ phase = "boot" => UpOrder(todo) /\ Left \subseteq ToSet(UpPlan[program])
  /\ phase = "down" => DownOrder(todo) /\ Left \subseteq ToSet(DownPlan[program])
  /\ phase \notin {"find", "boot", "down"} => todo = <<>>
  /\ program = "paravirt" => ~env

(* What systemd, and the state of the device, leave of the flags.          *)
FlagInv ==
  /\ held => program = "systemimg"
  /\ repair => program = "initlib"
  /\ phase \in {"find", "boot", "up"} => checked = "no" /\ ~held /\ ~repair
  /\ phase \in {"find", "boot", "up"} /\ readonly => ReadOnlyDevice

(* Of a machine on which no call has failed: what is mounted is still to   *)
(* be unmounted.                                                           *)
Unmounted == {"root", "ro", "swap"} \cup (IF program = "systemimg" THEN {} ELSE {"rw"})

MountedInv ==
  /\ "swap" \in mounted => program = "init"
  /\ phase = "down" /\ calm =>
       /\ mounted \cap Unmounted \subseteq Left
       /\ "boot" \notin Left /\ ~held => mounted \subseteq NotUnmounted

FatBoot ==
  /\ program = "systemimg" /\ "check" \notin Left /\ "boot" \in Left => ~fat.dirty
  /\ program = "systemimg" /\ "boot" \notin Left => ~fat.before

FatDown ==
  /\ "boot" \notin Left => "unstamp" \notin Left
  /\ "fsck" \notin Left /\ program \in {"init", "initlib"} => "boot" \notin Left
  /\ program = "systemimg" =>
       /\ ~fat.before
       /\ "unstamp" \notin Left => ~readonly
       /\ "boot" \notin Left /\ ~held => ~fat.dirty
  /\ program = "init" /\ "fsck" \notin Left => ~fat.dirty
  /\ program = "initlib" =>
       /\ (readonly \/ "boot" \notin Left) /\ fat.dirty => fat.before
       /\ "fsck" \notin Left /\ repair => ~fat.dirty

FatInv ==
  calm /\ Vfat =>
    /\ phase \in {"find", "boot"} => FatBoot
    /\ phase = "up" => ~readonly /\ (program = "systemimg" => ~fat.before)
    /\ phase = "down" => FatDown

-----------------------------------------------------------------------------
(* Part 1: the plans.                                                      *)

LEMMA FunctionIsSeq ==
  ASSUME NEW n \in Nat, NEW S, NEW f \in [1..n -> S]
  PROVE  f \in Seq(S) /\ Len(f) = n /\ DOMAIN f = 1..n
BY SeqDef

LEMMA InitBootOrder ==
  /\ UpOrder(InitBoot)
  /\ ToSet(InitBoot) = {"boot", "stamp", "ro", "rw", "root", "move", "env", "configure", "generate", "switch"}
<1> DEFINE P == InitBoot
<1>1. /\ P[1] = "boot" /\ P[2] = "stamp" /\ P[3] = "ro" /\ P[4] = "rw"
      /\ P[5] = "root" /\ P[6] = "move" /\ P[7] = "env" /\ P[8] = "configure"
      /\ P[9] = "generate" /\ P[10] = "switch"
  BY DEF InitBoot
<1>2. P \in [1..10 -> Steps]
  <2>1. P = [i \in 1..10 |-> P[i]]
    BY DEF InitBoot
  <2>2. \A i \in 1..10 : P[i] \in Steps
    BY <1>1 DEF Steps
  <2> HIDE DEF P
  <2> QED
    BY <2>1, <2>2
<1> HIDE DEF P
<1>3. P \in Seq(Steps) /\ Len(P) = 10 /\ DOMAIN P = 1..10
  BY <1>2, FunctionIsSeq
<1>4. \A i, j \in 1..10 : i < j => FollowsUp(P[i], P[j])
  BY <1>1 DEF FollowsUp
<1>5. P # <<>> /\ P[Len(P)] = "switch"
  BY <1>1, <1>3
<1>6. UpOrder(P)
  BY <1>3, <1>4, <1>5 DEF UpOrder
<1>7. ToSet(P) = {"boot", "stamp", "ro", "rw", "root", "move", "env", "configure", "generate", "switch"}
  BY <1>1, <1>3 DEF ToSet
<1> QED
  BY <1>6, <1>7 DEF P

LEMMA XenBootOrder ==
  /\ UpOrder(XenBoot)
  /\ ToSet(XenBoot) = {"boot", "ro", "rw", "root", "move", "env", "configure", "switch"}
<1> DEFINE P == XenBoot
<1>1. /\ P[1] = "boot" /\ P[2] = "ro" /\ P[3] = "rw" /\ P[4] = "root"
      /\ P[5] = "move" /\ P[6] = "env" /\ P[7] = "configure" /\ P[8] = "switch"
  BY DEF XenBoot
<1>2. P \in [1..8 -> Steps]
  <2>1. P = [i \in 1..8 |-> P[i]]
    BY DEF XenBoot
  <2>2. \A i \in 1..8 : P[i] \in Steps
    BY <1>1 DEF Steps
  <2> HIDE DEF P
  <2> QED
    BY <2>1, <2>2
<1> HIDE DEF P
<1>3. P \in Seq(Steps) /\ Len(P) = 8 /\ DOMAIN P = 1..8
  BY <1>2, FunctionIsSeq
<1>4. \A i, j \in 1..8 : i < j => FollowsUp(P[i], P[j])
  BY <1>1 DEF FollowsUp
<1>5. P # <<>> /\ P[Len(P)] = "switch"
  BY <1>1, <1>3
<1>6. UpOrder(P)
  BY <1>3, <1>4, <1>5 DEF UpOrder
<1>7. ToSet(P) = {"boot", "ro", "rw", "root", "move", "env", "configure", "switch"}
  BY <1>1, <1>3 DEF ToSet
<1> QED
  BY <1>6, <1>7 DEF P

LEMMA InitlibBootOrder ==
  /\ UpOrder(InitlibBoot)
  /\ ToSet(InitlibBoot) = {"boot", "stamp", "ro", "rw", "root", "move", "configure", "env", "switch"}
<1> DEFINE P == InitlibBoot
<1>1. /\ P[1] = "boot" /\ P[2] = "stamp" /\ P[3] = "ro" /\ P[4] = "rw"
      /\ P[5] = "root" /\ P[6] = "move" /\ P[7] = "configure" /\ P[8] = "env"
      /\ P[9] = "switch"
  BY DEF InitlibBoot
<1>2. P \in [1..9 -> Steps]
  <2>1. P = [i \in 1..9 |-> P[i]]
    BY DEF InitlibBoot
  <2>2. \A i \in 1..9 : P[i] \in Steps
    BY <1>1 DEF Steps
  <2> HIDE DEF P
  <2> QED
    BY <2>1, <2>2
<1> HIDE DEF P
<1>3. P \in Seq(Steps) /\ Len(P) = 9 /\ DOMAIN P = 1..9
  BY <1>2, FunctionIsSeq
<1>4. \A i, j \in 1..9 : i < j => FollowsUp(P[i], P[j])
  BY <1>1 DEF FollowsUp
<1>5. P # <<>> /\ P[Len(P)] = "switch"
  BY <1>1, <1>3
<1>6. UpOrder(P)
  BY <1>3, <1>4, <1>5 DEF UpOrder
<1>7. ToSet(P) = {"boot", "stamp", "ro", "rw", "root", "move", "configure", "env", "switch"}
  BY <1>1, <1>3 DEF ToSet
<1> QED
  BY <1>6, <1>7 DEF P

LEMMA SystemimgBootOrder ==
  /\ UpOrder(SystemimgBoot)
  /\ ToSet(SystemimgBoot) = {"check", "boot", "stamp", "ro", "move", "env", "rw", "root", "switch"}
<1> DEFINE P == SystemimgBoot
<1>1. /\ P[1] = "check" /\ P[2] = "boot" /\ P[3] = "stamp" /\ P[4] = "ro"
      /\ P[5] = "move" /\ P[6] = "env" /\ P[7] = "rw" /\ P[8] = "root"
      /\ P[9] = "move" /\ P[10] = "switch"
  BY DEF SystemimgBoot
<1>2. P \in [1..10 -> Steps]
  <2>1. P = [i \in 1..10 |-> P[i]]
    BY DEF SystemimgBoot
  <2>2. \A i \in 1..10 : P[i] \in Steps
    BY <1>1 DEF Steps
  <2> HIDE DEF P
  <2> QED
    BY <2>1, <2>2
<1> HIDE DEF P
<1>3. P \in Seq(Steps) /\ Len(P) = 10 /\ DOMAIN P = 1..10
  BY <1>2, FunctionIsSeq
<1>4. \A i, j \in 1..10 : i < j => FollowsUp(P[i], P[j])
  BY <1>1 DEF FollowsUp
<1>5. P # <<>> /\ P[Len(P)] = "switch"
  BY <1>1, <1>3
<1>6. UpOrder(P)
  BY <1>3, <1>4, <1>5 DEF UpOrder
<1>7. ToSet(P) = {"check", "boot", "stamp", "ro", "move", "env", "rw", "root", "switch"}
  BY <1>1, <1>3 DEF ToSet
<1> QED
  BY <1>6, <1>7 DEF P

LEMMA ParavirtBootOrder ==
  /\ UpOrder(ParavirtBoot)
  /\ ToSet(ParavirtBoot) = {"ro", "move", "rw", "root", "switch"}
<1> DEFINE P == ParavirtBoot
<1>1. /\ P[1] = "ro" /\ P[2] = "move" /\ P[3] = "rw" /\ P[4] = "root"
      /\ P[5] = "move" /\ P[6] = "switch"
  BY DEF ParavirtBoot
<1>2. P \in [1..6 -> Steps]
  <2>1. P = [i \in 1..6 |-> P[i]]
    BY DEF ParavirtBoot
  <2>2. \A i \in 1..6 : P[i] \in Steps
    BY <1>1 DEF Steps
  <2> HIDE DEF P
  <2> QED
    BY <2>1, <2>2
<1> HIDE DEF P
<1>3. P \in Seq(Steps) /\ Len(P) = 6 /\ DOMAIN P = 1..6
  BY <1>2, FunctionIsSeq
<1>4. \A i, j \in 1..6 : i < j => FollowsUp(P[i], P[j])
  BY <1>1 DEF FollowsUp
<1>5. P # <<>> /\ P[Len(P)] = "switch"
  BY <1>1, <1>3
<1>6. UpOrder(P)
  BY <1>3, <1>4, <1>5 DEF UpOrder
<1>7. ToSet(P) = {"ro", "move", "rw", "root", "switch"}
  BY <1>1, <1>3 DEF ToSet
<1> QED
  BY <1>6, <1>7 DEF P

LEMMA InitShutdownOrder ==
  /\ DownOrder(InitShutdown)
  /\ ToSet(InitShutdown) = {"take", "root", "ro", "rw", "swap", "unstamp", "boot", "fsck", "reboot"}
<1> DEFINE P == InitShutdown
<1>1. /\ P[1] = "take" /\ P[2] = "root" /\ P[3] = "ro" /\ P[4] = "rw"
      /\ P[5] = "swap" /\ P[6] = "unstamp" /\ P[7] = "boot" /\ P[8] = "fsck"
      /\ P[9] = "reboot"
  BY DEF InitShutdown
<1>2. P \in [1..9 -> Steps]
  <2>1. P = [i \in 1..9 |-> P[i]]
    BY DEF InitShutdown
  <2>2. \A i \in 1..9 : P[i] \in Steps
    BY <1>1 DEF Steps
  <2> HIDE DEF P
  <2> QED
    BY <2>1, <2>2
<1> HIDE DEF P
<1>3. P \in Seq(Steps) /\ Len(P) = 9 /\ DOMAIN P = 1..9
  BY <1>2, FunctionIsSeq
<1>4. \A i, j \in 1..9 : i < j => FollowsDown(P[i], P[j])
  BY <1>1 DEF FollowsDown
<1>5. P # <<>> /\ P[Len(P)] = "reboot"
  <2>1. Len(P) # 0 /\ Len(<<>>) = 0
    BY <1>3
  <2>2. P[Len(P)] = "reboot"
    BY <1>1, <1>3
  <2> QED
    BY <2>1, <2>2
<1>6. DownOrder(P)
  BY <1>3, <1>4, <1>5 DEF DownOrder
<1>7. ToSet(P) = {"take", "root", "ro", "rw", "swap", "unstamp", "boot", "fsck", "reboot"}
  BY <1>1, <1>3 DEF ToSet
<1> QED
  BY <1>6, <1>7 DEF P

LEMMA XenShutdownOrder ==
  /\ DownOrder(XenShutdown)
  /\ ToSet(XenShutdown) = {"take", "root", "ro", "rw", "swap", "unstamp", "boot", "reboot"}
<1> DEFINE P == XenShutdown
<1>1. /\ P[1] = "take" /\ P[2] = "root" /\ P[3] = "ro" /\ P[4] = "rw"
      /\ P[5] = "swap" /\ P[6] = "unstamp" /\ P[7] = "boot" /\ P[8] = "reboot"
  BY DEF XenShutdown
<1>2. P \in [1..8 -> Steps]
  <2>1. P = [i \in 1..8 |-> P[i]]
    BY DEF XenShutdown
  <2>2. \A i \in 1..8 : P[i] \in Steps
    BY <1>1 DEF Steps
  <2> HIDE DEF P
  <2> QED
    BY <2>1, <2>2
<1> HIDE DEF P
<1>3. P \in Seq(Steps) /\ Len(P) = 8 /\ DOMAIN P = 1..8
  BY <1>2, FunctionIsSeq
<1>4. \A i, j \in 1..8 : i < j => FollowsDown(P[i], P[j])
  BY <1>1 DEF FollowsDown
<1>5. P # <<>> /\ P[Len(P)] = "reboot"
  <2>1. Len(P) # 0 /\ Len(<<>>) = 0
    BY <1>3
  <2>2. P[Len(P)] = "reboot"
    BY <1>1, <1>3
  <2> QED
    BY <2>1, <2>2
<1>6. DownOrder(P)
  BY <1>3, <1>4, <1>5 DEF DownOrder
<1>7. ToSet(P) = {"take", "root", "ro", "rw", "swap", "unstamp", "boot", "reboot"}
  BY <1>1, <1>3 DEF ToSet
<1> QED
  BY <1>6, <1>7 DEF P

LEMMA InitlibShutdownOrder ==
  /\ DownOrder(InitlibShutdown)
  /\ ToSet(InitlibShutdown) = {"take", "root", "ro", "rw", "unstamp", "boot", "fsck", "reboot"}
<1> DEFINE P == InitlibShutdown
<1>1. /\ P[1] = "take" /\ P[2] = "root" /\ P[3] = "ro" /\ P[4] = "rw"
      /\ P[5] = "unstamp" /\ P[6] = "boot" /\ P[7] = "fsck" /\ P[8] = "reboot"
  BY DEF InitlibShutdown
<1>2. P \in [1..8 -> Steps]
  <2>1. P = [i \in 1..8 |-> P[i]]
    BY DEF InitlibShutdown
  <2>2. \A i \in 1..8 : P[i] \in Steps
    BY <1>1 DEF Steps
  <2> HIDE DEF P
  <2> QED
    BY <2>1, <2>2
<1> HIDE DEF P
<1>3. P \in Seq(Steps) /\ Len(P) = 8 /\ DOMAIN P = 1..8
  BY <1>2, FunctionIsSeq
<1>4. \A i, j \in 1..8 : i < j => FollowsDown(P[i], P[j])
  BY <1>1 DEF FollowsDown
<1>5. P # <<>> /\ P[Len(P)] = "reboot"
  <2>1. Len(P) # 0 /\ Len(<<>>) = 0
    BY <1>3
  <2>2. P[Len(P)] = "reboot"
    BY <1>1, <1>3
  <2> QED
    BY <2>1, <2>2
<1>6. DownOrder(P)
  BY <1>3, <1>4, <1>5 DEF DownOrder
<1>7. ToSet(P) = {"take", "root", "ro", "rw", "unstamp", "boot", "fsck", "reboot"}
  BY <1>1, <1>3 DEF ToSet
<1> QED
  BY <1>6, <1>7 DEF P

LEMMA SystemimgShutdownOrder ==
  /\ DownOrder(SystemimgShutdown)
  /\ ToSet(SystemimgShutdown) = {"take", "root", "ro", "unstamp", "boot", "reboot"}
<1> DEFINE P == SystemimgShutdown
<1>1. /\ P[1] = "take" /\ P[2] = "root" /\ P[3] = "ro" /\ P[4] = "unstamp"
      /\ P[5] = "boot" /\ P[6] = "reboot"
  BY DEF SystemimgShutdown
<1>2. P \in [1..6 -> Steps]
  <2>1. P = [i \in 1..6 |-> P[i]]
    BY DEF SystemimgShutdown
  <2>2. \A i \in 1..6 : P[i] \in Steps
    BY <1>1 DEF Steps
  <2> HIDE DEF P
  <2> QED
    BY <2>1, <2>2
<1> HIDE DEF P
<1>3. P \in Seq(Steps) /\ Len(P) = 6 /\ DOMAIN P = 1..6
  BY <1>2, FunctionIsSeq
<1>4. \A i, j \in 1..6 : i < j => FollowsDown(P[i], P[j])
  BY <1>1 DEF FollowsDown
<1>5. P # <<>> /\ P[Len(P)] = "reboot"
  <2>1. Len(P) # 0 /\ Len(<<>>) = 0
    BY <1>3
  <2>2. P[Len(P)] = "reboot"
    BY <1>1, <1>3
  <2> QED
    BY <2>1, <2>2
<1>6. DownOrder(P)
  BY <1>3, <1>4, <1>5 DEF DownOrder
<1>7. ToSet(P) = {"take", "root", "ro", "unstamp", "boot", "reboot"}
  BY <1>1, <1>3 DEF ToSet
<1> QED
  BY <1>6, <1>7 DEF P

LEMMA UpPlanOrder ==
  ASSUME machine \in MachineType
  PROVE  /\ UpOrder(UpPlan[program])
         /\ "configure" \in ToSet(UpPlan[program]) <=> program \in {"init", "xen", "initlib"}
         /\ program # "paravirt" => "boot" \in ToSet(UpPlan[program])
         /\ program = "paravirt" => "env" \notin ToSet(UpPlan[program])
         /\ program = "systemimg" => "check" \in ToSet(UpPlan[program])
<1>1. program \in Programs
  BY DEF MachineType, program
<1>2. /\ UpPlan["init"] = InitBoot /\ UpPlan["xen"] = XenBoot /\ UpPlan["initlib"] = InitlibBoot
      /\ UpPlan["systemimg"] = SystemimgBoot /\ UpPlan["paravirt"] = ParavirtBoot
  BY DEF UpPlan
<1> HIDE DEF program
<1> QED
  BY <1>1, <1>2, InitBootOrder, XenBootOrder, InitlibBootOrder, SystemimgBootOrder, ParavirtBootOrder
  DEF Programs

LEMMA DownPlanOrder ==
  ASSUME machine \in MachineType, program # "paravirt"
  PROVE  /\ DownOrder(DownPlan[program])
         /\ {"root", "ro", "unstamp", "boot"} \subseteq ToSet(DownPlan[program])
         /\ program # "systemimg" => "rw" \in ToSet(DownPlan[program])
         /\ program = "init" => {"swap", "fsck"} \subseteq ToSet(DownPlan[program])
         /\ "fsck" \in ToSet(DownPlan[program]) <=> program \in {"init", "initlib"}
<1>1. program \in Programs \ {"paravirt"}
  BY DEF MachineType, program
<1>2. /\ DownPlan["init"] = InitShutdown /\ DownPlan["xen"] = XenShutdown
      /\ DownPlan["initlib"] = InitlibShutdown /\ DownPlan["systemimg"] = SystemimgShutdown
  BY DEF DownPlan
<1> QED
  BY <1>1, <1>2, InitShutdownOrder, XenShutdownOrder, InitlibShutdownOrder, SystemimgShutdownOrder
  DEF Programs

(* A step is done: what is left keeps its order.                           *)
LEMMA TailUp ==
  ASSUME NEW s, UpOrder(s), Head(s) # "switch"
  PROVE  /\ UpOrder(Tail(s))
         /\ ToSet(s) = ToSet(Tail(s)) \cup {Head(s)}
         /\ \A x \in ToSet(Tail(s)) : FollowsUp(Head(s), x)
<1> DEFINE t == Tail(s)
<1>1. s \in Seq(Steps) /\ s # <<>> /\ Len(s) \in Nat /\ Len(s) > 1
  BY DEF UpOrder
<1>2. t \in Seq(Steps) /\ Len(t) = Len(s) - 1 /\ \A i \in 1..Len(t) : t[i] = s[i + 1]
  BY <1>1
<1>3. DOMAIN s = 1..Len(s) /\ DOMAIN t = 1..Len(t) /\ Head(s) = s[1]
  BY <1>1, <1>2
<1> HIDE DEF t
<1>4. t # <<>> /\ t[Len(t)] = "switch"
  BY <1>1, <1>2 DEF UpOrder
<1>5. \A i, j \in 1..Len(t) : i < j => FollowsUp(t[i], t[j])
  <2> SUFFICES ASSUME NEW i \in 1..Len(t), NEW j \in 1..Len(t), i < j
               PROVE  FollowsUp(t[i], t[j])
    OBVIOUS
  <2>1. i + 1 \in 1..Len(s) /\ j + 1 \in 1..Len(s) /\ i + 1 < j + 1
    BY <1>1, <1>2
  <2> QED
    BY <1>2, <2>1 DEF UpOrder
<1>6. \A x \in ToSet(t) : FollowsUp(Head(s), x) /\ x \in ToSet(s)
  <2> SUFFICES ASSUME NEW i \in 1..Len(t)
               PROVE  FollowsUp(s[1], t[i]) /\ t[i] \in ToSet(s)
    BY <1>3 DEF ToSet
  <2>1. i + 1 \in 1..Len(s) /\ 1 \in 1..Len(s) /\ 1 < i + 1
    BY <1>1, <1>2
  <2> QED
    BY <1>2, <1>3, <2>1 DEF UpOrder, ToSet
<1>7. \A x \in ToSet(s) : x = Head(s) \/ x \in ToSet(t)
  <2> SUFFICES ASSUME NEW i \in 1..Len(s), i # 1
               PROVE  s[i] \in ToSet(t)
    BY <1>3 DEF ToSet
  <2>1. i - 1 \in 1..Len(t) /\ t[i - 1] = s[i]
    BY <1>1, <1>2
  <2> QED
    BY <1>3, <2>1 DEF ToSet
<1>8. Head(s) \in ToSet(s)
  BY <1>1, <1>3 DEF ToSet
<1>9. UpOrder(t)
  BY <1>2, <1>4, <1>5 DEF UpOrder
<1> QED
  BY <1>6, <1>7, <1>8, <1>9 DEF t

LEMMA TailDown ==
  ASSUME NEW s, DownOrder(s), Head(s) # "reboot"
  PROVE  /\ DownOrder(Tail(s))
         /\ ToSet(s) = ToSet(Tail(s)) \cup {Head(s)}
         /\ \A x \in ToSet(Tail(s)) : FollowsDown(Head(s), x)
<1> DEFINE t == Tail(s)
<1>1. s \in Seq(Steps) /\ s # <<>> /\ Len(s) \in Nat /\ Len(s) > 1
  BY DEF DownOrder
<1>2. t \in Seq(Steps) /\ Len(t) = Len(s) - 1 /\ \A i \in 1..Len(t) : t[i] = s[i + 1]
  BY <1>1
<1>3. DOMAIN s = 1..Len(s) /\ DOMAIN t = 1..Len(t) /\ Head(s) = s[1]
  BY <1>1, <1>2
<1> HIDE DEF t
<1>4. t # <<>> /\ t[Len(t)] = "reboot"
  BY <1>1, <1>2 DEF DownOrder
<1>5. \A i, j \in 1..Len(t) : i < j => FollowsDown(t[i], t[j])
  <2> SUFFICES ASSUME NEW i \in 1..Len(t), NEW j \in 1..Len(t), i < j
               PROVE  FollowsDown(t[i], t[j])
    OBVIOUS
  <2>1. i + 1 \in 1..Len(s) /\ j + 1 \in 1..Len(s) /\ i + 1 < j + 1
    BY <1>1, <1>2
  <2> QED
    BY <1>2, <2>1 DEF DownOrder
<1>6. \A x \in ToSet(t) : FollowsDown(Head(s), x) /\ x \in ToSet(s)
  <2> SUFFICES ASSUME NEW i \in 1..Len(t)
               PROVE  FollowsDown(s[1], t[i]) /\ t[i] \in ToSet(s)
    BY <1>3 DEF ToSet
  <2>1. i + 1 \in 1..Len(s) /\ 1 \in 1..Len(s) /\ 1 < i + 1
    BY <1>1, <1>2
  <2> QED
    BY <1>2, <1>3, <2>1 DEF DownOrder, ToSet
<1>7. \A x \in ToSet(s) : x = Head(s) \/ x \in ToSet(t)
  <2> SUFFICES ASSUME NEW i \in 1..Len(s), i # 1
               PROVE  s[i] \in ToSet(t)
    BY <1>3 DEF ToSet
  <2>1. i - 1 \in 1..Len(t) /\ t[i - 1] = s[i]
    BY <1>1, <1>2
  <2> QED
    BY <1>3, <2>1 DEF ToSet
<1>8. Head(s) \in ToSet(s)
  BY <1>1, <1>3 DEF ToSet
<1>9. DownOrder(t)
  BY <1>2, <1>4, <1>5 DEF DownOrder
<1> QED
  BY <1>6, <1>7, <1>8, <1>9 DEF t
-----------------------------------------------------------------------------
(* Part 2: what the hooks do to the power cycle.                           *)

ConfigureStep ==
  /\ phase = "boot" /\ (Ahead("configure") \/ Ahead("generate"))
  /\ OtherPower
  /\ \/ (Works \/ Fails) /\ UNCHANGED <<todo, phase, ended>>
     \/ (Works \/ Fails) /\ Advance /\ UNCHANGED ended
     \/ Fails /\ program = "initlib" /\ todo' = <<"switch">> /\ UNCHANGED <<phase, ended>>
     \/ Fails /\ GoOff("cut")

PowerNext ==
  \/ \E hinted \in BOOLEAN : PowerOn(hinted)
  \/ BootStep \/ DownStep \/ ConfigureStep \/ SwitchRoot \/ ShutDown \/ PowerFailure

LEMMA WriteConfigures ==
  ASSUME NEW h, NEW new, NEW broken, NEW throws, Write(h, new, broken, throws)
  PROVE  ConfigureStep
BY DEF Write, Turn, Done, Thrown, ConfigureStep, Advance

LEMMA PassConfigures ==
  ASSUME NEW h, NEW throws, Pass(h, throws)
  PROVE  ConfigureStep
BY DEF Pass, Turn, Done, Thrown, ConfigureStep, Advance

LEMMA HookConfigures == Hook \/ InitlibSetupPassword \/ GenerateHostname => ConfigureStep
<1>1. CASE GenerateHostname
  BY <1>1 DEF GenerateHostname, ConfigureStep
<1>2. CASE InitlibSetupPassword
  BY <1>2, WriteConfigures DEF InitlibSetupPassword
<1>3. CASE InitSetupHostname \/ XenSetupHostname \/ InitlibSetupHostname
  BY <1>3, WriteConfigures, PassConfigures
  DEF InitSetupHostname, XenSetupHostname, InitlibSetupHostname, WriteHostname
<1>4. CASE InitSetupNetwork \/ InitlibSetupNetwork \/ InitSetupWifi \/ InitlibSetupWifi
  BY <1>4, WriteConfigures DEF InitSetupNetwork, InitlibSetupNetwork, InitSetupWifi, InitlibSetupWifi
<1>5. CASE InitSetupPassword \/ InitSetupTimezone \/ InitlibSetupTimezone
  BY <1>5, WriteConfigures DEF InitSetupPassword, InitSetupTimezone, InitlibSetupTimezone, WriteTimezone
<1>6. CASE InitSetupLocale \/ InitlibSetupLocale \/ InitSetupKeymap \/ InitlibSetupKeymap
  BY <1>6, WriteConfigures
  DEF InitSetupLocale, InitlibSetupLocale, InitSetupKeymap, InitlibSetupKeymap, WriteText
<1>7. CASE InitSetupSshKey \/ InitlibSetupSshKey
  BY <1>7, WriteConfigures, PassConfigures DEF InitSetupSshKey, InitlibSetupSshKey
<1>8. CASE InitSetupAutologin
  BY <1>8, WriteConfigures, PassConfigures DEF InitSetupAutologin
<1>9. CASE InitlibSetupOpenvpn \/ InitlibSetupZabbix \/ InitlibUpkeep
  BY <1>9, WriteConfigures, PassConfigures DEF InitlibSetupOpenvpn, InitlibSetupZabbix, InitlibUpkeep
<1> QED
  BY <1>1, <1>2, <1>3, <1>4, <1>5, <1>6, <1>7, <1>8, <1>9 DEF Hook

LEMMA NextPower == [Next]_vars => [PowerNext]_power
<1> SUFFICES ASSUME [Next]_vars PROVE PowerNext \/ UNCHANGED power
  OBVIOUS
<1>1. CASE UNCHANGED vars
  BY <1>1 DEF vars
<1>2. CASE \E hinted \in BOOLEAN : Start(hinted)
  BY <1>2 DEF Start, PowerNext
<1>3. CASE Hook \/ InitlibSetupPassword \/ GenerateHostname
  BY <1>3, HookConfigures DEF PowerNext
<1>4. CASE SessionBegins \/ Stop \/ Fall
  BY <1>4 DEF SessionBegins, Stop, Fall, PowerNext
<1>5. CASE Edit
  BY <1>5 DEF Edit
<1> QED
  BY <1>1, <1>2, <1>3, <1>4, <1>5 DEF Next, PowerNext
-----------------------------------------------------------------------------
(* Part 3: where a boot, or a shutdown, is.                                *)

LEMMA MachineKnown == ASSUME machine \in Machines PROVE machine \in MachineType
BY PowerAssumption DEF PowerAssumption

LEMMA InitPlan == Init => PlanInv
BY DEF Init, PowerInit, PlanInv

LEMMA SameMachine == [PowerNext]_power => UNCHANGED machine
BY DEF PowerNext, PowerOn, BootStep, LookUp, CheckFat, MountBoot, WriteStamp, MoveMounts,
  CopyEnvironment, MoveEnvironment, SetUpEnvironment, MountLayer, DownStep, TakeMounts, RemoveStamp,
  UnmountBoot, RepairFat, Reboot, Unmount, ConfigureStep, OtherPower, SwitchRoot, ShutDown,
  PowerFailure, power

(* How a step of each phase moves along its plan.                          *)
LookMoves ==
  \/ phase' = "boot" /\ UNCHANGED todo
  \/ phase' = "find" /\ UNCHANGED todo
  \/ phase' \in {"off", "panic"} /\ todo' = <<>>

BootMoves ==
  \/ phase' = "boot" /\ todo' = Tail(todo) /\ Head(todo) # "switch"
  \/ phase' = "off" /\ todo' = <<>>

DownMoves ==
  \/ phase' = "down" /\ todo' = Tail(todo) /\ Head(todo) # "reboot"
  \/ phase' = "down" /\ todo' = <<"reboot">>
  \/ phase' \in {"off", "panic"} /\ todo' = <<>>

LEMMA LookUpMoves == LookUp => phase = "find" /\ LookMoves /\ UNCHANGED env
BY DEF LookUp, LookMoves, SeenByTag, SeenByName, Found, LookAgain, GiveUp, FallBack, AskEfi, EfiTimeOut,
  Undetermined, Halt, GoOff

LEMMA BootStepMoves ==
  ASSUME BootStep, ~LookUp
  PROVE  /\ phase = "boot" /\ BootMoves
         /\ UNCHANGED env \/ Head(todo) = "env"
BY DEF BootStep, BootMoves, CheckFat, MountBoot, WriteStamp, MoveMounts, CopyEnvironment, MoveEnvironment,
  SetUpEnvironment, MountLayer, Advance, Ahead, Halt, GoOff

LEMMA DownStepMoves == DownStep => phase = "down" /\ DownMoves /\ UNCHANGED env
BY DEF DownStep, DownMoves, TakeMounts, InitTakeMounts, InitlibTakeMounts, SystemimgTakeMounts, RemoveStamp,
  InitRemoveStamp, InitlibRemoveStamp, SystemimgRemoveStamp, Reopen, UnmountBoot, RepairFat, Reboot,
  Unmount, Advance, Ahead, GoOff

LEMMA HeadLeft == ASSUME NEW s \in Seq(Steps), s # <<>> PROVE Head(s) \in ToSet(s)
BY DEF ToSet

LEMMA LastStep ==
  /\ <<"switch">> \in Seq(Steps) /\ UpOrder(<<"switch">>) /\ ToSet(<<"switch">>) = {"switch"}
  /\ <<"reboot">> \in Seq(Steps) /\ DownOrder(<<"reboot">>) /\ ToSet(<<"reboot">>) = {"reboot"}
BY DEF UpOrder, DownOrder, ToSet, Steps

LEMMA PlanStep ==
  ASSUME PlanInv, [PowerNext]_power
  PROVE  PlanInv'
<1> USE DEF PlanInv
<1>0. machine \in MachineType /\ UNCHANGED <<machine, program>>
  BY SameMachine, MachineKnown DEF program
<1>1. CASE UNCHANGED power
  BY <1>1 DEF power, program, Left
<1>2. CASE \E hinted \in BOOLEAN : PowerOn(hinted)
  BY <1>2, <1>0 DEF PowerOn
<1>3. CASE LookUp
  BY <1>3, <1>0, LookUpMoves, UpPlanOrder DEF LookMoves, Left
<1>4. CASE BootStep /\ ~LookUp
  <2>1. phase = "boot" /\ UpOrder(todo) /\ Left \subseteq ToSet(UpPlan[program])
    BY <1>4, BootStepMoves
  <2>2. CASE Head(todo) # "switch" /\ todo' = Tail(todo) /\ phase' = "boot"
    <3>1. UpOrder(todo') /\ Left' \subseteq Left
      BY <2>1, <2>2, TailUp DEF Left
    <3>2. program = "paravirt" => ~env'
      <4>1. Head(todo) \in Left
        BY <2>1, HeadLeft DEF Left, UpOrder
      <4> QED
        BY <1>0, <1>4, <2>1, <4>1, UpPlanOrder, BootStepMoves
    <3> QED
      BY <1>0, <2>1, <2>2, <3>1, <3>2
  <2>3. CASE phase' = "off" /\ todo' = <<>>
    <3>1. Head(todo) \in Left
      BY <2>1, HeadLeft DEF Left, UpOrder
    <3> QED
      BY <1>0, <1>4, <2>1, <2>3, <3>1, UpPlanOrder, BootStepMoves
  <2> QED
    BY <1>4, <2>2, <2>3, BootStepMoves DEF BootMoves
<1>5. CASE DownStep
  <2>1. phase = "down" /\ DownOrder(todo) /\ UNCHANGED env
    BY <1>5, DownStepMoves
  <2>2. CASE Head(todo) # "reboot" /\ todo' = Tail(todo) /\ phase' = "down"
    <3>1. DownOrder(todo') /\ Left' \subseteq Left
      BY <2>1, <2>2, TailDown DEF Left
    <3> QED
      BY <1>0, <2>1, <2>2, <3>1
  <2>3. CASE todo' = <<"reboot">> /\ phase' = "down"
    <3>1. "reboot" \in Left
      BY <2>1 DEF DownOrder, Left, ToSet
    <3> QED
      BY <1>0, <2>1, <2>3, <3>1, LastStep DEF Left
  <2>4. CASE phase' \in {"off", "panic"} /\ todo' = <<>>
    BY <1>0, <2>1, <2>4
  <2> QED
    BY <1>5, <2>2, <2>3, <2>4, DownStepMoves DEF DownMoves
<1>6. CASE ConfigureStep
  <2>1. phase = "boot" /\ UpOrder(todo) /\ Left \subseteq ToSet(UpPlan[program]) /\ UNCHANGED env
    BY <1>6 DEF ConfigureStep, OtherPower
  <2>2. Head(todo) # "switch"
    BY <1>6 DEF ConfigureStep, Ahead
  <2>3. CASE UNCHANGED <<todo, phase>>
    BY <1>0, <2>1, <2>3 DEF Left
  <2>4. CASE Advance
    <3>1. UpOrder(todo') /\ Left' \subseteq Left
      BY <2>1, <2>2, <2>4, TailUp DEF Left, Advance
    <3> QED
      BY <1>0, <2>1, <2>4, <3>1 DEF Advance
  <2>5. CASE todo' = <<"switch">> /\ UNCHANGED phase
    <3>1. "switch" \in Left
      BY <2>1 DEF UpOrder, Left, ToSet
    <3> QED
      BY <1>0, <2>1, <2>5, <3>1, LastStep DEF Left
  <2>6. CASE GoOff("cut")
    BY <1>0, <2>1, <2>6 DEF GoOff
  <2> QED
    BY <1>6, <2>3, <2>4, <2>5, <2>6 DEF ConfigureStep
<1>7. CASE SwitchRoot
  BY <1>7, <1>0 DEF SwitchRoot, Halt, GoOff
<1>8. CASE ShutDown
  BY <1>8, <1>0, DownPlanOrder DEF ShutDown, GoOff, Left
<1>9. CASE PowerFailure
  BY <1>9, <1>0 DEF PowerFailure, GoOff
<1> QED
  BY <1>1, <1>2, <1>3, <1>4, <1>5, <1>6, <1>7, <1>8, <1>9 DEF PowerNext
-----------------------------------------------------------------------------
(* Part 4: types.                                                          *)

PhaseOK ==
  /\ phase \in {"off", "find", "boot", "up", "down", "panic"}
  /\ mounted \in SUBSET {"boot", "ro", "rw", "root", "run", "swap"}
  /\ checked \in {"no", "offline", "mounted"}
  /\ ended \in {"none", "halt", "without", "shutdown", "panic", "cut"}
FlagsOK ==
  /\ readonly \in BOOLEAN /\ stamp \in BOOLEAN /\ env \in BOOLEAN
  /\ held \in BOOLEAN /\ repair \in BOOLEAN /\ calm \in BOOLEAN
FatOK == fat \in [dirty : BOOLEAN, before : BOOLEAN]
SearchOK == search \in [by : {"none", "nothing", "uuid", "efi"}, tries : 0..Retries]
CountsOK == boots \in 0..MaxBoots /\ mishaps \in 0..MaxMishaps

LEMMA PowerTypeParts ==
  ASSUME PlanInv, PhaseOK, FlagsOK, FatOK, SearchOK, CountsOK
  PROVE  PowerTypeOK
<1>1. machine \in MachineType
  BY MachineKnown DEF PlanInv
<1>2. todo = <<>> \/ UpOrder(todo) \/ DownOrder(todo)
  BY <1>1, UpPlanOrder DEF PlanInv, PhaseOK
<1>3. todo # <<>> => phase \in {"find", "boot", "down"}
  BY DEF PlanInv
<1>4. phase \in {"find", "boot", "down"} => todo # <<>>
  BY <1>1, UpPlanOrder DEF PlanInv, UpOrder, DownOrder
<1>5. todo \in Seq(Steps)
  <2>1. CASE todo = <<>>
    BY <2>1
  <2>2. CASE UpOrder(todo)
    BY <2>2 DEF UpOrder
  <2>3. CASE DownOrder(todo)
    BY <2>3 DEF DownOrder
  <2> QED
    BY <1>2, <2>1, <2>2, <2>3
<1> QED
  BY <1>1, <1>3, <1>4, <1>5 DEF PowerTypeOK, PhaseOK, FlagsOK, FatOK, SearchOK, CountsOK

LEMMA InitPower == Init => PhaseOK /\ FlagsOK /\ FatOK /\ SearchOK /\ CountsOK
<1> SUFFICES ASSUME Init PROVE PhaseOK /\ FlagsOK /\ FatOK /\ SearchOK /\ CountsOK
  OBVIOUS
<1>1. PhaseOK /\ FlagsOK
  BY DEF Init, PowerInit, PhaseOK, FlagsOK
<1>2. FatOK
  BY DEF Init, PowerInit, FatOK
<1>3. Retries \in Nat
  BY DEF Retries
<1>4. SearchOK /\ CountsOK
  BY <1>3, PowerAssumption DEF Init, PowerInit, PowerAssumption, SearchOK, CountsOK, Idle
<1> QED
  BY <1>1, <1>2, <1>4

LEMMA PhaseStep == ASSUME PhaseOK, [PowerNext]_power PROVE PhaseOK'
<1> USE DEF PhaseOK
<1>1. CASE UNCHANGED power
  BY <1>1 DEF power, flags
<1>2. CASE (\E hinted \in BOOLEAN : PowerOn(hinted)) \/ PowerFailure
  BY <1>2 DEF PowerOn, PowerFailure, GoOff, flags
<1>3. CASE LookUp
  BY <1>3 DEF LookUp, SeenByTag, SeenByName, Found, LookAgain, GiveUp, FallBack, AskEfi, EfiTimeOut,
    Undetermined, Halt, GoOff, flags
<1>4. CASE BootStep /\ ~LookUp
  BY <1>4 DEF BootStep, CheckFat, MountBoot, WriteStamp, MoveMounts, CopyEnvironment, MoveEnvironment,
    SetUpEnvironment, MountLayer, Advance, Halt, GoOff, flags
<1>5. CASE TakeMounts \/ Reboot \/ UnmountBoot \/ RepairFat
  BY <1>5 DEF TakeMounts, InitTakeMounts, InitlibTakeMounts, SystemimgTakeMounts, UnmountBoot, RepairFat,
    Reboot, Advance, GoOff, flags
<1>6. CASE RemoveStamp \/ \E what \in {"root", "ro", "rw", "swap"} : Unmount(what)
  BY <1>6 DEF RemoveStamp, InitRemoveStamp, InitlibRemoveStamp, SystemimgRemoveStamp, Reopen, Unmount,
    Advance, flags
<1>7. CASE ConfigureStep
  BY <1>7 DEF ConfigureStep, OtherPower, Advance, GoOff, flags
<1>8. CASE SwitchRoot \/ ShutDown
  BY <1>8 DEF SwitchRoot, ShutDown, Halt, GoOff, flags
<1> QED
  BY <1>1, <1>2, <1>3, <1>4, <1>5, <1>6, <1>7, <1>8 DEF PowerNext, BootStep, DownStep

LEMMA FlagsStep == ASSUME FlagsOK, [PowerNext]_power PROVE FlagsOK'
<1> USE DEF FlagsOK, Works, Fails, partition, flags
<1>1. CASE UNCHANGED power
  BY <1>1 DEF power
<1>2. CASE (\E hinted \in BOOLEAN : PowerOn(hinted)) \/ PowerFailure
  BY <1>2 DEF PowerOn, PowerFailure
<1>3. CASE LookUp
  BY <1>3 DEF LookUp, SeenByTag, SeenByName, GiveUp, FallBack, AskEfi, EfiTimeOut, Undetermined
<1>4. CASE BootStep /\ ~LookUp
  <2>1. CASE WriteStamp
    BY <2>1 DEF WriteStamp
  <2>2. CASE CheckFat \/ MountBoot
    BY <2>2 DEF CheckFat, MountBoot, ReadOnlyDevice
  <2>3. CASE MoveMounts \/ CopyEnvironment \/ MoveEnvironment
              \/ \E layer \in {"ro", "rw", "root"} : MountLayer(layer)
    BY <2>3 DEF MoveMounts, CopyEnvironment, MoveEnvironment, SetUpEnvironment, MountLayer
  <2> QED
    BY <1>4, <2>1, <2>2, <2>3 DEF BootStep
<1>5. CASE TakeMounts \/ Reboot \/ UnmountBoot \/ RepairFat
  BY <1>5 DEF TakeMounts, InitTakeMounts, InitlibTakeMounts, SystemimgTakeMounts, UnmountBoot, RepairFat, Reboot
<1>6. CASE RemoveStamp \/ \E what \in {"root", "ro", "rw", "swap"} : Unmount(what)
  BY <1>6 DEF RemoveStamp, InitRemoveStamp, InitlibRemoveStamp, SystemimgRemoveStamp, Reopen, Unmount
<1>7. CASE ConfigureStep
  BY <1>7 DEF ConfigureStep, OtherPower
<1>8. CASE SwitchRoot \/ ShutDown
  BY <1>8 DEF SwitchRoot, ShutDown
<1> QED
  BY <1>1, <1>2, <1>3, <1>4, <1>5, <1>6, <1>7, <1>8 DEF PowerNext, BootStep, DownStep

LEMMA FatStep == ASSUME FatOK, [PowerNext]_power PROVE FatOK'
<1> USE DEF FatOK, partition
<1>1. CASE UNCHANGED fat
  BY <1>1
<1>2. Opened \in [dirty : BOOLEAN, before : BOOLEAN]
  BY DEF Opened
<1>3. Reopened \in [dirty : BOOLEAN, before : BOOLEAN] /\ Closed \in [dirty : BOOLEAN, before : BOOLEAN]
  BY DEF Reopened, Closed
<1>4. CASE \E hinted \in BOOLEAN : PowerOn(hinted)
  BY <1>4 DEF PowerOn
<1>5. CASE CheckFat \/ MountBoot \/ RepairFat
  BY <1>5, <1>2 DEF CheckFat, MountBoot, RepairFat
<1>6. CASE TakeMounts \/ UnmountBoot \/ ShutDown
  BY <1>6, <1>3 DEF TakeMounts, InitTakeMounts, InitlibTakeMounts, SystemimgTakeMounts, UnmountBoot, ShutDown
<1>7. CASE RemoveStamp
  BY <1>7, <1>3 DEF RemoveStamp, InitRemoveStamp, InitlibRemoveStamp, SystemimgRemoveStamp, Reopen
<1>8. CASE BootStep /\ ~CheckFat /\ ~MountBoot
  BY <1>8 DEF BootStep, LookUp, WriteStamp, MoveMounts, CopyEnvironment, MoveEnvironment,
    SetUpEnvironment, MountLayer
<1>9. CASE Reboot \/ \E what \in {"root", "ro", "rw", "swap"} : Unmount(what)
  BY <1>9 DEF Reboot, Unmount
<1>10. CASE ConfigureStep \/ SwitchRoot \/ PowerFailure \/ UNCHANGED power
  BY <1>10 DEF ConfigureStep, OtherPower, SwitchRoot, PowerFailure, power
<1> QED
  BY <1>4, <1>5, <1>6, <1>7, <1>8, <1>9, <1>10 DEF PowerNext, DownStep

LEMMA SearchStep == ASSUME SearchOK, [PowerNext]_power PROVE SearchOK'
<1> USE DEF SearchOK
<1>1. UNCHANGED Retries /\ Retries \in Nat
  BY SameMachine DEF Retries, program
<1>2. CASE UNCHANGED search
  BY <1>1, <1>2
<1>3. CASE \E hinted \in BOOLEAN : PowerOn(hinted)
  BY <1>1, <1>3 DEF PowerOn
<1>4. CASE LookUp
  BY <1>1, <1>4 DEF LookUp, SeenByTag, SeenByName, Found, LookAgain, GiveUp, FallBack, AskEfi, EfiTimeOut,
    Undetermined, Idle
<1>5. CASE BootStep /\ ~LookUp
  BY <1>2, <1>5 DEF BootStep, CheckFat, MountBoot, WriteStamp, MoveMounts, CopyEnvironment, MoveEnvironment,
    SetUpEnvironment, MountLayer
<1>6. CASE DownStep
  BY <1>2, <1>6 DEF DownStep, TakeMounts, RemoveStamp, UnmountBoot, RepairFat, Reboot, Unmount
<1>7. CASE ConfigureStep \/ SwitchRoot \/ ShutDown \/ PowerFailure \/ UNCHANGED power
  BY <1>2, <1>7 DEF ConfigureStep, OtherPower, SwitchRoot, ShutDown, PowerFailure, power
<1> QED
  BY <1>3, <1>4, <1>5, <1>6, <1>7 DEF PowerNext

LEMMA CountsStep == ASSUME CountsOK, [PowerNext]_power PROVE CountsOK'
<1> USE PowerAssumption DEF CountsOK, Works, Fails, PowerAssumption
<1>1. CASE UNCHANGED power
  BY <1>1 DEF power
<1>2. CASE (\E hinted \in BOOLEAN : PowerOn(hinted)) \/ PowerFailure
  BY <1>2 DEF PowerOn, PowerFailure
<1>3. CASE LookUp
  BY <1>3 DEF LookUp, SeenByTag, SeenByName, GiveUp, FallBack, AskEfi, EfiTimeOut, Undetermined
<1>4. CASE BootStep /\ ~LookUp
  BY <1>4 DEF BootStep, CheckFat, MountBoot, WriteStamp, MoveMounts, CopyEnvironment, MoveEnvironment,
    SetUpEnvironment, MountLayer
<1>5. CASE TakeMounts \/ Reboot \/ UnmountBoot \/ RepairFat
  BY <1>5 DEF TakeMounts, InitTakeMounts, InitlibTakeMounts, SystemimgTakeMounts, UnmountBoot, RepairFat, Reboot
<1>6. CASE RemoveStamp \/ \E what \in {"root", "ro", "rw", "swap"} : Unmount(what)
  BY <1>6 DEF RemoveStamp, InitRemoveStamp, InitlibRemoveStamp, SystemimgRemoveStamp, Reopen, Unmount
<1>7. CASE ConfigureStep
  BY <1>7 DEF ConfigureStep, OtherPower
<1>8. CASE SwitchRoot
  BY <1>8 DEF SwitchRoot
<1>9. CASE ShutDown
  <2>1. UNCHANGED <<boots, mishaps>>
    BY <1>9 DEF ShutDown
  <2> QED
    BY <2>1
<1> QED
  BY <1>1, <1>2, <1>3, <1>4, <1>5, <1>6, <1>7, <1>8, <1>9 DEF PowerNext, BootStep, DownStep
-----------------------------------------------------------------------------
(* Part 5: what is mounted, and the FAT.                                   *)

(* The last step of a shutdown.                                            *)
LEMMA RebootIsLast ==
  ASSUME NEW s, DownOrder(s), Head(s) = "reboot"
  PROVE  ToSet(s) = {"reboot"}
<1>1. s \in Seq(Steps) /\ s # <<>> /\ s[1] = "reboot" /\ DOMAIN s = 1..Len(s) /\ Len(s) \in Nat \ {0}
  BY DEF DownOrder
<1>2. ~(Len(s) > 1)
  <2> SUFFICES ASSUME Len(s) > 1 PROVE FALSE
    OBVIOUS
  <2>1. 1 \in 1..Len(s) /\ 2 \in 1..Len(s)
    BY <1>1
  <2> QED
    BY <1>1, <2>1 DEF DownOrder, FollowsDown
<1> QED
  BY <1>1, <1>2 DEF ToSet

LEMMA FlagStep ==
  ASSUME PhaseOK, PlanInv, FlagInv, [PowerNext]_power
  PROVE  FlagInv'
<1> USE DEF FlagInv
<1>0. UNCHANGED <<machine, program, ReadOnlyDevice>>
  BY SameMachine DEF program, ReadOnlyDevice
<1>1. CASE UNCHANGED power
  BY <1>0, <1>1 DEF power, partition, flags
<1>2. CASE (\E hinted \in BOOLEAN : PowerOn(hinted)) \/ PowerFailure
  BY <1>0, <1>2 DEF PowerOn, PowerFailure, GoOff, partition, flags
<1>3. CASE LookUp
  BY <1>0, <1>3 DEF LookUp, partition, flags
<1>4. CASE BootStep /\ ~LookUp
  <2>1. phase = "boot" /\ UNCHANGED flags
    BY <1>4 DEF BootStep, CheckFat, MountBoot, WriteStamp, MoveMounts, CopyEnvironment, MoveEnvironment,
      SetUpEnvironment, MountLayer
  <2>2. readonly' = readonly \/ readonly' = ReadOnlyDevice
    BY <1>4 DEF BootStep, CheckFat, MountBoot, WriteStamp, MoveMounts, CopyEnvironment, MoveEnvironment,
      SetUpEnvironment, MountLayer, partition
  <2> QED
    BY <1>0, <2>1, <2>2 DEF flags
<1>5. CASE DownStep
  <2>1. phase' \in {"down", "off", "panic"}
    BY <1>5, DownStepMoves DEF DownMoves
  <2>2. UNCHANGED <<held, repair>>
    BY <1>5 DEF DownStep, TakeMounts, RemoveStamp, UnmountBoot, RepairFat, Reboot, Unmount, flags
  <2> QED
    BY <1>0, <2>1, <2>2
<1>6. CASE ConfigureStep \/ SwitchRoot
  BY <1>0, <1>6 DEF ConfigureStep, OtherPower, SwitchRoot, partition, flags
<1>7. CASE ShutDown
  <2>1. phase' \in {"off", "down"}
    BY <1>7 DEF ShutDown, GoOff
  <2>2. (held' => program = "systemimg") /\ (repair' => program = "initlib")
    BY <1>7 DEF ShutDown
  <2> QED
    BY <1>0, <2>1, <2>2
<1> QED
  BY <1>1, <1>2, <1>3, <1>4, <1>5, <1>6, <1>7 DEF PowerNext

(* A step of the shutdown is done.                                         *)
LEMMA DownAdvance ==
  ASSUME DownOrder(todo), Head(todo) # "reboot", Advance
  PROVE  /\ Left = Left' \cup {Head(todo)} /\ Head(todo) \notin Left'
         /\ \A x \in Left' : FollowsDown(Head(todo), x)
<1>1. /\ Left = Left' \cup {Head(todo)}
      /\ \A x \in Left' : FollowsDown(Head(todo), x)
  BY TailDown DEF Left, Advance
<1> QED
  BY <1>1 DEF FollowsDown

LEMMA MountedDown ==
  ASSUME PhaseOK, PlanInv, MountedInv, DownStep
  PROVE  MountedInv'
<1> USE DEF MountedInv
<1>0. UNCHANGED <<machine, program, Unmounted, NotUnmounted, held>>
  <2>1. UNCHANGED <<machine, held>>
    BY DEF DownStep, TakeMounts, RemoveStamp, UnmountBoot, RepairFat, Reboot, Unmount, flags
  <2> QED
    BY <2>1 DEF program, Unmounted, NotUnmounted, Vfat
<1>1. phase = "down" /\ DownOrder(todo)
  BY DownStepMoves DEF PlanInv
<1>2. "swap" \in mounted' => program' = "init"
  BY <1>0 DEF DownStep, TakeMounts, InitTakeMounts, InitlibTakeMounts, SystemimgTakeMounts,
    RemoveStamp, UnmountBoot, RepairFat, Reboot, Unmount
<1> SUFFICES ASSUME phase' = "down", calm'
             PROVE  /\ mounted' \cap Unmounted \subseteq Left'
                    /\ "boot" \notin Left' /\ ~held => mounted' \subseteq NotUnmounted
  BY <1>0, <1>2
<1>3. Works /\ calm
  BY DEF DownStep, TakeMounts, InitTakeMounts, InitlibTakeMounts, SystemimgTakeMounts, RemoveStamp,
    InitRemoveStamp, InitlibRemoveStamp, SystemimgRemoveStamp, Reopen, UnmountBoot, RepairFat, Reboot,
    Unmount, Works, Fails, GoOff
<1>4. CASE TakeMounts \/ RepairFat
  <2>1. UNCHANGED mounted /\ Advance /\ Head(todo) \in {"take", "fsck"}
    BY <1>3, <1>4 DEF TakeMounts, InitTakeMounts, InitlibTakeMounts, SystemimgTakeMounts, RepairFat,
      Works, Fails, Ahead
  <2> QED
    BY <1>1, <1>3, <2>1, DownAdvance DEF Unmounted
<1>5. CASE \E what \in {"root", "ro", "rw", "swap"} : Unmount(what)
  <2>1. PICK what \in {"root", "ro", "rw", "swap"} : Unmount(what)
    BY <1>5
  <2>2. mounted' = mounted \ {what} /\ Advance /\ Head(todo) = what
    BY <1>3, <2>1 DEF Unmount, Works, Fails, Ahead
  <2> QED
    BY <1>1, <1>3, <2>2, DownAdvance
<1>6. CASE RemoveStamp
  <2>1. UNCHANGED mounted /\ Head(todo) = "unstamp"
    BY <1>6 DEF RemoveStamp, Ahead
  <2>2. CASE Advance
    BY <1>1, <1>3, <2>1, <2>2, DownAdvance DEF Unmounted
  <2>3. CASE program = "systemimg" /\ ~Vfat /\ todo' = <<"reboot">>
    <3>1. \A x \in Left : x = "unstamp" \/ FollowsDown("unstamp", x)
      BY <1>1, <2>1, TailDown DEF Left
    <3>2. mounted \cap Unmounted = {}
      BY <1>1, <1>3, <3>1 DEF Unmounted, FollowsDown
    <3>3. mounted \subseteq NotUnmounted
      BY <2>3, <3>2 DEF PhaseOK, Unmounted, NotUnmounted
    <3> QED
      BY <2>1, <3>2, <3>3
  <2> QED
    BY <1>6, <2>2, <2>3 DEF RemoveStamp, InitRemoveStamp, InitlibRemoveStamp, SystemimgRemoveStamp, Reopen
<1>7. CASE UnmountBoot
  <2>1. Advance /\ Head(todo) = "boot"
    BY <1>7 DEF UnmountBoot, Ahead
  <2>2. \A x \in Left : x \in {"boot", "fsck", "reboot"}
    BY <1>1, <2>1, DownAdvance DEF FollowsDown
  <2>3. mounted \cap Unmounted = {}
    BY <1>1, <1>3, <2>2 DEF Unmounted
  <2>4. ~held => ~Busy
    BY <2>3 DEF Busy, Unmounted
  <2>5. /\ mounted' \subseteq mounted
        /\ ~held => mounted' = IF program = "systemimg" THEN mounted \ {"boot"} ELSE mounted \cap {"root"}
    BY <1>3, <1>7, <2>4 DEF UnmountBoot, Works, Fails
  <2>6. ~held => mounted' \subseteq NotUnmounted
    BY <2>3, <2>5 DEF PhaseOK, Unmounted, NotUnmounted
  <2> QED
    BY <2>3, <2>5, <2>6
<1>8. CASE Reboot
  BY <1>8 DEF Reboot, GoOff
<1> QED
  BY <1>4, <1>5, <1>6, <1>7, <1>8 DEF DownStep

LEMMA MountedStep ==
  ASSUME PhaseOK, PlanInv, FlagInv, MountedInv, [PowerNext]_power
  PROVE  MountedInv'
<1> USE DEF MountedInv
<1>0. UNCHANGED <<machine, program, Unmounted, NotUnmounted>> /\ machine \in MachineType
  BY SameMachine, MachineKnown DEF program, Unmounted, NotUnmounted, Vfat, PlanInv
<1>1. CASE UNCHANGED power
  BY <1>0, <1>1 DEF power, flags, Left
<1>2. CASE \E hinted \in BOOLEAN : PowerOn(hinted)
  BY <1>0, <1>2 DEF PowerOn
<1>3. CASE LookUp
  BY <1>0, <1>3, LookUpMoves DEF LookUp, LookMoves
<1>4. CASE BootStep /\ ~LookUp
  <2>1. phase' # "down"
    BY <1>4, BootStepMoves DEF BootMoves
  <2>2. mounted' \subseteq mounted \cup {"boot", "run", "ro", "rw", "root"} \/ program = "init"
    BY <1>4 DEF BootStep, CheckFat, MountBoot, WriteStamp, MoveMounts, CopyEnvironment, MoveEnvironment,
      SetUpEnvironment, MountLayer
  <2> QED
    BY <1>0, <2>1, <2>2
<1>5. CASE DownStep
  BY <1>5, MountedDown
<1>6. CASE ConfigureStep \/ SwitchRoot \/ PowerFailure
  <2>1. UNCHANGED mounted /\ phase' # "down"
    BY <1>6 DEF ConfigureStep, OtherPower, SwitchRoot, PowerFailure, Advance, Halt, GoOff
  <2> QED
    BY <1>0, <2>1
<1>7. CASE ShutDown
  <2>1. UNCHANGED mounted /\ (phase' = "down" => Left' = ToSet(DownPlan[program]))
    BY <1>7 DEF ShutDown, GoOff, Left
  <2>2. phase' = "down" => program # "paravirt"
    BY <1>0, <1>7 DEF ShutDown, GoOff, PlanInv
  <2> QED
    BY <1>0, <2>1, <2>2, DownPlanOrder DEF Unmounted, PhaseOK
<1> QED
  BY <1>1, <1>2, <1>3, <1>4, <1>5, <1>6, <1>7 DEF PowerNext

LEMMA SwitchIsLast ==
  ASSUME NEW s, UpOrder(s), Head(s) = "switch"
  PROVE  ToSet(s) = {"switch"}
<1>1. s \in Seq(Steps) /\ s # <<>> /\ s[1] = "switch" /\ DOMAIN s = 1..Len(s) /\ Len(s) \in Nat \ {0}
  BY DEF UpOrder
<1>2. ~(Len(s) > 1)
  <2> SUFFICES ASSUME Len(s) > 1 PROVE FALSE
    OBVIOUS
  <2>1. 1 \in 1..Len(s) /\ 2 \in 1..Len(s)
    BY <1>1
  <2> QED
    BY <1>1, <2>1 DEF UpOrder, FollowsUp
<1> QED
  BY <1>1, <1>2 DEF ToSet

LEMMA UpAdvance ==
  ASSUME UpOrder(todo), Head(todo) # "switch", Advance
  PROVE  /\ Left = Left' \cup {Head(todo)}
         /\ \A x \in Left' : FollowsUp(Head(todo), x)
BY TailUp DEF Left, Advance

LEMMA FatBootStep ==
  ASSUME FatOK, PlanInv, FatInv, calm', Vfat, phase' = "boot", BootStep /\ ~LookUp
  PROVE  FatBoot'
<1> USE DEF FatBoot
<1>0. UNCHANGED program
  BY SameMachine DEF program, PowerNext
<1>1. phase = "boot" /\ UpOrder(todo) /\ Advance /\ Head(todo) # "switch"
  BY BootStepMoves DEF BootMoves, PlanInv, Advance
<1>2. Works /\ calm
  BY DEF BootStep, CheckFat, MountBoot, WriteStamp, MoveMounts, CopyEnvironment, MoveEnvironment,
    SetUpEnvironment, MountLayer, Works, Fails
<1>3. FatBoot
  BY <1>1, <1>2 DEF FatInv
<1>4. Left = Left' \cup {Head(todo)} /\ \A x \in Left' : FollowsUp(Head(todo), x)
  BY <1>1, UpAdvance
<1>5. CASE CheckFat
  <2>1. Head(todo) = "check" /\ fat' = [fat EXCEPT !.dirty = FALSE]
    BY <1>2, <1>5 DEF CheckFat, Ahead, Works, Fails
  <2> QED
    BY <1>0, <1>3, <1>4, <2>1 DEF FatOK
<1>6. CASE MountBoot
  <2>1. Head(todo) = "boot" /\ fat' = [dirty |-> TRUE, before |-> fat.dirty]
    BY <1>2, <1>6 DEF MountBoot, Ahead, Works, Fails, Opened
  <2>2. "boot" \notin Left' /\ "check" \notin Left' /\ "boot" \in Left /\ "check" \notin Left
    BY <1>4, <2>1 DEF FollowsUp
  <2> QED
    BY <1>0, <1>3, <2>1, <2>2
<1>7. CASE ~CheckFat /\ ~MountBoot
  <2>1. UNCHANGED fat /\ Head(todo) \notin {"check", "boot"}
    BY <1>7 DEF BootStep, WriteStamp, MoveMounts, CopyEnvironment, MoveEnvironment, SetUpEnvironment,
      MountLayer, partition, Ahead
  <2> QED
    BY <1>0, <1>3, <1>4, <2>1
<1> QED
  BY <1>5, <1>6, <1>7

LEMMA FatDownStep ==
  ASSUME FatOK, PlanInv, FlagInv, MountedInv, FatInv, calm', Vfat, phase' = "down", DownStep
  PROVE  FatDown'
<1> USE DEF FatDown
<1>0. UNCHANGED <<program, held, repair>>
  <2>1. UNCHANGED <<machine, held, repair>>
    BY DEF DownStep, TakeMounts, RemoveStamp, UnmountBoot, RepairFat, Reboot, Unmount, flags
  <2> QED
    BY <2>1 DEF program
<1>1. phase = "down" /\ DownOrder(todo)
  BY DownStepMoves DEF PlanInv
<1>2. Works /\ calm
  BY DEF DownStep, TakeMounts, InitTakeMounts, InitlibTakeMounts, SystemimgTakeMounts, RemoveStamp,
    InitRemoveStamp, InitlibRemoveStamp, SystemimgRemoveStamp, Reopen, UnmountBoot, RepairFat, Reboot,
    Unmount, Works, Fails, GoOff
<1>3. FatDown
  BY <1>1, <1>2 DEF FatInv
<1>4. Advance /\ Head(todo) # "reboot"
  BY <1>2 DEF DownStep, TakeMounts, InitTakeMounts, InitlibTakeMounts, SystemimgTakeMounts, RemoveStamp,
    InitRemoveStamp, InitlibRemoveStamp, SystemimgRemoveStamp, Reopen, UnmountBoot, RepairFat, Reboot,
    Unmount, Works, Fails, GoOff, Ahead
<1>5. /\ Left = Left' \cup {Head(todo)} /\ Head(todo) \notin Left'
      /\ \A x \in Left' : FollowsDown(Head(todo), x)
  BY <1>1, <1>4, DownAdvance
<1>6. CASE TakeMounts \/ \E what \in {"root", "ro", "rw", "swap"} : Unmount(what)
  <2>1. UNCHANGED <<fat, readonly>> /\ Head(todo) \in {"take", "root", "ro", "rw", "swap"}
    BY <1>2, <1>6 DEF TakeMounts, InitTakeMounts, InitlibTakeMounts, SystemimgTakeMounts, Unmount, Works,
      Fails, Ahead, partition
  <2> QED
    BY <1>0, <1>3, <1>5, <2>1
<1>7. CASE RemoveStamp
  <2>1. Head(todo) = "unstamp"
    BY <1>7 DEF RemoveStamp, Ahead
  <2>2. "boot" \in Left /\ "unstamp" \in Left /\ (program \in {"init", "initlib"} => "fsck" \in Left)
    BY <1>3, <1>5, <2>1
  <2>3. UNCHANGED fat \/ fat' = [fat EXCEPT !.dirty = TRUE]
    BY <1>7 DEF RemoveStamp, InitRemoveStamp, InitlibRemoveStamp, SystemimgRemoveStamp, Reopen, Reopened
  <2>4. program = "initlib" => UNCHANGED <<fat, readonly>>
    BY <1>7 DEF RemoveStamp, InitRemoveStamp, InitlibRemoveStamp, SystemimgRemoveStamp
  <2>5. program = "systemimg" => ~readonly'
    BY <1>2, <1>7 DEF RemoveStamp, InitRemoveStamp, InitlibRemoveStamp, SystemimgRemoveStamp, Reopen, Works, Fails
  <2> QED
    BY <1>0, <1>3, <1>5, <2>1, <2>2, <2>3, <2>4, <2>5 DEF FatOK
<1>8. CASE UnmountBoot
  <2>1. Head(todo) = "boot" /\ UNCHANGED readonly
    BY <1>8 DEF UnmountBoot, Ahead
  <2>2. Left \subseteq {"boot", "fsck", "reboot"}
    BY <1>5, <2>1 DEF FollowsDown
  <2>3. "boot" \in Left /\ "unstamp" \notin Left /\ (program \in {"init", "initlib"} => "fsck" \in Left)
    BY <1>3, <1>5, <2>1, <2>2
  <2>4. ~held => ~Busy
    BY <1>1, <1>2, <2>2 DEF MountedInv, Busy, Unmounted
  <2>5. ~held => fat' = IF readonly THEN fat ELSE [fat EXCEPT !.dirty = fat.before]
    BY <1>2, <1>8, <2>4 DEF UnmountBoot, Works, Fails, Closed
  <2>6. program = "initlib" => ~held
    BY DEF FlagInv
  <2>7. held => UNCHANGED fat
    BY <1>2, <1>8 DEF UnmountBoot, Works, Fails, Busy
  <2> QED
    BY <1>0, <1>3, <1>5, <2>1, <2>2, <2>3, <2>5, <2>6, <2>7 DEF FatOK
<1>9. CASE RepairFat
  <2>1. Head(todo) = "fsck" /\ UNCHANGED readonly
    BY <1>9 DEF RepairFat, Ahead
  <2>2. Left \subseteq {"fsck", "reboot"}
    BY <1>5, <2>1 DEF FollowsDown
  <2>3. IF program = "init" \/ repair THEN fat' = [fat EXCEPT !.dirty = FALSE] ELSE UNCHANGED fat
    BY <1>2, <1>9 DEF RepairFat, Works, Fails
  <2> QED
    BY <1>0, <1>3, <1>5, <2>1, <2>2, <2>3 DEF FatOK
<1>10. CASE Reboot
  BY <1>10 DEF Reboot, GoOff
<1> QED
  BY <1>6, <1>7, <1>8, <1>9, <1>10 DEF DownStep

LEMMA FatInvStep ==
  ASSUME PhaseOK, FatOK, PlanInv, FlagInv, MountedInv, FatInv, [PowerNext]_power
  PROVE  FatInv'
<1>0. UNCHANGED <<machine, program, Vfat>> /\ machine \in MachineType
  BY SameMachine, MachineKnown DEF program, Vfat, PlanInv
<1> SUFFICES ASSUME calm', Vfat
             PROVE  /\ phase' \in {"find", "boot"} => FatBoot'
                    /\ phase' = "up" => ~readonly' /\ (program = "systemimg" => ~fat'.before)
                    /\ phase' = "down" => FatDown'
  BY <1>0 DEF FatInv
<1>1. CASE UNCHANGED power
  BY <1>0, <1>1 DEF power, partition, flags, FatInv, FatBoot, FatDown, Left
<1>2. CASE \E hinted \in BOOLEAN : PowerOn(hinted)
  <2>1. phase' = "find" /\ todo' = UpPlan[program]
    BY <1>2 DEF PowerOn
  <2> QED
    BY <1>0, <2>1, UpPlanOrder DEF FatBoot, Left
<1>3. CASE LookUp
  <2>1. phase = "find" /\ UNCHANGED fat /\ calm
    BY <1>3 DEF LookUp, partition, SeenByTag, SeenByName, GiveUp, FallBack, AskEfi, EfiTimeOut,
      Undetermined, Works, Fails
  <2>2. phase' \in {"find", "boot"} => UNCHANGED todo
    BY <1>3, LookUpMoves DEF LookMoves
  <2>3. phase' \notin {"up", "down"}
    BY <1>3, LookUpMoves DEF LookMoves
  <2> QED
    BY <1>0, <2>1, <2>2, <2>3 DEF FatInv, FatBoot, Left
<1>4. CASE BootStep /\ ~LookUp
  <2>1. phase' \in {"boot", "off"}
    BY <1>4, BootStepMoves DEF BootMoves
  <2> QED
    BY <1>4, <2>1, FatBootStep
<1>5. CASE DownStep
  <2>1. phase' \in {"down", "off", "panic"}
    BY <1>5, DownStepMoves DEF DownMoves
  <2> QED
    BY <1>5, <2>1, FatDownStep
<1>6. CASE ConfigureStep
  <2>1. phase = "boot" /\ UpOrder(todo) /\ UNCHANGED fat
    BY <1>6 DEF ConfigureStep, PlanInv, OtherPower, partition
  <2>2. Head(todo) \in {"configure", "generate"}
    BY <1>6 DEF ConfigureStep, Ahead
  <2>3. calm /\ (UNCHANGED <<todo, phase>> \/ (Advance /\ phase' = "boot"))
    BY <1>6, <2>1 DEF ConfigureStep, Works, Fails, Advance
  <2>4. "check" \in Left' <=> "check" \in Left
    BY <2>1, <2>2, <2>3, UpAdvance DEF Left
  <2>5. "boot" \in Left' <=> "boot" \in Left
    BY <2>1, <2>2, <2>3, UpAdvance DEF Left
  <2> QED
    BY <1>0, <2>1, <2>3, <2>4, <2>5 DEF FatInv, FatBoot
<1>7. CASE SwitchRoot
  <2>1. phase = "boot" /\ UpOrder(todo) /\ Head(todo) = "switch" /\ UNCHANGED <<fat, readonly>>
    BY <1>7 DEF SwitchRoot, Ahead, PlanInv, partition
  <2>2. calm /\ phase' \in {"up", "off"}
    BY <1>7 DEF SwitchRoot, Works, Fails, Halt, GoOff
  <2>3. "boot" \notin Left
    BY <2>1, SwitchIsLast DEF Left
  <2>4. ~readonly
    BY <2>1 DEF FlagInv, Vfat, ReadOnlyDevice
  <2> QED
    BY <1>0, <2>1, <2>2, <2>3, <2>4 DEF FatInv, FatBoot
<1>8. CASE ShutDown
  <2>1. phase' \in {"off", "down"} /\ (phase' = "down" => todo' = DownPlan[program] /\ env)
    BY <1>8 DEF ShutDown, GoOff
  <2>2. calm /\ ~readonly /\ (program = "systemimg" => ~fat.before)
    BY <1>8 DEF ShutDown, FatInv
  <2>3. fat' = IF readonly' THEN [fat EXCEPT !.dirty = fat.before] ELSE fat
    BY <1>8, <2>2 DEF ShutDown, Closed
  <2>4. phase' = "down" => program # "paravirt"
    BY <2>1 DEF PlanInv
  <2> QED
    BY <1>0, <2>1, <2>2, <2>3, <2>4, DownPlanOrder DEF FatDown, Left, FatOK
<1>9. CASE PowerFailure
  BY <1>9 DEF PowerFailure, Fails
<1> QED
  BY <1>1, <1>2, <1>3, <1>4, <1>5, <1>6, <1>7, <1>8, <1>9 DEF PowerNext
-----------------------------------------------------------------------------
(* Part 6: the theorems.                                                   *)

PowerInv ==
  /\ PhaseOK /\ FlagsOK /\ FatOK /\ SearchOK /\ CountsOK
  /\ PlanInv /\ FlagInv /\ MountedInv /\ FatInv

LEMMA PowerAlways == Spec => []PowerInv
<1>1. Init => PowerInv
  <2> SUFFICES ASSUME Init PROVE PowerInv
    OBVIOUS
  <2>1. phase = "off" /\ ~held /\ ~repair /\ mounted = {}
    BY DEF Init, PowerInit
  <2>2. FlagInv /\ MountedInv /\ FatInv
    BY <2>1 DEF FlagInv, MountedInv, FatInv
  <2> QED
    BY <2>2, InitPower, InitPlan DEF PowerInv
<1>2. PowerInv /\ [Next]_vars => PowerInv'
  BY NextPower, PhaseStep, FlagsStep, FatStep, SearchStep, CountsStep, PlanStep, FlagStep, MountedStep,
    FatInvStep DEF PowerInv
<1> QED
  BY <1>1, <1>2, PTL DEF Spec

(* Nothing but the last step of a shutdown ends it as one.                 *)
LEMMA EndsByReboot ==
  ASSUME [PowerNext]_power, phase' = "off", ended' = "shutdown"
  PROVE  Reboot \/ UNCHANGED power
<1>1. CASE BootStep \/ PowerFailure \/ ConfigureStep
  BY <1>1 DEF BootStep, LookUp, SeenByTag, SeenByName, Found, LookAgain, GiveUp, FallBack, AskEfi, EfiTimeOut,
    Undetermined, CheckFat, MountBoot, WriteStamp, MoveMounts, CopyEnvironment, MoveEnvironment,
    SetUpEnvironment, MountLayer, PowerFailure, ConfigureStep, Advance, Halt, GoOff
<1>2. CASE (\E hinted \in BOOLEAN : PowerOn(hinted)) \/ SwitchRoot \/ ShutDown
  BY <1>2 DEF PowerOn, SwitchRoot, ShutDown, Halt, GoOff
<1>3. CASE DownStep
  BY <1>3 DEF DownStep, TakeMounts, InitTakeMounts, InitlibTakeMounts, SystemimgTakeMounts, RemoveStamp,
    InitRemoveStamp, InitlibRemoveStamp, SystemimgRemoveStamp, Reopen, UnmountBoot, RepairFat,
    Unmount, Advance, Ahead
<1> QED
  BY <1>1, <1>2, <1>3 DEF PowerNext

EndsClean == CalmEndUnmounts /\ FatHeals

LEMMA EndStep ==
  ASSUME PowerInv, EndsClean, [PowerNext]_power
  PROVE  EndsClean'
<1>0. UNCHANGED <<machine, program, Vfat, NotUnmounted>>
  BY SameMachine DEF program, Vfat, NotUnmounted
<1> SUFFICES ASSUME phase' = "off", ended' = "shutdown", calm', ~held'
             PROVE  /\ mounted' \subseteq NotUnmounted
                    /\ Vfat => \/ ~fat'.dirty \/ (program = "initlib" /\ ~repair' /\ fat'.before)
                                \/ program = "xen"
  BY <1>0 DEF EndsClean, CalmEndUnmounts, FatHeals
<1>1. CASE UNCHANGED power
  BY <1>1 DEF power, partition, flags, EndsClean, CalmEndUnmounts, FatHeals
<1>2. CASE Reboot
  <2>1. phase = "down" /\ calm /\ UNCHANGED <<mounted, fat, held, repair>> /\ Head(todo) = "reboot"
    BY <1>2 DEF Reboot, Ahead, partition, flags
  <2>2. Left = {"reboot"}
    BY <2>1, RebootIsLast DEF PowerInv, PlanInv, Left
  <2>3. mounted \subseteq NotUnmounted
    BY <2>1, <2>2 DEF PowerInv, MountedInv
  <2>4. Vfat => FatDown
    BY <2>1 DEF PowerInv, FatInv
  <2>5. program \in Programs \ {"paravirt"}
    <3>1. program \in Programs /\ machine \in MachineType
      BY MachineKnown DEF PowerInv, PlanInv, MachineType, program
    <3>2. program = "paravirt" => DownPlan[program] = <<>>
      BY DEF DownPlan
    <3>3. ToSet(<<>>) = {}
      BY DEF ToSet
    <3>4. Left \subseteq ToSet(DownPlan[program])
      BY <2>1 DEF PowerInv, PlanInv
    <3> QED
      BY <2>2, <3>1, <3>2, <3>3, <3>4
  <2> QED
    BY <2>1, <2>2, <2>3, <2>4, <2>5 DEF FatDown, Programs, PowerInv, FatOK
<1> QED
  BY <1>1, <1>2, EndsByReboot

LEMMA FsckStep ==
  ASSUME PowerInv, FsckOffline, [PowerNext]_power
  PROVE  FsckOffline'
<1> SUFFICES ASSUME checked' = "mounted", calm' PROVE FALSE
  BY DEF FsckOffline
<1>1. CASE RepairFat
  <2>1. phase = "down" /\ Head(todo) = "fsck" /\ Advance
    BY <1>1 DEF RepairFat, Ahead
  <2>2. calm
    BY <1>1 DEF RepairFat, Works, Fails
  <2>3. Left \subseteq {"fsck", "reboot"}
    BY <2>1, DownAdvance DEF PowerInv, PlanInv, FollowsDown
  <2>4. checked # "mounted"
    BY <2>2 DEF FsckOffline
  <2>5. "boot" \in mounted /\ (program = "init" \/ repair)
    BY <1>1, <2>4 DEF RepairFat
  <2>6. ~held /\ program # "systemimg"
    BY <2>5 DEF PowerInv, FlagInv
  <2> QED
    BY <2>1, <2>2, <2>3, <2>5, <2>6 DEF PowerInv, MountedInv, NotUnmounted
<1>2. CASE ~RepairFat
  <2>1. CASE \E hinted \in BOOLEAN : PowerOn(hinted)
    BY <2>1 DEF PowerOn
  <2>2. CASE BootStep
    BY <2>2 DEF BootStep, LookUp, SeenByTag, SeenByName, GiveUp, FallBack, AskEfi, EfiTimeOut, Undetermined,
      CheckFat, MountBoot, WriteStamp, MoveMounts, CopyEnvironment, MoveEnvironment, SetUpEnvironment,
      MountLayer, flags, Works, Fails, FsckOffline
  <2>3. CASE DownStep
    BY <1>2, <2>3 DEF DownStep, TakeMounts, InitTakeMounts, InitlibTakeMounts, SystemimgTakeMounts, RemoveStamp,
      InitRemoveStamp, InitlibRemoveStamp, SystemimgRemoveStamp, Reopen, UnmountBoot, Reboot, Unmount,
      flags, Works, Fails, FsckOffline
  <2>4. CASE ConfigureStep \/ SwitchRoot \/ ShutDown \/ PowerFailure \/ UNCHANGED power
    BY <2>4 DEF ConfigureStep, OtherPower, SwitchRoot, ShutDown, PowerFailure, power, flags, Works, Fails,
      FsckOffline
  <2> QED
    BY <2>1, <2>2, <2>3, <2>4 DEF PowerNext
<1> QED
  BY <1>1, <1>2

(* CalmEndUnmounts: after a session and a shutdown in which no call fails, *)
(* the boot partition and the layers are unmounted.                        *)
THEOREM CalmShutdownUnmounts == Spec => []CalmEndUnmounts
<1>1. Init => EndsClean
  BY DEF Init, PowerInit, EndsClean, CalmEndUnmounts, FatHeals
<1>2. PowerInv /\ EndsClean /\ [Next]_vars => EndsClean'
  BY NextPower, EndStep
<1>3. EndsClean => CalmEndUnmounts
  BY DEF EndsClean
<1> QED
  BY <1>1, <1>2, <1>3, PowerAlways, PTL DEF Spec

(* FatHeals: whatever left the dirty flag set, a session and a shutdown in *)
(* which no call fails leave a clean FAT, with the exceptions it names.    *)
THEOREM FatIsHealed == Spec => []FatHeals
<1>1. Init => EndsClean
  BY DEF Init, PowerInit, EndsClean, CalmEndUnmounts, FatHeals
<1>2. PowerInv /\ EndsClean /\ [Next]_vars => EndsClean'
  BY NextPower, EndStep
<1>3. EndsClean => FatHeals
  BY DEF EndsClean
<1> QED
  BY <1>1, <1>2, <1>3, PowerAlways, PTL DEF Spec

(* FsckOffline: unless a call has failed, fsck.fat finds the boot          *)
(* partition unmounted.                                                    *)
THEOREM FsckIsOffline == Spec => []FsckOffline
<1>1. Init => FsckOffline
  BY DEF Init, PowerInit, FsckOffline
<1>2. PowerInv /\ FsckOffline /\ [Next]_vars => FsckOffline'
  BY NextPower, FsckStep
<1> QED
  BY <1>1, <1>2, PowerAlways, PTL DEF Spec

(* StampGoesLast: boottime.txt outlives the layers of the root filesystem, *)
(* of every shutdown in which no call has failed.                          *)
THEOREM StampIsLast == Spec => StampGoesLast
<1> DEFINE goesLast ==
      stamp /\ ~stamp' /\ calm =>
        mounted \cap {"root", "ro"} = {} /\ (program = "systemimg" \/ "rw" \notin mounted)
<1>1. ASSUME PowerInv, [PowerNext]_power PROVE [goesLast]_power
  <2> SUFFICES ASSUME stamp, ~stamp', calm
               PROVE  mounted \cap {"root", "ro"} = {} /\ (program = "systemimg" \/ "rw" \notin mounted)
    OBVIOUS
  <2>1. RemoveStamp
    <3>1. ~BootStep
      BY DEF BootStep, LookUp, CheckFat, MountBoot, WriteStamp, MoveMounts, CopyEnvironment, MoveEnvironment,
        SetUpEnvironment, MountLayer, partition
    <3>2. DownStep
      BY <1>1, <3>1 DEF PowerNext, PowerOn, ConfigureStep, OtherPower, SwitchRoot, ShutDown, PowerFailure,
        power, partition
    <3> QED
      BY <3>2 DEF DownStep, TakeMounts, UnmountBoot, RepairFat, Reboot, Unmount, partition
  <2>2. phase = "down" /\ Head(todo) = "unstamp" /\ DownOrder(todo)
    BY <1>1, <2>1 DEF RemoveStamp, Ahead, PowerInv, PlanInv
  <2>3. \A x \in Left : x = "unstamp" \/ FollowsDown("unstamp", x)
    BY <2>2, TailDown DEF Left
  <2>4. mounted \cap Unmounted \subseteq Left
    BY <1>1, <2>2 DEF PowerInv, MountedInv
  <2> QED
    BY <2>3, <2>4 DEF FollowsDown, Unmounted
<1>2. ASSUME PowerInv, [Next]_vars PROVE [goesLast]_power
  BY <1>1, <1>2, NextPower
<1>3. Spec => [][goesLast]_power
  BY <1>2, PowerAlways, PTL DEF Spec
<1> QED
  BY <1>3 DEF StampGoesLast

=============================================================================
