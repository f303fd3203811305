--------------------------- MODULE SystemSettings ---------------------------
(***************************************************************************)
(* The settings of system.ini on the boot partition, written at every boot *)
(* by the setup_* hooks into the new root, where what an earlier boot, the *)
(* image and the user have written is still there: the hooks of            *)
(* src/obsoleted/init/init.cpp and src/obsoleted/initlib/initlib.cpp, run  *)
(* by the machine of PowerCycle.  The other programs leave the settings to *)
(* overlay_init.py.                                                        *)
(***************************************************************************)
EXTENDS PowerCycle

CONSTANTS
  Inis,      \* what system.ini may name: sets of names
  MaxEdits   \* bound on what the user changes

Names ==
  {"hostname", "wifi", "address", "password", "timezone", "locale", "keymap", "ssh_key",
   "autologin", "openvpn", "zabbix"}

ASSUME SettingsAssumption == Inis \subseteq SUBSET Names /\ MaxEdits \in Nat

VARIABLES
  ini,      \* what system.ini (xen: xenstore or the command line) names
  root,     \* the settings in the new root, see SettingsType
  hooks,    \* the hooks of this boot still ahead
  touched,  \* what a boot has written since the last session
  kept,     \* the settings at the end of the last session
  edits

settings == <<ini, root, hooks, touched, kept, edits>>
vars == <<power, settings>>

(* The files a hook writes as a whole.  "wifi" is that of wpa_supplicant.  *)
Files == Names \ {"hostname", "address", "ssh_key"}
Writers == {"none", "image", "user", "ini", "empty", "broken"}

(* at: the boot a hostname was generated in.  network: the kinds of files  *)
(* in /etc/systemd/network.  keys: the lines of authorized_keys; "other"   *)
(* is the key of system.ini with another comment, "torn" the beginning of  *)
(* a line, "glued" two lines in one.  open: the last line has no end.      *)
SettingsType ==
  [files : [Files -> Writers],
   hostname : [by : Writers \cup {"generated"}, at : 0..MaxBoots],
   network : SUBSET {"user", "static", "dhcp"},
   keys : Seq({"user", "ini", "other", "torn", "glued"}), open : BOOLEAN]

Hostname(by) == [by |-> by, at |-> 0]

Delivered(hostname) ==
  [files |-> [n \in Files |-> IF n \in {"autologin", "wifi"} THEN "none" ELSE "image"],
   hostname |-> hostname, network |-> {}, keys |-> <<>>, open |-> FALSE]

(* Mutant of InitHooks: the address before wifi.                           *)
InitHooksAddressFirst ==
  <<"hostname", "address", "wifi", "password", "timezone", "locale", "keymap", "ssh_key",
    "autologin">>

InitHooks ==
  <<"hostname", "wifi", "address", "password", "timezone", "locale", "keymap", "ssh_key",
    "autologin">>

(* "upkeep": setup_zram_swap and invalidate_ld_cache.                      *)
InitlibHooks ==
  <<"hostname", "address", "password", "timezone", "locale", "keymap", "wifi", "openvpn",
    "zabbix", "ssh_key", "upkeep">>

Hooks ==
  [init |-> InitHooks, xen |-> <<"hostname">>, initlib |-> InitlibHooks,
   systemimg |-> <<>>, paravirt |-> <<>>]

(* The hooks that do something, or may, when system.ini does not name      *)
(* their setting: the others return at once.                               *)
Always == {"hostname", "autologin", "upkeep"}

Init ==
  /\ PowerInit
  /\ ini \in IF Hooks[program] = <<>> THEN {{}} ELSE Inis
  /\ root \in {Delivered(Hostname(by)) : by \in {"none", "image"}}
  /\ kept = root /\ hooks = {} /\ touched = {} /\ edits = 0

OtherPower == UNCHANGED <<machine, search, mounted, partition, env, flags, boots>>
-----------------------------------------------------------------------------
(* Of the hooks that are ahead, the first.                                 *)
Turn(h) ==
  /\ phase = "boot" /\ Ahead("configure") /\ h \in hooks
  /\ \E i \in DOMAIN Hooks[program] :
       Hooks[program][i] = h /\ \A j \in 1..(i - 1) : Hooks[program][j] \notin hooks

Done(h) ==
  /\ hooks' = hooks \ {h}
  /\ todo' = IF hooks = {h} THEN Tail(todo) ELSE todo
  /\ UNCHANGED <<phase, ended>>

(* Mutant of Thrown: the hooks that are left are not passed over.          *)
ThrownStuck ==
  /\ hooks' = {} /\ UNCHANGED <<todo, phase, ended>>

(* An exception ends the optional configuration, which in initlib.cpp the  *)
(* shutdown environment is a part of.                                      *)
Thrown ==
  /\ hooks' = {}
  /\ todo' = IF program = "initlib" THEN <<"switch">> ELSE Tail(todo)
  /\ UNCHANGED <<phase, ended>>

(* A hook that is to leave the settings as new, and may leave them as one  *)
(* of broken if a call fails, which may throw, or the power goes.          *)
Write(h, new, broken, throws) ==
  /\ Turn(h)
  /\ touched' = touched \cup {h}
  /\ \/ Works /\ Done(h) /\ root' = new
     \/ Fails /\ Done(h) /\ root' \in broken
     \/ throws /\ Fails /\ Thrown /\ root' \in broken
     \/ Fails /\ GoOff("cut") /\ root' \in broken /\ UNCHANGED hooks
  /\ OtherPower /\ UNCHANGED <<ini, kept, edits>>

Pass(h, throws) ==
  /\ Turn(h)
  /\ \/ Works /\ Done(h)
     \/ throws /\ Fails /\ Thrown
  /\ OtherPower /\ UNCHANGED <<ini, root, touched, kept, edits>>

By(p) == program = p
File(n, by) == [root EXCEPT !.files[n] = by]
Named(n) == n \in ini
-----------------------------------------------------------------------------
Call(by, at) == [root EXCEPT !.hostname = [by |-> by, at |-> at]]

(* A random one: each boot has one of its own.                             *)
Generated == Call("generated", boots)

(* The file is opened, and emptied with that, before it is written.        *)
WriteHostname(new) == Write("hostname", new, {root, Call("empty", 0)}, FALSE)

InitSetupHostname ==
  /\ By("init")
  /\ IF Named("hostname") THEN WriteHostname(Call("ini", 0)) ELSE Pass("hostname", FALSE)

(* In a virtual machine without a name each boot has one of its own, or    *)
(* none is set as there is no xenstore.                                    *)
XenSetupHostname ==
  /\ By("xen")
  /\ IF Named("hostname") THEN WriteHostname(Call("ini", 0))
     ELSE WriteHostname(Generated) \/ Pass("hostname", FALSE)

(* Mutant of NeedsName: a generated name is not kept.                      *)
NeedsNameAlways == root.hostname.by \notin {"user", "ini", "image"}

(* init.cpp asks for the file in the new root.                             *)
NeedsName == root.hostname.by = "none"

(* initlib.cpp asks for one in the read-write layer: it replaces the name  *)
(* the image comes with.                                                   *)
InitlibSetupHostname ==
  /\ By("initlib")
  /\ CASE Named("hostname") -> WriteHostname(Call("ini", 0))
       [] ~Named("hostname") /\ root.hostname.by \in {"none", "image"} -> WriteHostname(Generated)
       [] OTHER -> Pass("hostname", FALSE)

(* do_init after the hooks, whether or not one of them has thrown.         *)
GenerateHostname ==
  /\ phase = "boot" /\ Ahead("generate")
  /\ \/ ~NeedsName /\ Works /\ Advance /\ UNCHANGED <<root, touched, ended>>
     \/ /\ NeedsName /\ touched' = touched \cup {"hostname"}
        /\ \/ Works /\ Advance /\ root' = Generated /\ UNCHANGED ended
           \/ /\ Fails /\ root' \in {root, Call("empty", 0)}
              /\ \/ Advance /\ UNCHANGED ended
                 \/ GoOff("cut")
  /\ OtherPower /\ UNCHANGED <<ini, hooks, kept, edits>>
-----------------------------------------------------------------------------
(* set_network_config of init.cpp empties the directory first, and may not *)
(* get further.                                                            *)
Only(r, kinds) == [r EXCEPT !.network = kinds]
Emptied(r) == {Only(r, kinds) : kinds \in SUBSET r.network}

InitSetupNetwork ==
  By("init") /\ Write("address", Only(root, {"static"}), Emptied(root), TRUE)

(* set_static_ip_address of initlib.cpp adds a file.                       *)
Static(r) == Only(r, r.network \cup {"static"})

InitlibSetupNetwork == By("initlib") /\ Write("address", Static(root), {root}, TRUE)

(* wpa_supplicant-wlan0.conf, and the unit enabled.                        *)
Supplicant == File("wifi", "ini")

(* DHCP on every interface, instead of what is there.                      *)
InitSetupWifi ==
  /\ By("init")
  /\ Write("wifi", Only(Supplicant, {"dhcp"}),
           {root, File("wifi", "empty")} \cup Emptied(Supplicant), TRUE)

(* DHCP on wlan0, in a file of its own.                                    *)
SupplicantAndDhcp == Only(Supplicant, root.network \cup {"dhcp"})

InitlibSetupWifi ==
  /\ By("initlib")
  /\ Write("wifi", SupplicantAndDhcp, {root, File("wifi", "empty"), Supplicant}, FALSE)
-----------------------------------------------------------------------------
(* chpasswd and passwd -d replace the file.                                *)
Password == File("password", "ini")

InitSetupPassword == By("init") /\ Write("password", Password, {root}, FALSE)

(* initlib.cpp does not connect chpasswd to its pipe: it waits for the     *)
(* console,                                                                *)
WaitsForConsole == By("initlib") /\ Turn("password")

(* and sets nothing.                                                       *)
PasswordNotSet == root

InitlibSetupPassword == By("initlib") /\ Write("password", PasswordNotSet, {root}, FALSE)

(* The link is removed, and set.                                           *)
WriteTimezone(new) == Write("timezone", new, {root, File("timezone", "none")}, FALSE)

InitSetupTimezone == By("init") /\ WriteTimezone(File("timezone", "ini"))

(* A link to the zone as seen in the initramfs, which leads nowhere in the *)
(* new root.                                                               *)
DanglingZone == File("timezone", "broken")

InitlibSetupTimezone == By("initlib") /\ WriteTimezone(DanglingZone)

(* A file of one line, locale.conf or vconsole.conf.                       *)
WriteText(n) == Write(n, File(n, "ini"), {root, File(n, "empty")}, FALSE)

InitSetupLocale == By("init") /\ WriteText("locale")
InitSetupKeymap == By("init") /\ WriteText("keymap")
InitlibSetupLocale == By("initlib") /\ WriteText("locale")
InitlibSetupKeymap == By("initlib") /\ WriteText("keymap")
-----------------------------------------------------------------------------
(* A line put at the end of a file whose last line has none is a part of   *)
(* that one.                                                               *)
AddLine(line, open) ==
  [root EXCEPT
     !.keys = IF root.open THEN Append(Front(@), "glued") ELSE Append(@, line),
     !.open = open]

(* Mutant of Authorized: whole lines are compared.                         *)
AuthorizedLine == "ini" \in ToSet(root.keys)

(* A line with the type and the key of the one to add, whatever its rest.  *)
Authorized == ToSet(root.keys) \cap {"ini", "other"} # {}

TornLines == {AddLine("torn", TRUE), AddLine("ini", TRUE)}

InitSetupSshKey ==
  /\ By("init")
  /\ IF Authorized THEN Pass("ssh_key", TRUE)
     ELSE Write("ssh_key", AddLine("ini", FALSE), {root} \cup TornLines, TRUE)

(* initlib.cpp does not create /root/.ssh, and does not look at whether    *)
(* the line went out.                                                      *)
AddedIfThere == {AddLine("ini", FALSE)} \cup (IF root.keys = <<>> THEN {root} ELSE {})

InitlibSetupSshKey ==
  /\ By("initlib")
  /\ IF Authorized THEN Pass("ssh_key", FALSE)
     ELSE \E new \in AddedIfThere : Write("ssh_key", new, {root} \cup TornLines, FALSE)

(* Switched on, or off if it is on.                                        *)
InitSetupAutologin ==
  /\ By("init")
  /\ CASE Named("autologin") ->
            Write("autologin", File("autologin", "ini"), {root, File("autologin", "empty")}, TRUE)
       [] ~Named("autologin") /\ root.files["autologin"] # "none" ->
            Write("autologin", File("autologin", "none"), {root}, TRUE)
       [] OTHER -> Pass("autologin", FALSE)

(* Copies from the boot partition (named: they are there).                 *)
InitlibSetupOpenvpn ==
  Write("openvpn", File("openvpn", "ini"), {root, File("openvpn", "empty")}, TRUE)

(* sed -i, which replaces the file.                                        *)
InitlibSetupZabbix == Write("zabbix", File("zabbix", "ini"), {root}, FALSE)

(* setup_zram_swap and invalidate_ld_cache: the results are not looked at, *)
(* but remove may throw.                                                   *)
InitlibUpkeep == Pass("upkeep", TRUE)

(* The hooks but InitlibSetupPassword, which may never end.                *)
Hook ==
  \/ InitSetupHostname \/ XenSetupHostname \/ InitlibSetupHostname
  \/ InitSetupNetwork \/ InitlibSetupNetwork \/ InitSetupWifi \/ InitlibSetupWifi
  \/ InitSetupPassword \/ InitSetupTimezone \/ InitlibSetupTimezone
  \/ InitSetupLocale \/ InitlibSetupLocale \/ InitSetupKeymap \/ InitlibSetupKeymap
  \/ InitSetupSshKey \/ InitlibSetupSshKey \/ InitSetupAutologin
  \/ InitlibSetupOpenvpn \/ InitlibSetupZabbix \/ InitlibUpkeep
-----------------------------------------------------------------------------
(* What is not on a disk is gone; the hooks of the program are ahead.      *)
Start(hinted) ==
  /\ PowerOn(hinted)
  /\ hooks' = ToSet(Hooks[program]) \cap (ini \cup Always)
  /\ root' = IF machine.persistent THEN root ELSE Delivered(Hostname("image"))
  /\ UNCHANGED <<ini, touched, kept, edits>>

(* A session begins, or ends: what the boots touch counts from there.      *)
SessionBegins == SwitchRoot /\ UNCHANGED settings
SessionEnds == kept' = root /\ touched' = {}

Stop == ShutDown /\ SessionEnds /\ UNCHANGED <<ini, root, hooks, edits>>

Fall ==
  /\ PowerFailure
  /\ IF phase = "up" THEN SessionEnds ELSE UNCHANGED <<touched, kept>>
  /\ UNCHANGED <<ini, root, hooks, edits>>

LineByUser(line, open) == [root EXCEPT !.keys = Append(@, line), !.open = open]

(* What the user, or a service, does to the files the hooks write.         *)
ByUser ==
  {Call("user", 0), Call("none", 0), File("timezone", "user"),
   Only(root, root.network \cup {"user"})}
    \cup {LineByUser(line, open) :
            line \in {"user"} \cup (IF Authorized THEN {} ELSE {"other"}), open \in BOOLEAN}

Edit ==
  /\ phase = "up" /\ Hooks[program] # <<>> /\ edits < MaxEdits
  /\ edits' = edits + 1
  /\ \/ root' \in ByUser \ {root} /\ UNCHANGED ini
     \/ ini' \in Inis \ {ini} /\ UNCHANGED root
  /\ UNCHANGED <<power, hooks, touched, kept>>

Next ==
  \/ \E hinted \in BOOLEAN : Start(hinted)
  \/ BootStep /\ UNCHANGED settings
  \/ DownStep /\ UNCHANGED settings
  \/ Hook \/ InitlibSetupPassword \/ GenerateHostname
  \/ SessionBegins \/ Stop \/ Fall \/ Edit

Spec == Init /\ [][Next]_vars

(* Process 1 goes on with its sequence.  Not so chpasswd of initlib.cpp,   *)
(* which waits for the console.                                            *)
Fairness ==
  /\ WF_vars(BootStep /\ UNCHANGED settings)
  /\ WF_vars(DownStep /\ UNCHANGED settings)
  /\ WF_vars(Hook \/ GenerateHostname)
  /\ WF_vars(SessionBegins)

FairSpec == Spec /\ Fairness
-----------------------------------------------------------------------------
TypeOK ==
  /\ PowerTypeOK
  /\ ini \in SUBSET Names /\ touched \in SUBSET Names
  /\ root \in SettingsType /\ kept \in SettingsType
  /\ root.open => root.keys # <<>>
  /\ hooks \in SUBSET (Names \cup {"upkeep"})
  /\ Ahead("configure") => hooks # {}
  /\ edits \in 0..MaxEdits

(* What initlib.cpp is asked for and does not do.                          *)
Neglected ==
  IF program = "initlib"
  THEN {"password", "timezone"} \cup (IF root.keys = <<>> THEN {"ssh_key"} ELSE {})
  ELSE {}

InForce(n) ==
  CASE n = "hostname" -> root.hostname.by = "ini"
    [] n = "address" -> "static" \in root.network
    [] n = "wifi" -> root.files["wifi"] = "ini" /\ root.network \cap {"dhcp", "static"} # {}
    [] n = "ssh_key" -> Authorized \/ Last(root.keys) = "glued"
    [] OTHER -> root.files[n] = "ini"

(* After a boot in which no call has failed, whatever the boots, power     *)
(* failures and sessions before it have left in the files, each setting    *)
(* that system.ini names is in force in the root that is switched to, the  *)
(* address also where wifi is named: except a key put behind a line that   *)
(* has no end, and what initlib.cpp neglects.                              *)
NamedInForce ==
  phase = "boot" /\ Ahead("switch") /\ calm =>
    \A n \in (ini \cap ToSet(Hooks[program])) \ Neglected : InForce(n)

(* The settings that the hooks may change though nothing names them: init  *)
(* empties the network directory for wifi or an address and takes its      *)
(* autologin back, a virtual machine is given a new name, and a name that  *)
(* is missing, or the image's in initlib.cpp, is replaced.                 *)
Replaced(n) ==
  CASE n = "hostname" -> program = "xen" \/ kept.hostname.by \in {"none", "image"}
    [] n = "address" -> touched \cap {"wifi", "address"} # {}
    [] n = "autologin" -> program = "init"
    [] OTHER -> FALSE

Same(n) ==
  CASE n = "hostname" -> root.hostname = kept.hostname
    [] n = "address" -> root.network = kept.network
    [] n = "ssh_key" -> root.keys = kept.keys
    [] OTHER -> root.files[n] = kept.files[n]

(* On a machine that keeps its layer, boots, complete or not, leave what   *)
(* system.ini does not name as the last session left it: a name that was   *)
(* generated once and the user's own changes survive.                      *)
SettingsStay ==
  machine.persistent /\ phase # "up" =>
    \A n \in Names \ ini : Same(n) \/ Replaced(n)

(* However often a boot adds the key of system.ini, and whatever was cut   *)
(* off in between, it is in authorized_keys at most once, also where the   *)
(* user has it with another comment.                                       *)
KeysOnce ==
  \A i, j \in DOMAIN root.keys :
    {root.keys[i], root.keys[j]} \subseteq {"ini", "other"} => i = j

(* A boot ends in a running system, a halt or the end of process 1, and a  *)
(* shutdown with the machine off or that end, whether or not the boot      *)
(* partition ever appears; unless chpasswd waits for the console.          *)
SequencesEnd ==
  (phase \in {"find", "boot", "down"}) ~>
    (phase \in {"off", "up", "panic"} \/ WaitsForConsole)
=============================================================================
