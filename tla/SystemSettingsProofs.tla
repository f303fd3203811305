------------------------ MODULE SystemSettingsProofs ------------------------
(***************************************************************************)
(* Proofs about the settings, for any fleet of machines, any system.ini,   *)
(* and any number of boots, mishaps and edits.                             *)
(***************************************************************************)
EXTENDS PowerCycleProofs

Lines == {"user", "ini", "other", "torn", "glued"}

SettingsOK ==
  /\ ini \in SUBSET Names /\ touched \in SUBSET Names
  /\ root \in SettingsType /\ kept \in SettingsType
  /\ root.open => root.keys # <<>>

EditsOK == edits \in 0..MaxEdits

(* The hooks ahead while a boot has not come past them.                    *)
HooksInv ==
  /\ hooks \subseteq Names \cup {"upkeep"}
  /\ phase \in {"find", "boot"} =>
       /\ hooks \subseteq ToSet(Hooks[program]) \cap (ini \cup Always)
       /\ "configure" \in Left <=> hooks # {}
       /\ program = "init" /\ "wifi" \in hooks /\ "address" \in ini => "address" \in hooks

(* Of a boot in which no call has failed: the settings whose hooks have    *)
(* run are in force.                                                       *)
ForceInv ==
  phase \in {"find", "boot"} /\ calm =>
    \A n \in (ini \cap ToSet(Hooks[program])) \ (Neglected \cup hooks) : InForce(n)
-----------------------------------------------------------------------------
(* Part 1: what a hook may write.                                          *)

LEMMA SettingsParts ==
  ASSUME NEW r
  PROVE  r \in SettingsType <=>
           /\ r = [files |-> r.files, hostname |-> r.hostname, network |-> r.network, keys |-> r.keys,
                   open |-> r.open]
           /\ r.files \in [Files -> Writers]
           /\ r.hostname \in [by : Writers \cup {"generated"}, at : 0..MaxBoots]
           /\ r.network \in SUBSET {"user", "static", "dhcp"}
           /\ r.keys \in Seq(Lines) /\ r.open \in BOOLEAN
BY DEF SettingsType, Lines

(* What the settings are after a hook, beside its own.                     *)
Keeps(h, r) ==
  /\ r \in SettingsType /\ (r.open => r.keys # <<>>)
  /\ h # "hostname" => r.hostname = root.hostname
  /\ h \notin {"wifi", "address"} => r.network = root.network
  /\ h # "ssh_key" => r.keys = root.keys /\ r.open = root.open
  /\ \A n \in Files \ {h} : r.files[n] = root.files[n]

LEMMA RootKept == ASSUME SettingsOK, NEW h PROVE Keeps(h, root)
BY DEF SettingsOK, Keeps

LEMMA FileKept ==
  ASSUME SettingsOK, NEW n \in Files, NEW by \in Writers
  PROVE  Keeps(n, File(n, by)) /\ File(n, by).files[n] = by
<1>1. File(n, by) = [files |-> [root.files EXCEPT ![n] = by], hostname |-> root.hostname,
                     network |-> root.network, keys |-> root.keys, open |-> root.open]
  <2>1. PICK f, hostname, network, keys, open :
          root = [files |-> f, hostname |-> hostname, network |-> network, keys |-> keys, open |-> open]
    BY SettingsParts DEF SettingsOK
  <2> QED
    BY <2>1 DEF File
<1>2. n # "hostname" /\ n # "address" /\ n # "ssh_key"
  BY DEF Files
<1>3. /\ root.files \in [Files -> Writers]
      /\ root.hostname \in [by : Writers \cup {"generated"}, at : 0..MaxBoots]
      /\ root.network \in SUBSET {"user", "static", "dhcp"}
      /\ root.keys \in Seq(Lines) /\ root.open \in BOOLEAN /\ (root.open => root.keys # <<>>)
  BY SettingsParts DEF SettingsOK
<1>4. [root.files EXCEPT ![n] = by] \in [Files -> Writers]
  BY <1>3
<1>5. File(n, by) \in SettingsType
  BY <1>1, <1>3, <1>4, SettingsParts
<1>6. File(n, by).files[n] = by /\ \A m \in Files \ {n} : File(n, by).files[m] = root.files[m]
  BY <1>1, <1>3
<1>7. /\ File(n, by).hostname = root.hostname /\ File(n, by).network = root.network
      /\ File(n, by).keys = root.keys /\ File(n, by).open = root.open
  BY <1>1
<1> QED
  BY <1>2, <1>3, <1>5, <1>6, <1>7 DEF Keeps

LEMMA CallKept ==
  ASSUME SettingsOK, NEW by \in Writers \cup {"generated"}, NEW at \in 0..MaxBoots
  PROVE  Keeps("hostname", Call(by, at)) /\ Call(by, at).hostname.by = by
<1>1. Call(by, at) = [files |-> root.files, hostname |-> [by |-> by, at |-> at],
                      network |-> root.network, keys |-> root.keys, open |-> root.open]
  <2>1. PICK f, hostname, network, keys, open :
          root = [files |-> f, hostname |-> hostname, network |-> network, keys |-> keys, open |-> open]
    BY SettingsParts DEF SettingsOK
  <2> QED
    BY <2>1 DEF Call
<1>2. /\ Call(by, at).hostname = [by |-> by, at |-> at] /\ Call(by, at).files = root.files
      /\ Call(by, at).network = root.network /\ Call(by, at).keys = root.keys /\ Call(by, at).open = root.open
  BY <1>1
<1>3. Call(by, at) \in SettingsType
  BY <1>1, <1>2, SettingsParts DEF SettingsOK
<1> QED
  BY <1>2, <1>3 DEF SettingsOK, Keeps

LEMMA OnlyKept ==
  ASSUME NEW h \in {"wifi", "address"}, NEW r, Keeps(h, r), NEW kinds \in SUBSET {"user", "static", "dhcp"}
  PROVE  /\ Keeps(h, Only(r, kinds))
         /\ Only(r, kinds).network = kinds /\ Only(r, kinds).files = r.files
<1>1. Only(r, kinds) = [files |-> r.files, hostname |-> r.hostname, network |-> kinds, keys |-> r.keys,
                        open |-> r.open]
  BY DEF Only, Keeps, SettingsType
<1> QED
  BY <1>1, SettingsParts DEF Keeps

LEMMA LineKept ==
  ASSUME SettingsOK, NEW line \in Lines, NEW open \in BOOLEAN
  PROVE  /\ Keeps("ssh_key", AddLine(line, open)) /\ AddLine(line, open).keys # <<>>
         /\ AddLine(line, open).keys =
              IF root.open THEN Append(Front(root.keys), "glued") ELSE Append(root.keys, line)
<1> DEFINE keys == IF root.open THEN Append(Front(root.keys), "glued") ELSE Append(root.keys, line)
<1>1. AddLine(line, open) = [root EXCEPT !.keys = keys, !.open = open]
  BY DEF AddLine
<1>2. root.keys \in Seq(Lines) /\ (root.open => root.keys # <<>>)
  BY SettingsParts DEF SettingsOK
<1>3. root.open => Front(root.keys) \in Seq(Lines)
  BY <1>2 DEF Front
<1>4. keys \in Seq(Lines) /\ keys # <<>>
  <2>1. CASE root.open
    <3>1. Append(Front(root.keys), "glued") \in Seq(Lines) /\ Append(Front(root.keys), "glued") # <<>>
      BY <1>3, <2>1, AppendProperties DEF Lines
    <3> QED
      BY <2>1, <3>1
  <2>2. CASE ~root.open
    <3>1. Append(root.keys, line) \in Seq(Lines) /\ Append(root.keys, line) # <<>>
      BY <1>2, AppendProperties
    <3> QED
      BY <2>2, <3>1
  <2> QED
    BY <2>1, <2>2
<1> HIDE DEF keys
<1>5. AddLine(line, open) = [files |-> root.files, hostname |-> root.hostname, network |-> root.network,
                             keys |-> keys, open |-> open]
  BY <1>1 DEF SettingsOK, SettingsType
<1>6. /\ AddLine(line, open).files = root.files /\ AddLine(line, open).hostname = root.hostname
      /\ AddLine(line, open).network = root.network /\ AddLine(line, open).keys = keys
      /\ AddLine(line, open).open = open
  BY <1>5
<1>7. AddLine(line, open) \in SettingsType
  BY <1>4, <1>5, <1>6, SettingsParts DEF SettingsOK
<1>8. Keeps("ssh_key", AddLine(line, open))
  BY <1>4, <1>6, <1>7 DEF Keeps
<1> QED
  BY <1>4, <1>6, <1>8 DEF keys
-----------------------------------------------------------------------------
(* Part 2: what each hook does.                                            *)

(* The settings of a hook that is named are in force in r, beside what     *)
(* initlib.cpp neglects.                                                   *)
Forces(h, r) ==
  /\ h = "hostname" /\ h \in ini => r.hostname.by = "ini"
  /\ h = "address" => "static" \in r.network
  /\ h = "wifi" =>
       /\ r.files["wifi"] = "ini" /\ r.network \cap {"dhcp", "static"} # {}
       /\ program # "init" /\ "static" \in root.network => "static" \in r.network
  /\ h = "ssh_key" =>
       \/ ToSet(r.keys) \cap {"ini", "other"} # {} \/ Last(r.keys) = "glued"
       \/ program = "initlib" /\ r.keys = <<>>
  /\ h \in (Files \ {"wifi"}) \cap ini =>
       r.files[h] = "ini" \/ (program = "initlib" /\ h \in {"password", "timezone"})

(* A name that is not in system.ini is only replaced where that is meant.  *)
Entitled(h) ==
  h = "hostname" =>
    h \in ini \/ program = "xen" \/ (program = "initlib" /\ root.hostname.by \in {"none", "image"})

(* What is put behind the lines there are.                                 *)
AddsLine(r) ==
  \/ r.keys = root.keys
  \/ \E line \in {"ini", "torn"}, open \in BOOLEAN : ~Authorized /\ r.keys = AddLine(line, open).keys

Good(h, r) == Keeps(h, r) /\ AddsLine(r)

Hooked(h) ==
  /\ Turn(h) /\ UNCHANGED <<ini, kept, edits>>
  /\ Good(h, root')
  /\ \/ root' = root /\ touched' = touched
     \/ h \in Names /\ touched' = touched \cup {h} /\ Entitled(h)
  /\ calm' => calm /\ Done(h) /\ Forces(h, root')
  /\ Done(h) \/ Thrown \/ (phase' = "off" /\ UNCHANGED hooks)

LEMMA WriteHooked ==
  ASSUME NEW h \in Names, NEW new, NEW broken, NEW throws \in BOOLEAN, Write(h, new, broken, throws),
         Good(h, new), \A r \in broken : Good(h, r), Forces(h, new), Entitled(h)
  PROVE  Hooked(h)
<1>1. Turn(h) /\ touched' = touched \cup {h} /\ UNCHANGED <<ini, kept, edits>>
  BY DEF Write
<1>2. root' = new \/ root' \in broken
  BY DEF Write
<1>3. calm' => calm /\ Done(h) /\ root' = new
  BY DEF Write, Works, Fails
<1>4. Done(h) \/ Thrown \/ (phase' = "off" /\ UNCHANGED hooks)
  BY DEF Write, GoOff
<1> QED
  BY <1>1, <1>2, <1>3, <1>4 DEF Hooked

LEMMA PassHooked ==
  ASSUME NEW h, NEW throws \in BOOLEAN, Pass(h, throws), SettingsOK, Forces(h, root)
  PROVE  Hooked(h)
<1>1. Turn(h) /\ UNCHANGED <<ini, root, touched, kept, edits>>
  BY DEF Pass
<1>2. Good(h, root)
  BY RootKept DEF Good, AddsLine
<1>3. calm' => calm /\ Done(h)
  BY DEF Pass, Works, Fails
<1>4. Done(h) \/ Thrown
  BY DEF Pass
<1> QED
  BY <1>1, <1>2, <1>3, <1>4 DEF Hooked

LEMMA RootGood == ASSUME SettingsOK, NEW h PROVE Good(h, root)
BY RootKept DEF Good, AddsLine

LEMMA FileGood ==
  ASSUME SettingsOK, NEW n \in Files, NEW by \in Writers
  PROVE  Good(n, File(n, by)) /\ File(n, by).files[n] = by
<1>1. n # "ssh_key"
  BY DEF Files
<1> QED
  BY <1>1, FileKept DEF Good, AddsLine, Keeps

LEMMA CallGood ==
  ASSUME SettingsOK, NEW by \in Writers \cup {"generated"}, NEW at \in 0..MaxBoots
  PROVE  Good("hostname", Call(by, at)) /\ Call(by, at).hostname.by = by
BY CallKept DEF Good, AddsLine, Keeps

LEMMA OnlyGood ==
  ASSUME NEW h \in {"wifi", "address"}, NEW r, Good(h, r), NEW kinds \in SUBSET {"user", "static", "dhcp"}
  PROVE  /\ Good(h, Only(r, kinds))
         /\ Only(r, kinds).network = kinds /\ Only(r, kinds).files = r.files
<1>1. Keeps(h, Only(r, kinds)) /\ Only(r, kinds).network = kinds /\ Only(r, kinds).files = r.files
  BY OnlyKept DEF Good
<1> QED
  BY <1>1 DEF Good, AddsLine, Keeps

LEMMA LineGood ==
  ASSUME SettingsOK, ~Authorized, NEW line \in {"ini", "torn"}, NEW open \in BOOLEAN
  PROVE  Good("ssh_key", AddLine(line, open)) /\ AddLine(line, open).keys # <<>>
<1>1. line \in Lines
  BY DEF Lines
<1> QED
  BY <1>1, LineKept DEF Good, AddsLine

LEMMA HostnameHooked ==
  ASSUME SettingsOK, CountsOK, InitSetupHostname \/ XenSetupHostname \/ InitlibSetupHostname
  PROVE  Hooked("hostname")
<1> DEFINE h == "hostname"
<1>0. /\ h \in Names /\ h \notin Files /\ h # "address" /\ h # "wifi" /\ h # "ssh_key"
      /\ {"ini", "empty"} \subseteq Writers /\ boots \in 0..MaxBoots /\ 0 \in 0..MaxBoots
  BY PowerAssumption DEF Names, Files, Writers, CountsOK, PowerAssumption
<1> HIDE DEF h
<1>1. Good(h, root) /\ Good(h, Call("empty", 0))
  BY <1>0, RootGood, CallGood DEF h
<1>2. CASE h \in ini /\ WriteHostname(Call("ini", 0))
  <2>1. Good(h, Call("ini", 0)) /\ Call("ini", 0).hostname.by = "ini"
    BY <1>0, CallGood DEF h
  <2>2. Forces(h, Call("ini", 0)) /\ Entitled(h)
    BY <1>0, <1>2, <2>1 DEF Forces, Entitled
  <2>3. PICK broken : broken = {root, Call("empty", 0)} /\ Write(h, Call("ini", 0), broken, FALSE)
    BY <1>2 DEF WriteHostname, h
  <2>4. \A r \in broken : Good(h, r)
    BY <1>1, <2>3
  <2> QED
    BY <1>0, <2>1, <2>2, <2>3, <2>4, WriteHooked DEF h
<1>3. CASE h \notin ini /\ WriteHostname(Generated) /\ Entitled(h)
  <2>1. Good(h, Generated)
    BY <1>0, CallGood DEF h, Generated
  <2>2. Forces(h, Generated)
    BY <1>0, <1>3 DEF Forces
  <2>3. PICK broken : broken = {root, Call("empty", 0)} /\ Write(h, Generated, broken, FALSE)
    BY <1>3 DEF WriteHostname, h
  <2>4. \A r \in broken : Good(h, r)
    BY <1>1, <2>3
  <2> QED
    BY <1>0, <1>3, <2>1, <2>2, <2>3, <2>4, WriteHooked DEF h
<1>4. CASE h \notin ini /\ Pass(h, FALSE)
  <2>1. Forces(h, root)
    BY <1>0, <1>4 DEF Forces
  <2> QED
    BY <1>4, <2>1, PassHooked DEF h
<1>5. CASE InitSetupHostname
  BY <1>2, <1>4, <1>5 DEF InitSetupHostname, Named, h
<1>6. CASE XenSetupHostname
  BY <1>2, <1>3, <1>4, <1>6 DEF XenSetupHostname, Named, By, Entitled, h
<1>7. CASE InitlibSetupHostname
  <2>1. program = "initlib"
    BY <1>7 DEF InitlibSetupHostname, By
  <2>2. CASE h \in ini
    BY <1>2, <1>7, <2>2 DEF InitlibSetupHostname, Named, h
  <2>3. CASE h \notin ini /\ root.hostname.by \in {"none", "image"}
    BY <1>3, <1>7, <2>1, <2>3 DEF InitlibSetupHostname, Named, Entitled, h
  <2>4. CASE h \notin ini /\ root.hostname.by \notin {"none", "image"}
    BY <1>4, <1>7, <2>4 DEF InitlibSetupHostname, Named, h
  <2> QED
    BY <2>2, <2>3, <2>4
<1> QED
  BY <1>5, <1>6, <1>7

LEMMA NetworkHooked ==
  ASSUME SettingsOK, InitSetupNetwork \/ InitlibSetupNetwork
  PROVE  Hooked("address")
<1> DEFINE h == "address"
<1>0. h \in Names /\ h \notin Files /\ h \notin {"hostname", "wifi", "ssh_key"} /\ h \in {"wifi", "address"}
  BY DEF Names, Files
<1> HIDE DEF h
<1>1. Good(h, root) /\ root.network \in SUBSET {"user", "static", "dhcp"}
  BY RootGood, SettingsParts DEF SettingsOK
<1>2. \A kinds \in SUBSET {"user", "static", "dhcp"} :
        Good(h, Only(root, kinds)) /\ Only(root, kinds).network = kinds
  BY <1>0, <1>1, OnlyGood
<1>3. \A r \in Emptied(root) : Good(h, r)
  BY <1>1, <1>2 DEF Emptied
<1>4. \A kinds \in SUBSET {"user", "static", "dhcp"} : "static" \in kinds => Forces(h, Only(root, kinds))
  BY <1>0, <1>2 DEF Forces
<1>5. Entitled(h)
  BY <1>0 DEF Entitled
<1>6. CASE InitSetupNetwork
  <2>1. Good(h, Only(root, {"static"})) /\ Forces(h, Only(root, {"static"}))
    BY <1>2, <1>4
  <2>2. Write(h, Only(root, {"static"}), Emptied(root), TRUE)
    BY <1>6 DEF InitSetupNetwork, h
  <2> QED
    BY <1>0, <1>3, <1>5, <2>1, <2>2, WriteHooked
<1>7. CASE InitlibSetupNetwork
  <2>1. root.network \cup {"static"} \in SUBSET {"user", "static", "dhcp"}
    BY <1>1
  <2>2. Good(h, Static(root)) /\ Forces(h, Static(root))
    BY <1>2, <1>4, <2>1 DEF Static
  <2>3. PICK broken : broken = {root} /\ Write(h, Static(root), broken, TRUE)
    BY <1>7 DEF InitlibSetupNetwork, h
  <2>4. \A r \in broken : Good(h, r)
    BY <1>1, <2>3
  <2> QED
    BY <1>0, <1>5, <2>2, <2>3, <2>4, WriteHooked
<1> QED
  BY <1>6, <1>7

LEMMA WifiHooked ==
  ASSUME SettingsOK, InitSetupWifi \/ InitlibSetupWifi
  PROVE  Hooked("wifi")
<1> DEFINE h == "wifi"
<1>0. /\ h \in Names /\ h \in Files /\ h \notin {"hostname", "address", "ssh_key"} /\ h \in {"wifi", "address"}
      /\ {"ini", "empty"} \subseteq Writers
  BY DEF Names, Files, Writers
<1> HIDE DEF h
<1>1. Good(h, root) /\ root.network \in SUBSET {"user", "static", "dhcp"}
  BY RootGood, SettingsParts DEF SettingsOK
<1>2. /\ Good(h, File(h, "empty")) /\ Good(h, Supplicant)
      /\ Supplicant.files[h] = "ini" /\ Supplicant.network = root.network
  <2>1. Good(h, File(h, "empty")) /\ Good(h, File(h, "ini")) /\ File(h, "ini").files[h] = "ini"
    BY <1>0, FileGood
  <2>2. File(h, "ini").network = root.network
    BY DEF File, SettingsOK, SettingsType
  <2> QED
    BY <2>1, <2>2 DEF Supplicant, h
<1>3. \A kinds \in SUBSET {"user", "static", "dhcp"} :
        /\ Good(h, Only(Supplicant, kinds)) /\ Only(Supplicant, kinds).network = kinds
        /\ Only(Supplicant, kinds).files[h] = "ini"
  BY <1>0, <1>2, OnlyGood
<1>4. \A r \in Emptied(Supplicant) : Good(h, r)
  BY <1>1, <1>2, <1>3 DEF Emptied
<1>5. Entitled(h)
  BY <1>0 DEF Entitled
<1>6. CASE InitSetupWifi
  <2>1. Good(h, Only(Supplicant, {"dhcp"})) /\ program = "init"
    BY <1>3, <1>6 DEF InitSetupWifi, By
  <2>2. Forces(h, Only(Supplicant, {"dhcp"}))
    <3>1. Only(Supplicant, {"dhcp"}).network = {"dhcp"} /\ Only(Supplicant, {"dhcp"}).files["wifi"] = "ini"
      BY <1>3 DEF h
    <3> QED
      BY <1>0, <2>1, <3>1 DEF Forces, h
  <2>3. \A r \in {root, File("wifi", "empty")} \cup Emptied(Supplicant) : Good(h, r)
    BY <1>1, <1>2, <1>4 DEF h
  <2>4. Write(h, Only(Supplicant, {"dhcp"}), {root, File("wifi", "empty")} \cup Emptied(Supplicant), TRUE)
    BY <1>6 DEF InitSetupWifi, h
  <2> QED
    BY <1>0, <1>5, <2>1, <2>2, <2>3, <2>4, WriteHooked
<1>7. CASE InitlibSetupWifi
  <2>1. root.network \cup {"dhcp"} \in SUBSET {"user", "static", "dhcp"}
    BY <1>1
  <2>2. /\ Good(h, SupplicantAndDhcp) /\ SupplicantAndDhcp.network = root.network \cup {"dhcp"}
        /\ SupplicantAndDhcp.files["wifi"] = "ini"
    BY <1>3, <2>1 DEF SupplicantAndDhcp, h
  <2>3. Forces(h, SupplicantAndDhcp)
    BY <1>0, <2>2 DEF Forces, h
  <2>4. PICK broken :
          /\ broken = {root, File("wifi", "empty"), Supplicant}
          /\ Write(h, SupplicantAndDhcp, broken, FALSE)
    BY <1>7 DEF InitlibSetupWifi, h
  <2>5. \A r \in broken : Good(h, r)
    BY <1>1, <1>2, <2>4 DEF h
  <2> QED
    BY <1>0, <1>5, <2>2, <2>3, <2>4, <2>5, WriteHooked
<1> QED
  BY <1>6, <1>7

(* The hooks of a file of their own.                                       *)
LEMMA FileHooked ==
  ASSUME SettingsOK, NEW h \in Files \ {"wifi"}, NEW by \in Writers, NEW broken, NEW throws \in BOOLEAN,
         \A r \in broken : r = root \/ \E b \in Writers : r = File(h, b),
         by = "ini" \/ h \notin ini \/ (program = "initlib" /\ h \in {"password", "timezone"}),
         Write(h, File(h, by), broken, throws)
  PROVE  Hooked(h)
<1>1. h \in Names /\ h \notin {"hostname", "address", "wifi", "ssh_key"}
  BY DEF Files, Names
<1>2. Good(h, File(h, by)) /\ File(h, by).files[h] = by
  BY FileGood
<1>3. \A r \in broken : Good(h, r)
  BY RootGood, FileGood
<1>4. Forces(h, File(h, by)) /\ Entitled(h)
  BY <1>1, <1>2 DEF Forces, Entitled
<1> QED
  BY <1>1, <1>2, <1>3, <1>4, WriteHooked

LEMMA PasswordHooked ==
  ASSUME SettingsOK, InitSetupPassword \/ InitlibSetupPassword
  PROVE  Hooked("password")
<1>0. "password" \in Files \ {"wifi"} /\ "password" \in Names /\ "ini" \in Writers
  BY DEF Files, Names, Writers
<1>1. CASE InitSetupPassword
  <2>1. PICK broken : broken = {root} /\ Write("password", File("password", "ini"), broken, FALSE)
    BY <1>1 DEF InitSetupPassword, Password
  <2>2. \A r \in broken : r = root \/ \E b \in Writers : r = File("password", b)
    BY <1>0, <2>1
  <2> QED
    BY <1>0, <2>1, <2>2, FileHooked
<1>2. CASE InitlibSetupPassword
  <2>1. PICK broken : broken = {root} /\ Write("password", root, broken, FALSE) /\ program = "initlib"
    BY <1>2 DEF InitlibSetupPassword, PasswordNotSet, By
  <2>2. Good("password", root)
    BY RootGood
  <2>3. Forces("password", root) /\ Entitled("password")
    BY <2>1 DEF Forces, Entitled
  <2>4. \A r \in broken : Good("password", r)
    BY <2>1, <2>2
  <2> QED
    BY <1>0, <2>1, <2>2, <2>3, <2>4, WriteHooked
<1> QED
  BY <1>1, <1>2

LEMMA TimezoneHooked ==
  ASSUME SettingsOK, InitSetupTimezone \/ InitlibSetupTimezone
  PROVE  Hooked("timezone")
<1>0. "timezone" \in Files \ {"wifi"} /\ {"ini", "none", "broken"} \subseteq Writers
  BY DEF Files, Names, Writers
<1>1. CASE InitSetupTimezone
  <2>1. PICK broken :
          /\ broken = {root, File("timezone", "none")}
          /\ Write("timezone", File("timezone", "ini"), broken, FALSE)
    BY <1>1 DEF InitSetupTimezone, WriteTimezone
  <2>2. \A r \in broken : r = root \/ \E b \in Writers : r = File("timezone", b)
    BY <1>0, <2>1
  <2> QED
    BY <1>0, <2>1, <2>2, FileHooked
<1>2. CASE InitlibSetupTimezone
  <2>1. PICK broken :
          /\ broken = {root, File("timezone", "none")}
          /\ Write("timezone", File("timezone", "broken"), broken, FALSE)
    BY <1>2 DEF InitlibSetupTimezone, WriteTimezone, DanglingZone
  <2>2. program = "initlib"
    BY <1>2 DEF InitlibSetupTimezone, By
  <2>3. \A r \in broken : r = root \/ \E b \in Writers : r = File("timezone", b)
    BY <1>0, <2>1
  <2> QED
    BY <1>0, <2>1, <2>2, <2>3, FileHooked
<1> QED
  BY <1>1, <1>2

LEMMA TextHooked ==
  ASSUME SettingsOK, NEW n \in {"locale", "keymap"}, WriteText(n)
  PROVE  Hooked(n)
<1>0. n \in Files \ {"wifi"} /\ {"ini", "empty"} \subseteq Writers
  BY DEF Files, Names, Writers
<1>1. PICK broken : broken = {root, File(n, "empty")} /\ Write(n, File(n, "ini"), broken, FALSE)
  BY DEF WriteText
<1>2. \A r \in broken : r = root \/ \E b \in Writers : r = File(n, b)
  BY <1>0, <1>1
<1> QED
  BY <1>0, <1>1, <1>2, FileHooked

LEMMA CopiesHooked ==
  ASSUME SettingsOK
  PROVE  /\ InitlibSetupOpenvpn => Hooked("openvpn")
         /\ InitlibSetupZabbix => Hooked("zabbix")
<1>0. {"openvpn", "zabbix"} \subseteq Files \ {"wifi"} /\ {"ini", "empty"} \subseteq Writers
  BY DEF Files, Names, Writers
<1>1. ASSUME InitlibSetupOpenvpn PROVE Hooked("openvpn")
  <2>1. PICK broken :
          /\ broken = {root, File("openvpn", "empty")}
          /\ Write("openvpn", File("openvpn", "ini"), broken, TRUE)
    BY <1>1 DEF InitlibSetupOpenvpn
  <2>2. \A r \in broken : r = root \/ \E b \in Writers : r = File("openvpn", b)
    BY <1>0, <2>1
  <2> QED
    BY <1>0, <2>1, <2>2, FileHooked
<1>2. ASSUME InitlibSetupZabbix PROVE Hooked("zabbix")
  <2>1. PICK broken : broken = {root} /\ Write("zabbix", File("zabbix", "ini"), broken, FALSE)
    BY <1>2 DEF InitlibSetupZabbix
  <2>2. \A r \in broken : r = root \/ \E b \in Writers : r = File("zabbix", b)
    BY <1>0, <2>1
  <2> QED
    BY <1>0, <2>1, <2>2, FileHooked
<1> QED
  BY <1>1, <1>2

LEMMA AutologinHooked ==
  ASSUME SettingsOK, InitSetupAutologin
  PROVE  Hooked("autologin")
<1>0. "autologin" \in Files \ {"wifi"} /\ {"ini", "none", "empty"} \subseteq Writers
  BY DEF Files, Names, Writers
<1>1. CASE "autologin" \in ini
  <2>1. PICK broken :
          /\ broken = {root, File("autologin", "empty")}
          /\ Write("autologin", File("autologin", "ini"), broken, TRUE)
    BY <1>1 DEF InitSetupAutologin, Named
  <2>2. \A r \in broken : r = root \/ \E b \in Writers : r = File("autologin", b)
    BY <1>0, <2>1
  <2> QED
    BY <1>0, <2>1, <2>2, FileHooked
<1>2. CASE "autologin" \notin ini /\ root.files["autologin"] # "none"
  <2>1. PICK broken : broken = {root} /\ Write("autologin", File("autologin", "none"), broken, TRUE)
    BY <1>2 DEF InitSetupAutologin, Named
  <2>2. \A r \in broken : r = root \/ \E b \in Writers : r = File("autologin", b)
    BY <1>0, <2>1
  <2> QED
    BY <1>0, <1>2, <2>1, <2>2, FileHooked
<1>3. CASE "autologin" \notin ini /\ root.files["autologin"] = "none"
  <2>1. Pass("autologin", FALSE)
    BY <1>3 DEF InitSetupAutologin, Named
  <2>2. Forces("autologin", root)
    BY <1>3 DEF Forces
  <2> QED
    BY <2>1, <2>2, PassHooked
<1> QED
  BY <1>1, <1>2, <1>3

LEMMA AddedKey ==
  ASSUME SettingsOK, ~Authorized
  PROVE  /\ \A r \in {root} \cup TornLines : Good("ssh_key", r)
         /\ Good("ssh_key", AddLine("ini", FALSE)) /\ Forces("ssh_key", AddLine("ini", FALSE))
<1>1. /\ Good("ssh_key", AddLine("torn", TRUE)) /\ Good("ssh_key", AddLine("ini", TRUE))
      /\ Good("ssh_key", AddLine("ini", FALSE)) /\ Good("ssh_key", root)
  BY LineGood, RootGood
<1>2. ToSet(AddLine("ini", FALSE).keys) \cap {"ini", "other"} # {} \/ Last(AddLine("ini", FALSE).keys) = "glued"
  <2>1. AddLine("ini", FALSE).keys =
          IF root.open THEN Append(Front(root.keys), "glued") ELSE Append(root.keys, "ini")
    BY LineKept DEF Lines
  <2>2. root.keys \in Seq(Lines) /\ (root.open => root.keys # <<>>)
    BY SettingsParts DEF SettingsOK
  <2>3. CASE root.open
    <3>1. Front(root.keys) \in Seq(Lines)
      BY <2>2, <2>3 DEF Front
    <3>2. Last(Append(Front(root.keys), "glued")) = "glued"
      BY <3>1 DEF Last, Lines
    <3> QED
      BY <2>1, <2>3, <3>2
  <2>4. CASE ~root.open
    <3>1. /\ Append(root.keys, "ini")[Len(root.keys) + 1] = "ini"
          /\ Len(root.keys) + 1 \in DOMAIN Append(root.keys, "ini")
      BY <2>2 DEF Lines
    <3>2. "ini" \in ToSet(Append(root.keys, "ini"))
      BY <3>1 DEF ToSet
    <3> QED
      BY <2>1, <2>4, <3>2
  <2> QED
    BY <2>3, <2>4
<1>3. Forces("ssh_key", AddLine("ini", FALSE))
  BY <1>2 DEF Forces, Files
<1> QED
  BY <1>1, <1>3 DEF TornLines

LEMMA SshKeyHooked ==
  ASSUME SettingsOK, InitSetupSshKey \/ InitlibSetupSshKey
  PROVE  Hooked("ssh_key")
<1>0. "ssh_key" \in Names /\ "ssh_key" \notin Files /\ Entitled("ssh_key")
  BY DEF Names, Files, Entitled
<1>1. CASE Authorized
  <2>1. PICK throws \in BOOLEAN : Pass("ssh_key", throws)
    BY <1>1 DEF InitSetupSshKey, InitlibSetupSshKey
  <2>2. Forces("ssh_key", root)
    BY <1>0, <1>1 DEF Forces, Authorized
  <2> QED
    BY <2>1, <2>2, PassHooked
<1>2. CASE ~Authorized /\ InitSetupSshKey
  <2>1. Write("ssh_key", AddLine("ini", FALSE), {root} \cup TornLines, TRUE)
    BY <1>2 DEF InitSetupSshKey
  <2> QED
    BY <1>0, <1>2, <2>1, AddedKey, WriteHooked
<1>3. CASE ~Authorized /\ InitlibSetupSshKey
  <2>1. PICK new \in AddedIfThere : Write("ssh_key", new, {root} \cup TornLines, FALSE)
    BY <1>3 DEF InitlibSetupSshKey
  <2>2. program = "initlib"
    BY <1>3 DEF InitlibSetupSshKey, By
  <2>3. Good("ssh_key", new) /\ Forces("ssh_key", new)
    <3>1. CASE new = AddLine("ini", FALSE)
      BY <1>3, <3>1, AddedKey
    <3>2. CASE new = root /\ root.keys = <<>>
      <4>1. Forces("ssh_key", root)
        BY <1>0, <2>2, <3>2 DEF Forces
      <4> QED
        BY <3>2, <4>1, RootGood
    <3> QED
      BY <2>1, <3>1, <3>2 DEF AddedIfThere
  <2> QED
    BY <1>0, <1>3, <2>1, <2>3, AddedKey, WriteHooked
<1> QED
  BY <1>1, <1>2, <1>3

LEMMA UpkeepHooked ==
  ASSUME SettingsOK, InitlibUpkeep
  PROVE  Hooked("upkeep")
<1>1. Forces("upkeep", root)
  BY DEF Forces, Files, Names
<1> QED
  BY <1>1, PassHooked DEF InitlibUpkeep

LEMMA HookHooked ==
  ASSUME SettingsOK, CountsOK, Hook \/ InitlibSetupPassword
  PROVE  \E h \in Names \cup {"upkeep"} : Hooked(h)
<1>0. Names = {"hostname", "wifi", "address", "password", "timezone", "locale", "keymap", "ssh_key",
               "autologin", "openvpn", "zabbix"}
  BY DEF Names
<1>1. CASE InitSetupHostname \/ XenSetupHostname \/ InitlibSetupHostname
  BY <1>0, <1>1, HostnameHooked
<1>2. CASE InitSetupNetwork \/ InitlibSetupNetwork
  BY <1>0, <1>2, NetworkHooked
<1>3. CASE InitSetupWifi \/ InitlibSetupWifi
  BY <1>0, <1>3, WifiHooked
<1>4. CASE InitSetupPassword \/ InitlibSetupPassword
  BY <1>0, <1>4, PasswordHooked
<1>5. CASE InitSetupTimezone \/ InitlibSetupTimezone
  BY <1>0, <1>5, TimezoneHooked
<1>6. CASE InitSetupLocale \/ InitlibSetupLocale
  BY <1>0, <1>6, TextHooked DEF InitSetupLocale, InitlibSetupLocale
<1>7. CASE InitSetupKeymap \/ InitlibSetupKeymap
  BY <1>0, <1>7, TextHooked DEF InitSetupKeymap, InitlibSetupKeymap
<1>8. CASE InitSetupSshKey \/ InitlibSetupSshKey
  BY <1>0, <1>8, SshKeyHooked
<1>9. CASE InitSetupAutologin
  BY <1>0, <1>9, AutologinHooked
<1>10. CASE InitlibSetupOpenvpn \/ InitlibSetupZabbix
  BY <1>0, <1>10, CopiesHooked
<1>11. CASE InitlibUpkeep
  BY <1>11, UpkeepHooked
<1> QED
  BY <1>1, <1>2, <1>3, <1>4, <1>5, <1>6, <1>7, <1>8, <1>9, <1>10, <1>11 DEF Hook
-----------------------------------------------------------------------------
(* Part 3: the order of the hooks.                                         *)

LEMMA HooksKnown ==
  ASSUME machine \in MachineType
  PROVE  /\ ToSet(Hooks[program]) \subseteq Names \cup {"upkeep"}
         /\ program \in {"init", "xen", "initlib"} => "hostname" \in ToSet(Hooks[program])
         /\ program \notin {"init", "xen", "initlib"} => ToSet(Hooks[program]) = {}
         /\ "autologin" \in ToSet(Hooks[program]) => program = "init"
         /\ program = "init" => "address" \in ToSet(Hooks[program])
<1>1. program \in Programs
  BY DEF MachineType, program
<1>2. ToSet(InitHooks) = {"hostname", "wifi", "address", "password", "timezone", "locale", "keymap", "ssh_key",
                          "autologin"}
  <2> DEFINE P == InitHooks
  <2>1. DOMAIN P = 1..9
    BY DEF InitHooks
  <2>2. /\ P[1] = "hostname" /\ P[2] = "wifi" /\ P[3] = "address" /\ P[4] = "password" /\ P[5] = "timezone"
        /\ P[6] = "locale" /\ P[7] = "keymap" /\ P[8] = "ssh_key" /\ P[9] = "autologin"
    BY DEF InitHooks
  <2> HIDE DEF P
  <2>3. ToSet(P) = {"hostname", "wifi", "address", "password", "timezone", "locale", "keymap", "ssh_key",
                    "autologin"}
    BY <2>1, <2>2 DEF ToSet
  <2> QED
    BY <2>3 DEF P
<1>3. ToSet(InitlibHooks) = {"hostname", "address", "password", "timezone", "locale", "keymap", "wifi",
                             "openvpn", "zabbix", "ssh_key", "upkeep"}
  <2> DEFINE P == InitlibHooks
  <2>1. DOMAIN P = 1..11
    BY DEF InitlibHooks
  <2>2. /\ P[1] = "hostname" /\ P[2] = "address" /\ P[3] = "password" /\ P[4] = "timezone" /\ P[5] = "locale"
        /\ P[6] = "keymap" /\ P[7] = "wifi" /\ P[8] = "openvpn" /\ P[9] = "zabbix" /\ P[10] = "ssh_key"
        /\ P[11] = "upkeep"
    BY DEF InitlibHooks
  <2> HIDE DEF P
  <2>3. ToSet(P) = {"hostname", "address", "password", "timezone", "locale", "keymap", "wifi", "openvpn",
                    "zabbix", "ssh_key", "upkeep"}
    BY <2>1, <2>2 DEF ToSet
  <2> QED
    BY <2>3 DEF P
<1>4. ToSet(<<"hostname">>) = {"hostname"} /\ ToSet(<<>>) = {}
  BY DEF ToSet
<1>5. /\ Hooks["init"] = InitHooks /\ Hooks["xen"] = <<"hostname">> /\ Hooks["initlib"] = InitlibHooks
      /\ Hooks["systemimg"] = <<>> /\ Hooks["paravirt"] = <<>>
  BY DEF Hooks
<1> HIDE DEF program
<1> QED
  BY <1>1, <1>2, <1>3, <1>4, <1>5 DEF Programs, Names

(* init.cpp writes wifi before the address.                                *)
LEMMA WifiBeforeAddress == ASSUME Turn("address"), program = "init" PROVE "wifi" \notin hooks
<1> DEFINE P == InitHooks
<1>1. DOMAIN P = 1..9
  BY DEF InitHooks
<1>2. /\ P[1] = "hostname" /\ P[2] = "wifi" /\ P[3] = "address" /\ P[4] = "password" /\ P[5] = "timezone"
      /\ P[6] = "locale" /\ P[7] = "keymap" /\ P[8] = "ssh_key" /\ P[9] = "autologin"
  BY DEF InitHooks
<1>3. Hooks["init"] = P
  BY DEF Hooks
<1>4. PICK i \in DOMAIN Hooks[program] :
        Hooks[program][i] = "address" /\ \A j \in 1..(i - 1) : Hooks[program][j] \notin hooks
  BY DEF Turn
<1> HIDE DEF P
<1>5. i = 3
  BY <1>1, <1>2, <1>3, <1>4
<1>6. 2 \in 1..(i - 1)
  BY <1>5
<1> QED
  BY <1>2, <1>3, <1>4, <1>6

(* A shutdown configures nothing.                                          *)
LEMMA NothingToConfigure ==
  ASSUME machine \in MachineType, program # "paravirt"
  PROVE  "configure" \notin ToSet(DownPlan[program])
<1>1. program \in Programs \ {"paravirt"}
  BY DEF MachineType, program
<1>2. /\ DownPlan["init"] = InitShutdown /\ DownPlan["xen"] = XenShutdown
      /\ DownPlan["initlib"] = InitlibShutdown /\ DownPlan["systemimg"] = SystemimgShutdown
  BY DEF DownPlan
<1> QED
  BY <1>1, <1>2, InitShutdownOrder, XenShutdownOrder, InitlibShutdownOrder, SystemimgShutdownOrder
  DEF Programs

(* What else the machine does leaves the settings alone.                   *)
Quiet ==
  /\ UNCHANGED settings
  /\ UNCHANGED vars \/ LookUp \/ (BootStep /\ ~LookUp) \/ DownStep \/ SwitchRoot

LEMMA NextSettings ==
  ASSUME SettingsOK, CountsOK, [Next]_vars
  PROVE  \/ Quiet
         \/ \E hinted \in BOOLEAN : Start(hinted)
         \/ \E h \in Names \cup {"upkeep"} : Hooked(h)
         \/ GenerateHostname \/ Stop \/ Fall \/ Edit
<1>1. CASE UNCHANGED vars
  BY <1>1 DEF Quiet, vars
<1>2. CASE Hook \/ InitlibSetupPassword
  BY <1>2, HookHooked
<1>3. CASE (BootStep \/ DownStep) /\ UNCHANGED settings
  BY <1>3 DEF Quiet
<1>4. CASE SessionBegins
  BY <1>4 DEF Quiet, SessionBegins
<1> QED
  BY <1>1, <1>2, <1>3, <1>4 DEF Next

LEMMA HooksStep ==
  ASSUME PlanInv, SettingsOK, CountsOK, HooksInv, [Next]_vars
  PROVE  HooksInv'
<1> USE DEF HooksInv
<1>0. machine \in MachineType /\ UNCHANGED <<machine, program>>
  BY NextPower, SameMachine, MachineKnown DEF program, PlanInv
<1>1. CASE Quiet
  <2>0. UNCHANGED <<ini, hooks>>
    BY <1>1 DEF Quiet, settings
  <2>1. CASE UNCHANGED vars
    BY <1>0, <2>0, <2>1 DEF vars, power, Left
  <2>2. CASE LookUp
    BY <1>0, <2>0, <2>2, LookUpMoves DEF LookMoves, Left
  <2>3. CASE BootStep /\ ~LookUp /\ phase' = "boot"
    <3>1. phase = "boot" /\ UpOrder(todo) /\ Advance /\ Head(todo) # "switch"
      BY <2>3, BootStepMoves DEF BootMoves, PlanInv, Advance
    <3>2. Head(todo) # "configure"
      BY <2>3 DEF BootStep, CheckFat, MountBoot, WriteStamp, MoveMounts, CopyEnvironment, MoveEnvironment,
        SetUpEnvironment, MountLayer, Ahead
    <3>3. "configure" \in Left' <=> "configure" \in Left
      BY <3>1, <3>2, UpAdvance
    <3> QED
      BY <1>0, <2>0, <2>3, <3>1, <3>3
  <2>4. CASE BootStep /\ ~LookUp /\ phase' # "boot"
    BY <2>0, <2>4, BootStepMoves DEF BootMoves
  <2>5. CASE DownStep
    BY <2>0, <2>5, DownStepMoves DEF DownMoves
  <2>6. CASE SwitchRoot
    BY <2>0, <2>6 DEF SwitchRoot, Halt, GoOff
  <2> QED
    BY <1>1, <2>1, <2>2, <2>3, <2>4, <2>5, <2>6 DEF Quiet
<1>2. CASE \E hinted \in BOOLEAN : Start(hinted)
  <2>1. /\ phase' = "find" /\ todo' = UpPlan[program] /\ UNCHANGED ini
        /\ hooks' = ToSet(Hooks[program]) \cap (ini \cup Always)
    BY <1>2 DEF Start, PowerOn
  <2>2. Left' = ToSet(UpPlan[program])
    BY <2>1 DEF Left
  <2>3. "configure" \in Left' <=> hooks' # {}
    BY <1>0, <2>1, <2>2, UpPlanOrder, HooksKnown DEF Always
  <2> QED
    BY <1>0, <2>1, <2>3, HooksKnown
<1>3. CASE \E h \in Names \cup {"upkeep"} : Hooked(h)
  <2>1. PICK h \in Names \cup {"upkeep"} : Hooked(h)
    BY <1>3
  <2>2. /\ phase = "boot" /\ Head(todo) = "configure" /\ h \in hooks /\ Turn(h) /\ UNCHANGED ini
        /\ UpOrder(todo) /\ Head(todo) # "switch"
    BY <2>1 DEF Hooked, Turn, Ahead, PlanInv
  <2>3. CASE Done(h) /\ hooks = {h}
    <3>1. hooks' = {} /\ Advance
      BY <2>3 DEF Done, Advance
    <3>2. "configure" \notin Left'
      BY <2>2, <3>1, UpAdvance DEF FollowsUp
    <3> QED
      BY <3>1, <3>2
  <2>4. CASE Done(h) /\ hooks # {h}
    <3>1. hooks' = hooks \ {h} /\ hooks' # {} /\ UNCHANGED <<todo, phase>>
      BY <2>2, <2>4 DEF Done
    <3>2. "configure" \in Left
      BY <2>2, HeadLeft DEF Left, UpOrder
    <3>3. program = "init" /\ h = "address" => "wifi" \notin hooks
      BY <2>2, WifiBeforeAddress
    <3> QED
      BY <1>0, <2>2, <3>1, <3>2, <3>3 DEF Left
  <2>5. CASE Thrown
    <3>1. hooks' = {} /\ (todo' = <<"switch">> \/ Advance)
      BY <2>5 DEF Thrown, Advance
    <3>2. "configure" \notin Left'
      BY <2>2, <3>1, LastStep, UpAdvance DEF FollowsUp, Left
    <3> QED
      BY <3>1, <3>2
  <2>6. CASE phase' = "off" /\ UNCHANGED hooks
    BY <2>6
  <2> QED
    BY <2>1, <2>3, <2>4, <2>5, <2>6 DEF Hooked
<1>4. CASE GenerateHostname
  <2>1. /\ phase = "boot" /\ Head(todo) = "generate" /\ UNCHANGED <<ini, hooks>>
        /\ UpOrder(todo) /\ Head(todo) # "switch"
    BY <1>4 DEF GenerateHostname, Ahead, PlanInv
  <2>2. Advance \/ phase' = "off"
    BY <1>4 DEF GenerateHostname, GoOff
  <2>3. CASE Advance
    BY <1>0, <2>1, <2>3, UpAdvance DEF Advance
  <2> QED
    BY <2>1, <2>2, <2>3
<1>5. CASE Stop \/ Fall \/ Edit
  BY <1>5 DEF Stop, ShutDown, Fall, PowerFailure, Edit, GoOff, power
<1> QED
  BY <1>1, <1>2, <1>3, <1>4, <1>5, NextSettings

LEMMA GenerateGood ==
  ASSUME SettingsOK, CountsOK, GenerateHostname
  PROVE  \/ UNCHANGED <<root, touched>>
         \/ NeedsName /\ Good("hostname", root') /\ touched' = touched \cup {"hostname"}
<1>1. boots \in 0..MaxBoots /\ 0 \in 0..MaxBoots /\ "empty" \in Writers
  BY PowerAssumption DEF CountsOK, Writers, PowerAssumption
<1>2. \/ UNCHANGED <<root, touched>>
      \/ NeedsName /\ touched' = touched \cup {"hostname"} /\ root' \in {root, Generated, Call("empty", 0)}
  BY DEF GenerateHostname
<1>3. Good("hostname", root) /\ Good("hostname", Generated) /\ Good("hostname", Call("empty", 0))
  BY <1>1, RootGood, CallGood DEF Generated
<1> QED
  BY <1>2, <1>3

(* What the user may leave.                                                *)
LEMMA UserLeaves ==
  ASSUME SettingsOK, NEW r \in ByUser
  PROVE  /\ r \in SettingsType /\ (r.open => r.keys # <<>>)
         /\ \/ r.keys = root.keys
            \/ \E line \in Lines :
                 r.keys = Append(root.keys, line) /\ (line \in {"ini", "other"} => ~Authorized)
<1>1. CASE r \in {Call("user", 0), Call("none", 0)}
  <2>1. 0 \in 0..MaxBoots /\ {"user", "none"} \subseteq Writers
    BY PowerAssumption DEF Writers, PowerAssumption
  <2> QED
    BY <1>1, <2>1, CallKept DEF Keeps
<1>2. CASE r = File("timezone", "user")
  <2>1. "timezone" \in Files /\ "user" \in Writers /\ "timezone" # "ssh_key"
    BY DEF Files, Names, Writers
  <2> QED
    BY <1>2, <2>1, FileKept DEF Keeps
<1>3. CASE r = Only(root, root.network \cup {"user"})
  <2>1. root.network \cup {"user"} \in SUBSET {"user", "static", "dhcp"}
    BY SettingsParts DEF SettingsOK
  <2>2. Keeps("address", root)
    BY RootKept
  <2> QED
    BY <1>3, <2>1, <2>2, OnlyKept DEF Keeps
<1>4. ASSUME NEW line \in {"user"} \cup (IF Authorized THEN {} ELSE {"other"}), NEW open \in BOOLEAN,
             r = LineByUser(line, open)
      PROVE  /\ r \in SettingsType /\ (r.open => r.keys # <<>>)
             /\ r.keys = Append(root.keys, line) /\ line \in Lines
             /\ line \in {"ini", "other"} => ~Authorized
  <2>1. line \in Lines /\ (line \in {"ini", "other"} => ~Authorized)
    BY DEF Lines
  <2>2. root.keys \in Seq(Lines)
    BY SettingsParts DEF SettingsOK
  <2>3. Append(root.keys, line) \in Seq(Lines) /\ Append(root.keys, line) # <<>>
    BY <2>1, <2>2, AppendProperties
  <2> DEFINE keys == Append(root.keys, line)
  <2>4. r = [root EXCEPT !.keys = keys, !.open = open]
    BY <1>4 DEF LineByUser
  <2> HIDE DEF keys
  <2>5. r = [files |-> root.files, hostname |-> root.hostname, network |-> root.network, keys |-> keys,
             open |-> open]
    BY <2>4 DEF SettingsOK, SettingsType
  <2>6. keys \in Seq(Lines) /\ keys # <<>>
    BY <2>3 DEF keys
  <2>7. r \in SettingsType /\ (r.open => r.keys # <<>>) /\ r.keys = keys
    BY <2>5, <2>6, SettingsParts DEF SettingsOK
  <2> QED
    BY <2>1, <2>7 DEF keys
<1> DEFINE lines == {"user"} \cup (IF Authorized THEN {} ELSE {"other"})
<1>5. CASE \E line \in lines, open \in BOOLEAN : r = LineByUser(line, open)
  BY <1>4, <1>5
<1>6. \/ r \in {Call("user", 0), Call("none", 0)} \/ r = File("timezone", "user")
      \/ r = Only(root, root.network \cup {"user"})
      \/ \E line \in lines, open \in BOOLEAN : r = LineByUser(line, open)
  BY DEF ByUser
<1> QED
  BY <1>1, <1>2, <1>3, <1>5, <1>6

LEMMA FreshRoot ==
  ASSUME NEW by \in {"none", "image"}
  PROVE  LET r == Delivered(Hostname(by))
         IN  r \in SettingsType /\ ~r.open /\ r.keys = <<>>
<1> DEFINE r == Delivered(Hostname(by))
           f == [n \in Files |-> IF n \in {"autologin", "wifi"} THEN "none" ELSE "image"]
<1>1. f \in [Files -> Writers] /\ by \in Writers \cup {"generated"} /\ 0 \in 0..MaxBoots
  BY PowerAssumption DEF Writers, PowerAssumption
<1>2. <<>> \in Seq(Lines)
  OBVIOUS
<1>3. r = [files |-> f, hostname |-> [by |-> by, at |-> 0], network |-> {}, keys |-> <<>>, open |-> FALSE]
  BY DEF Delivered, Hostname
<1> HIDE DEF r, f
<1>4. r \in SettingsType /\ ~r.open /\ r.keys = <<>>
  BY <1>1, <1>2, <1>3, SettingsParts
<1> QED
  BY <1>4 DEF r

LEMMA SettingsStep ==
  ASSUME SettingsOK, CountsOK, [Next]_vars
  PROVE  SettingsOK'
<1>1. CASE Quiet
  BY <1>1 DEF Quiet, settings, SettingsOK
<1>2. CASE \E hinted \in BOOLEAN : Start(hinted)
  BY <1>2, FreshRoot DEF Start, SettingsOK
<1>3. CASE \E h \in Names \cup {"upkeep"} : Hooked(h)
  <2>1. PICK h \in Names \cup {"upkeep"} : Hooked(h)
    BY <1>3
  <2> QED
    BY <2>1 DEF Hooked, Good, Keeps, SettingsOK
<1>4. CASE GenerateHostname
  <2>1. UNCHANGED <<ini, kept>> /\ "hostname" \in Names
    BY <1>4 DEF GenerateHostname, Names
  <2> QED
    BY <1>4, <2>1, GenerateGood DEF Good, Keeps, SettingsOK
<1>5. CASE Stop \/ Fall
  BY <1>5 DEF Stop, Fall, SessionEnds, SettingsOK
<1>6. CASE Edit
  <2>1. UNCHANGED <<touched, kept>> /\ (root' \in ByUser \/ UNCHANGED root)
    BY <1>6 DEF Edit
  <2>2. ini' \in SUBSET Names
    BY <1>6, SettingsAssumption DEF Edit, SettingsOK, SettingsAssumption
  <2> QED
    BY <2>1, <2>2, UserLeaves DEF SettingsOK
<1> QED
  BY <1>1, <1>2, <1>3, <1>4, <1>5, <1>6, NextSettings

LEMMA EditsStep == ASSUME EditsOK, [Next]_vars, SettingsOK, CountsOK PROVE EditsOK'
<1>1. CASE Edit
  BY <1>1, SettingsAssumption DEF Edit, EditsOK, SettingsAssumption
<1>2. CASE UNCHANGED edits
  BY <1>2 DEF EditsOK
<1> QED
  BY <1>1, <1>2, NextSettings DEF Quiet, settings, Start, Hooked, GenerateHostname, Stop, Fall
-----------------------------------------------------------------------------
(* Part 4: what has been set stays set.                                    *)

LEMMA CalmFromCalm ==
  ASSUME [Next]_vars, calm', phase' \in {"find", "boot"}, Quiet, PlanInv
  PROVE  calm /\ phase \in {"find", "boot"}
<1>1. CASE UNCHANGED vars
  BY <1>1 DEF vars, power
<1>2. CASE LookUp
  BY <1>2 DEF LookUp, SeenByTag, SeenByName, GiveUp, FallBack, AskEfi, EfiTimeOut, Undetermined, Works, Fails
<1>3. CASE BootStep /\ ~LookUp
  <2>1. calm
    BY <1>3 DEF BootStep, CheckFat, MountBoot, WriteStamp, MoveMounts, CopyEnvironment, MoveEnvironment,
      SetUpEnvironment, MountLayer, Works, Fails
  <2> QED
    BY <1>3, <2>1, BootStepMoves
<1>4. CASE DownStep
  BY <1>4, DownStepMoves DEF DownMoves
<1>5. CASE SwitchRoot
  BY <1>5 DEF SwitchRoot, Halt, GoOff
<1> QED
  BY <1>1, <1>2, <1>3, <1>4, <1>5 DEF Quiet

(* A hook that forces its setting puts it in force.                        *)
LEMMA ForcesItsOwn ==
  ASSUME NEW h \in ini, SettingsOK, h \notin Neglected', Forces(h, root'), root' \in SettingsType,
         UNCHANGED program
  PROVE  InForce(h)'
<1>1. h \in Names
  BY DEF SettingsOK
<1>2. CASE h = "hostname"
  BY <1>2 DEF Forces, InForce
<1>3. CASE h = "address"
  BY <1>3 DEF Forces, InForce
<1>4. CASE h = "wifi"
  BY <1>4 DEF Forces, InForce
<1>5. CASE h = "ssh_key"
  BY <1>5 DEF Forces, InForce, Authorized, Neglected
<1>6. CASE h \notin {"hostname", "address", "wifi", "ssh_key"}
  <2>1. h \in (Files \ {"wifi"}) \cap ini
    BY <1>1, <1>6 DEF Files
  <2>2. ~(program' = "initlib" /\ h \in {"password", "timezone"})
    BY DEF Neglected
  <2>3. root'.files[h] = "ini"
    BY <2>1, <2>2 DEF Forces
  <2> QED
    BY <1>6, <2>3 DEF InForce
<1> QED
  BY <1>2, <1>3, <1>4, <1>5, <1>6

(* One that leaves the others alone leaves them in force: the address when *)
(* wifi is set only if it is still to be set, or is kept.                  *)
LEMMA KeepsInForce ==
  ASSUME NEW h, NEW n \in Names \ {h}, SettingsOK, Keeps(h, root'), InForce(n),
         h = "wifi" /\ n = "address" => "static" \in root'.network,
         h = "address" /\ n = "wifi" => "static" \in root'.network
  PROVE  InForce(n)'
<1>1. CASE n = "hostname"
  BY <1>1 DEF InForce, Keeps
<1>2. CASE n = "address"
  BY <1>2 DEF InForce, Keeps
<1>3. CASE n = "wifi"
  <2>1. root'.files["wifi"] = "ini"
    BY <1>3 DEF InForce, Keeps, Files, Names
  <2>2. root'.network \cap {"dhcp", "static"} # {}
    BY <1>3 DEF InForce, Keeps
  <2> QED
    BY <1>3, <2>1, <2>2 DEF InForce
<1>4. CASE n = "ssh_key"
  BY <1>4 DEF InForce, Keeps, Authorized
<1>5. CASE n \notin {"hostname", "address", "wifi", "ssh_key"}
  <2>1. n \in Files \ {h}
    BY <1>5 DEF Files
  <2> QED
    BY <1>5, <2>1 DEF InForce, Keeps
<1> QED
  BY <1>1, <1>2, <1>3, <1>4, <1>5

LEMMA ForceStep ==
  ASSUME PlanInv, SettingsOK, SettingsOK', CountsOK, HooksInv, HooksInv', ForceInv, [Next]_vars
  PROVE  ForceInv'
<1> SUFFICES ASSUME phase' \in {"find", "boot"}, calm',
                    NEW n \in (ini' \cap ToSet(Hooks[program'])) \ (Neglected' \cup hooks')
             PROVE  InForce(n)'
  BY DEF ForceInv
<1>0. UNCHANGED program
  BY NextPower, SameMachine DEF program
<1>1. CASE Quiet
  <2>1. UNCHANGED <<ini, hooks, root>> /\ calm /\ phase \in {"find", "boot"}
    BY <1>1, CalmFromCalm DEF Quiet, settings
  <2>2. n \notin Neglected
    BY <1>0, <2>1 DEF Neglected
  <2>3. InForce(n)
    BY <1>0, <2>1, <2>2 DEF ForceInv
  <2> QED
    BY <1>0, <2>1, <2>3 DEF InForce, Authorized
<1>2. CASE \E hinted \in BOOLEAN : Start(hinted)
  <2>1. n \in hooks'
    BY <1>0, <1>2 DEF Start
  <2> QED
    BY <2>1
<1>3. CASE \E h \in Names \cup {"upkeep"} : Hooked(h)
  <2>1. PICK h \in Names \cup {"upkeep"} : Hooked(h)
    BY <1>3
  <2>2. /\ calm /\ phase = "boot" /\ h \in hooks /\ hooks' = hooks \ {h} /\ UNCHANGED ini
        /\ Forces(h, root') /\ Keeps(h, root') /\ Turn(h)
    BY <2>1 DEF Hooked, Turn, Done, Good
  <2>3. CASE n = h
    BY <1>0, <2>2, <2>3, ForcesItsOwn DEF Keeps
  <2>4. CASE n # h
    <3>1. n \notin hooks /\ n \in ini /\ n \in ToSet(Hooks[program]) /\ n \in Names
      BY <1>0, <2>2, <2>4 DEF SettingsOK
    <3>2. n \notin Neglected
      <4>1. h # "ssh_key" => root'.keys = root.keys
        BY <2>2 DEF Keeps
      <4> QED
        BY <1>0, <2>2, <2>4, <4>1 DEF Neglected
    <3>3. InForce(n)
      BY <2>2, <3>1, <3>2 DEF ForceInv
    <3>4. h = "wifi" /\ n = "address" => "static" \in root'.network
      BY <2>2, <3>1, <3>3 DEF HooksInv, Forces, InForce
    <3>5. h = "address" /\ n = "wifi" => "static" \in root'.network
      BY <2>2 DEF Forces
    <3> QED
      BY <2>2, <2>4, <3>1, <3>3, <3>4, <3>5, KeepsInForce
  <2> QED
    BY <2>3, <2>4
<1>4. CASE GenerateHostname
  <2>1. calm /\ phase = "boot" /\ UNCHANGED <<ini, hooks>>
    BY <1>4 DEF GenerateHostname, Works, Fails
  <2>2. n \in Names /\ n \in ini /\ n \in ToSet(Hooks[program]) /\ n \notin hooks
    BY <1>0, <2>1 DEF SettingsOK
  <2>3. CASE UNCHANGED root
    <3>1. InForce(n)
      BY <1>0, <2>1, <2>2, <2>3 DEF ForceInv, Neglected
    <3> QED
      BY <2>3, <3>1 DEF InForce, Authorized
  <2>4. CASE NeedsName /\ Keeps("hostname", root')
    <3>1. n \notin Neglected
      BY <1>0, <2>4 DEF Neglected, Keeps
    <3>2. InForce(n)
      BY <2>1, <2>2, <3>1 DEF ForceInv
    <3>3. n # "hostname"
      BY <2>4, <3>2 DEF NeedsName, InForce
    <3> QED
      BY <2>2, <2>4, <3>2, <3>3, KeepsInForce
  <2> QED
    BY <1>4, <2>3, <2>4, GenerateGood DEF Good
<1>5. CASE Stop \/ Fall \/ Edit
  BY <1>5 DEF Stop, ShutDown, Fall, PowerFailure, Edit, GoOff, power
<1> QED
  BY <1>1, <1>2, <1>3, <1>4, <1>5, NextSettings

(* A hook that leaves a setting alone, and forgets nothing it has touched, *)
(* keeps it as the last session left it.                                   *)
LEMMA KeepsSame ==
  ASSUME NEW h, NEW n \in Names \ {h}, Keeps(h, root'), UNCHANGED <<kept, program>>,
         touched \subseteq touched', n = "address" /\ h = "wifi" => h \in touched' \/ UNCHANGED root,
         Same(n) \/ Replaced(n)
  PROVE  (Same(n) \/ Replaced(n))'
<1>1. Replaced(n) => Replaced(n)'
  BY DEF Replaced
<1>2. CASE Same(n)
  <2>1. CASE n = "hostname"
    BY <1>2, <2>1 DEF Same, Keeps
  <2>2. CASE n = "address" /\ h # "wifi"
    BY <1>2, <2>2 DEF Same, Keeps
  <2>3. CASE n = "address" /\ h = "wifi"
    BY <1>2, <2>3 DEF Same, Replaced
  <2>4. CASE n = "ssh_key"
    BY <1>2, <2>4 DEF Same, Keeps
  <2>5. CASE n \notin {"hostname", "address", "ssh_key"}
    <3>1. n \in Files \ {h}
      BY <2>5 DEF Files
    <3> QED
      BY <1>2, <2>5, <3>1 DEF Same, Keeps
  <2> QED
    BY <2>1, <2>2, <2>3, <2>4, <2>5
<1> QED
  BY <1>1, <1>2

LEMMA StayStep ==
  ASSUME PlanInv, SettingsOK, CountsOK, HooksInv, SettingsStay, [Next]_vars
  PROVE  SettingsStay'
<1> SUFFICES ASSUME machine'.persistent, phase' # "up", NEW n \in Names \ ini'
             PROVE  (Same(n) \/ Replaced(n))'
  BY DEF SettingsStay
<1>0. machine \in MachineType /\ UNCHANGED <<machine, program>>
  BY NextPower, SameMachine, MachineKnown DEF program, PlanInv
<1>1. phase # "up" /\ UNCHANGED ini => Same(n) \/ Replaced(n)
  BY <1>0 DEF SettingsStay
<1>2. ASSUME phase # "up", UNCHANGED <<ini, root, touched, kept>> PROVE (Same(n) \/ Replaced(n))'
  BY <1>0, <1>1, <1>2 DEF Same, Replaced
<1>3. CASE Quiet
  <2>1. UNCHANGED <<ini, root, touched, kept>>
    BY <1>3 DEF Quiet, settings
  <2>2. phase # "up"
    BY <1>3, BootStepMoves, DownStepMoves, LookUpMoves DEF Quiet, SwitchRoot, vars, power
  <2> QED
    BY <1>2, <2>1, <2>2
<1>4. CASE \E hinted \in BOOLEAN : Start(hinted)
  BY <1>0, <1>2, <1>4 DEF Start, PowerOn
<1>5. CASE \E h \in Names \cup {"upkeep"} : Hooked(h)
  <2>1. PICK h \in Names \cup {"upkeep"} : Hooked(h)
    BY <1>5
  <2>2. /\ phase = "boot" /\ h \in hooks /\ UNCHANGED <<ini, kept>> /\ Keeps(h, root')
        /\ h \in ToSet(Hooks[program]) \cap (ini \cup Always)
        /\ \/ root' = root /\ touched' = touched
           \/ touched' = touched \cup {h} /\ Entitled(h)
    BY <2>1 DEF Hooked, Turn, Good, HooksInv
  <2>3. CASE n # h
    BY <1>0, <1>1, <2>2, <2>3, KeepsSame
  <2>4. CASE n = h
    <3>1. CASE root' = root /\ touched' = touched
      BY <1>2, <2>2, <3>1
    <3>2. CASE Entitled(h) /\ h = "hostname"
      <4>1. program = "xen" \/ root.hostname.by \in {"none", "image"}
        BY <2>2, <2>4, <3>2 DEF Entitled
      <4>2. Same(n) \/ Replaced(n)
        BY <1>1, <2>2
      <4>3. Replaced(n)
        BY <2>4, <3>2, <4>1, <4>2 DEF Same, Replaced
      <4> QED
        BY <1>0, <2>2, <2>4, <3>2, <4>3 DEF Replaced
    <3>3. CASE h = "autologin"
      BY <1>0, <2>2, <2>4, <3>3, HooksKnown DEF Replaced
    <3> QED
      BY <2>2, <2>4, <3>1, <3>2, <3>3 DEF Always, Names
  <2> QED
    BY <2>3, <2>4
<1>6. CASE GenerateHostname
  <2>1. phase = "boot" /\ UNCHANGED <<ini, kept>>
    BY <1>6 DEF GenerateHostname
  <2>2. Same(n) \/ Replaced(n)
    BY <1>1, <2>1
  <2>3. CASE UNCHANGED <<root, touched>>
    BY <1>2, <2>1, <2>3
  <2>4. CASE NeedsName /\ Keeps("hostname", root') /\ touched' = touched \cup {"hostname"}
    <3>1. CASE n = "hostname"
      <4>1. Replaced(n)
        BY <2>2, <2>4, <3>1 DEF NeedsName, Same, Replaced
      <4> QED
        BY <1>0, <2>1, <3>1, <4>1 DEF Replaced
    <3>2. CASE n # "hostname"
      BY <1>0, <2>1, <2>2, <2>4, <3>2, KeepsSame
    <3> QED
      BY <3>1, <3>2
  <2> QED
    BY <1>6, <2>3, <2>4, GenerateGood DEF Good
<1>7. CASE Stop
  BY <1>7 DEF Stop, SessionEnds, Same
<1>8. CASE Fall
  <2>1. CASE phase = "up"
    BY <1>8, <2>1 DEF Fall, SessionEnds, Same
  <2>2. CASE phase # "up"
    BY <1>2, <1>8, <2>2 DEF Fall
  <2> QED
    BY <2>1, <2>2
<1>9. CASE Edit
  BY <1>9 DEF Edit, power
<1> QED
  BY <1>3, <1>4, <1>5, <1>6, <1>7, <1>8, <1>9, NextSettings

(* A line more, with the key of system.ini only where it is not yet.       *)
LEMMA OneMore ==
  ASSUME NEW keys \in Seq(Lines), NEW line \in Lines,
         \A i, j \in DOMAIN keys : {keys[i], keys[j]} \subseteq {"ini", "other"} => i = j,
         line \in {"ini", "other"} => \A i \in DOMAIN keys : keys[i] \notin {"ini", "other"}
  PROVE  \A i, j \in DOMAIN Append(keys, line) :
           {Append(keys, line)[i], Append(keys, line)[j]} \subseteq {"ini", "other"} => i = j
<1> DEFINE more == Append(keys, line)
<1>1. /\ DOMAIN keys = 1..Len(keys) /\ Len(keys) \in Nat /\ DOMAIN more = 1..(Len(keys) + 1)
      /\ more[Len(keys) + 1] = line /\ \A i \in 1..Len(keys) : more[i] = keys[i]
  BY AppendProperties
<1> HIDE DEF more
<1> SUFFICES ASSUME NEW i \in DOMAIN more, NEW j \in DOMAIN more,
                    more[i] \in {"ini", "other"}, more[j] \in {"ini", "other"}
             PROVE  i = j
  BY DEF more
<1>2. CASE i \in 1..Len(keys) /\ j \in 1..Len(keys)
  BY <1>1, <1>2
<1>3. CASE i = Len(keys) + 1 /\ j \in 1..Len(keys)
  BY <1>1, <1>3
<1>4. CASE j = Len(keys) + 1 /\ i \in 1..Len(keys)
  BY <1>1, <1>4
<1>5. CASE i = Len(keys) + 1 /\ j = Len(keys) + 1
  BY <1>5
<1> QED
  BY <1>1, <1>2, <1>3, <1>4, <1>5

LEMMA NoneAuthorized ==
  ASSUME ~Authorized PROVE \A i \in DOMAIN root.keys : root.keys[i] \notin {"ini", "other"}
BY DEF Authorized, ToSet

LEMMA KeysStep ==
  ASSUME SettingsOK, CountsOK, KeysOnce, [Next]_vars
  PROVE  KeysOnce'
<1> DEFINE Once(keys) == \A i, j \in DOMAIN keys : {keys[i], keys[j]} \subseteq {"ini", "other"} => i = j
<1>0. Once(root.keys) /\ root.keys \in Seq(Lines) /\ (root.open => root.keys # <<>>)
  BY SettingsParts DEF KeysOnce, SettingsOK
<1>1. SUFFICES Once(root'.keys)
  BY DEF KeysOnce
<1>2. ASSUME NEW line \in Lines, line \in {"ini", "other"} => ~Authorized
      PROVE  Once(Append(root.keys, line))
  BY <1>0, <1>2, OneMore, NoneAuthorized
<1>3. ASSUME AddsLine(root') PROVE Once(root'.keys)
  <2>1. CASE root'.keys = root.keys
    BY <1>0, <2>1
  <2>2. ASSUME NEW line \in {"ini", "torn"}, NEW open \in BOOLEAN, ~Authorized,
               root'.keys = AddLine(line, open).keys
        PROVE  Once(root'.keys)
    <3>1. line \in Lines /\ "glued" \in Lines
      BY DEF Lines
    <3>2. root'.keys = IF root.open THEN Append(Front(root.keys), "glued") ELSE Append(root.keys, line)
      BY <2>2, <3>1, LineKept
    <3>3. CASE ~root.open
      BY <1>2, <2>2, <3>1, <3>2, <3>3
    <3>4. CASE root.open
      <4>1. /\ Front(root.keys) \in Seq(Lines)
            /\ \A i \in DOMAIN Front(root.keys) : i \in DOMAIN root.keys /\ Front(root.keys)[i] = root.keys[i]
        <5>1. /\ root.keys \in Seq(Lines) /\ Len(root.keys) \in Nat \ {0}
              /\ DOMAIN root.keys = 1..Len(root.keys)
          BY <1>0, <3>4
        <5>2. Front(root.keys) = SubSeq(root.keys, 1, Len(root.keys) - 1)
          BY DEF Front
        <5>3. /\ Front(root.keys) \in Seq(Lines) /\ Len(Front(root.keys)) = Len(root.keys) - 1
              /\ \A i \in 1..(Len(root.keys) - 1) : Front(root.keys)[i] = root.keys[i]
          BY <5>1, <5>2
        <5>4. DOMAIN Front(root.keys) = 1..(Len(root.keys) - 1)
          BY <5>3
        <5> QED
          BY <5>1, <5>3, <5>4
      <4>2. \A i \in DOMAIN Front(root.keys) : Front(root.keys)[i] \notin {"ini", "other"}
        BY <2>2, <4>1, NoneAuthorized
      <4>3. Once(Front(root.keys)) /\ "glued" \notin {"ini", "other"}
        BY <4>2
      <4>4. Once(Append(Front(root.keys), "glued"))
        <5> DEFINE front == Front(root.keys)
        <5>1. front \in Seq(Lines) /\ Once(front)
          BY <4>1, <4>3
        <5> HIDE DEF front
        <5>2. Once(Append(front, "glued"))
          BY <3>1, <4>3, <5>1, OneMore
        <5> QED
          BY <5>2 DEF front
      <4> QED
        BY <3>2, <3>4, <4>4
    <3> QED
      BY <3>3, <3>4
  <2> QED
    BY <1>3, <2>1, <2>2 DEF AddsLine
<1>4. CASE Quiet
  BY <1>0, <1>4 DEF Quiet, settings
<1>5. CASE \E hinted \in BOOLEAN : Start(hinted)
  <2>1. root' = root \/ root'.keys = <<>>
    BY <1>5, FreshRoot DEF Start
  <2> QED
    BY <1>0, <2>1
<1>6. CASE \E h \in Names \cup {"upkeep"} : Hooked(h)
  BY <1>3, <1>6 DEF Hooked, Good
<1>7. CASE GenerateHostname
  <2>1. CASE UNCHANGED root
    BY <1>0, <2>1
  <2>2. CASE Good("hostname", root')
    BY <1>3, <2>2 DEF Good
  <2> QED
    BY <1>7, <2>1, <2>2, GenerateGood
<1>8. CASE Stop \/ Fall
  BY <1>0, <1>8 DEF Stop, Fall
<1>9. CASE Edit
  <2>1. root' \in ByUser \/ UNCHANGED root
    BY <1>9 DEF Edit
  <2>2. CASE UNCHANGED root
    BY <1>0, <2>2
  <2>3. CASE root' \in ByUser
    <3>1. CASE root'.keys = root.keys
      BY <1>0, <3>1
    <3>2. CASE root'.keys # root.keys
      <4>1. PICK line \in Lines :
              root'.keys = Append(root.keys, line) /\ (line \in {"ini", "other"} => ~Authorized)
        BY <2>3, <3>2, UserLeaves
      <4>2. Once(Append(root.keys, line))
        BY <1>2, <4>1
      <4> QED
        BY <4>1, <4>2
    <3> QED
      BY <3>1, <3>2
  <2> QED
    BY <2>1, <2>2, <2>3
<1> QED
  BY <1>4, <1>5, <1>6, <1>7, <1>8, <1>9, NextSettings
-----------------------------------------------------------------------------
(* Part 5: the theorems.                                                   *)

SettingsInv == SettingsOK /\ EditsOK /\ HooksInv /\ ForceInv /\ SettingsStay /\ KeysOnce

LEMMA InitSettings == Init => SettingsInv
<1> SUFFICES ASSUME Init PROVE SettingsInv
  OBVIOUS
<1>1. PICK by \in {"none", "image"} : root = Delivered(Hostname(by))
  BY DEF Init
<1>2. root \in SettingsType /\ ~root.open /\ root.keys = <<>>
  BY <1>1, FreshRoot
<1>3. ini \in SUBSET Names
  BY SettingsAssumption DEF Init, SettingsAssumption
<1>4. kept = root /\ hooks = {} /\ touched = {} /\ edits = 0 /\ phase = "off"
  BY DEF Init, PowerInit
<1>5. SettingsOK /\ EditsOK
  BY <1>2, <1>3, <1>4, SettingsAssumption DEF SettingsOK, EditsOK, SettingsAssumption
<1>6. HooksInv /\ ForceInv
  BY <1>4 DEF HooksInv, ForceInv
<1>7. SettingsStay /\ KeysOnce
  BY <1>2, <1>4 DEF SettingsStay, KeysOnce, Same
<1> QED
  BY <1>5, <1>6, <1>7 DEF SettingsInv

LEMMA SettingsAlways == Spec => [](PowerInv /\ SettingsInv)
<1>1. PowerInv /\ SettingsInv /\ [Next]_vars => SettingsInv'
  <2> SUFFICES ASSUME PowerInv, SettingsInv, [Next]_vars PROVE SettingsInv'
    OBVIOUS
  <2>1. PlanInv /\ CountsOK /\ SettingsOK /\ EditsOK /\ HooksInv /\ ForceInv /\ SettingsStay /\ KeysOnce
    BY DEF PowerInv, SettingsInv
  <2>2. SettingsOK' /\ EditsOK' /\ HooksInv'
    BY <2>1, SettingsStep, EditsStep, HooksStep
  <2>3. ForceInv' /\ SettingsStay' /\ KeysOnce'
    BY <2>1, <2>2, ForceStep, StayStep, KeysStep
  <2> QED
    BY <2>2, <2>3 DEF SettingsInv
<1> QED
  BY <1>1, InitSettings, PowerAlways, PTL DEF Spec

(* TypeOK: the state of the machine and the settings are of their types,   *)
(* and the machine configures only while a hook is ahead.                  *)
THEOREM SettingsTypeCorrect == Spec => []TypeOK
<1>1. PowerInv /\ SettingsInv => TypeOK
  <2> SUFFICES ASSUME PowerInv, SettingsInv PROVE TypeOK
    OBVIOUS
  <2>1. PowerTypeOK
    BY PowerTypeParts DEF PowerInv
  <2>2. Ahead("configure") => hooks # {}
    <3> SUFFICES ASSUME Ahead("configure") PROVE hooks # {}
      OBVIOUS
    <3>1. "configure" \in Left
      BY <2>1, HeadLeft DEF Ahead, PowerTypeOK, Left
    <3>2. CASE phase = "boot"
      BY <3>1, <3>2 DEF SettingsInv, HooksInv
    <3>3. CASE phase = "down"
      <4>1. program # "paravirt"
        <5>1. DownPlan["paravirt"] = <<>> /\ ToSet(<<>>) = {}
          BY DEF DownPlan, ToSet
        <5> QED
          BY <3>1, <3>3, <5>1 DEF PowerInv, PlanInv
      <4> QED
        BY <3>1, <3>3, <4>1, MachineKnown, NothingToConfigure DEF PowerInv, PlanInv
    <3> QED
      BY <3>2, <3>3 DEF Ahead
  <2> QED
    BY <2>1, <2>2 DEF TypeOK, SettingsInv, SettingsOK, EditsOK, HooksInv
<1> QED
  BY <1>1, SettingsAlways, PTL

(* NamedInForce: when a boot in which no call has failed goes over to the  *)
(* new root, what system.ini names is in force there.                      *)
THEOREM NamedIsInForce == Spec => []NamedInForce
<1>1. PowerInv /\ SettingsInv => NamedInForce
  <2> SUFFICES ASSUME PowerInv, SettingsInv, phase = "boot", Ahead("switch"), calm,
                      NEW n \in (ini \cap ToSet(Hooks[program])) \ Neglected
               PROVE  InForce(n)
    BY DEF NamedInForce
  <2>1. Left = {"switch"}
    BY SwitchIsLast DEF PowerInv, PlanInv, Ahead, Left
  <2>2. hooks = {}
    BY <2>1 DEF SettingsInv, HooksInv
  <2> QED
    BY <2>2 DEF SettingsInv, ForceInv
<1> QED
  BY <1>1, SettingsAlways, PTL

(* SettingsStay: on a machine that keeps its layer, what system.ini does   *)
(* not name is as the last session left it, unless it was to be replaced.  *)
THEOREM UserSettingsStay == Spec => []SettingsStay
<1>1. SettingsInv => SettingsStay
  BY DEF SettingsInv
<1> QED
  BY <1>1, SettingsAlways, PTL

(* KeysOnce: however many boots, cut off or not, add the key of            *)
(* system.ini, authorized_keys holds it at most once.                      *)
THEOREM KeyIsAddedOnce == Spec => []KeysOnce
<1>1. SettingsInv => KeysOnce
  BY DEF SettingsInv
<1> QED
  BY <1>1, SettingsAlways, PTL

=============================================================================
