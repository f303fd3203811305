------------------------- MODULE MCSystemSettings -------------------------
EXTENDS SystemSettings

Machine(program_, fs, fallback, efi, persistent) ==
  [program |-> program_, fs |-> fs, fallback |-> fallback, efi |-> efi, persistent |-> persistent]

Fleet ==
  {Machine("init", "vfat", TRUE, FALSE, TRUE),
   Machine("init", "readonly", FALSE, FALSE, FALSE),
   Machine("xen", "other", TRUE, FALSE, TRUE),
   Machine("initlib", "vfat", FALSE, FALSE, TRUE),
   Machine("systemimg", "vfat", FALSE, TRUE, TRUE),
   Machine("systemimg", "other", FALSE, FALSE, TRUE),
   Machine("paravirt", "other", FALSE, FALSE, TRUE)}

SomeInis ==
  {{}, {"hostname", "wifi", "address", "ssh_key"},
   {"password", "timezone", "locale", "keymap", "autologin", "openvpn", "zabbix"}}
===========================================================================
