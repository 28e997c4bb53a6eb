------------------------------ MODULE MCOsVif ------------------------------
(* Small instances of OsVif: three threads, two plugins, one unknown name. *)
EXTENDS OsVif, TLC

CONSTANTS t1, t2, t3, unknown

MCThreads == {t1, t2, t3}
MCPair    == {t1, t2}
MCOne     == {t1}
MCPlugins == {"ovs", "noop"}
MCOther   == {unknown}
MCDescribe == [ovs |-> OvsDescription, noop |-> NoopDescription]

\* A type that both plugins describe, and one that only OVS does.
MCPermitted == {{"VIFVHostUser"}, {"VIFBridge"}}
MCOnePermitted == {{"VIFBridge"}}

\* The threads outside Initializers are alike.
StartupSymmetry == Permutations({t2, t3})
=============================================================================
