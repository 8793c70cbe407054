------------------------------- MODULE MCVeil -------------------------------
(* Instances of Veil: torrcs that include each other, themselves, a          *)
(* directory, a wildcard and a file outside; machines with every kind of     *)
(* daemon, and every stage of the VM backend.                              *)
EXTENDS Veil

Set(v)    == Directive("set", "SocksPort", v)
Append9   == Directive("append", "SocksPort", "9050")
Clear     == Directive("clear", "SocksPort", "0")
Cookie(v) == Directive("set", "CookieAuthentication", v)
NoCookie  == Directive("clear", "CookieAuthentication", "0")

MCPaths   == {"torrc", "torrc.d", "a.conf", "b", "passwd"}
MCOutside == {"passwd"}

Tree(main, a, b) ==
    "torrc" :> main @@ "torrc.d" :> Dir(<<"a.conf", "b">>) @@ "a.conf" :> a @@ "b" :> b
        @@ "passwd" :> File(<<Set("9150")>>)

\* The main file without an include, and with each kind.
Simple ==
    {Absent, File(<<>>), File(<<Set("9050"), Clear>>), File(<<Set("9150")>>)}

Including ==
    {File(<<Include("a.conf"), Append9>>),
     File(<<Set("9050"), Include("a.conf"), Include("a.conf")>>),
     File(<<Set("0"), Include("torrc.d"), Cookie("1")>>),
     File(<<Wildcard("torrc.d", {"a.conf"}), Cookie("1"), NoCookie>>),
     File(<<Include("passwd"), Include("b"), Set("9050")>>),
     File(<<Wildcard("torrc.d", {"b"}), Set("9050"), Wildcard("torrc.d", {"a.conf", "b"})>>)}

Fragments == {File(<<Clear>>), File(<<Append9, Cookie("1")>>), File(<<Include("a.conf")>>),
              File(<<Append9, Include("torrc")>>), File(<<Include("b"), Set("0")>>)}

Second == {Dir(<<"a.conf">>), File(<<Include("a.conf"), Set("9050")>>)}

Trees ==
    {Tree(main, File(<<>>), Absent) : main \in Simple}
    \cup {Tree(main, a, b) : main \in Including, a \in Fragments, b \in Second}

Machine(has, daemon, foreign) == [has |-> has, daemon |-> daemon, foreign |-> foreign]

Tor == {"tor", "torPackage", "systemd", "masterUp"}
Vm  == {"kvm", "kvmModule", "kvmAccess"}

Plain == "torrc" :> File(<<Set("9050")>>) @@ "torrc.d" :> Dir(<<>>) @@ "a.conf" :> File(<<>>)
            @@ "b" :> Absent @@ "passwd" :> Absent

MCWorlds ==
    \* every torrc, under a daemon that serves
    {[m |-> Machine(Tor, "serving", FALSE), fs |-> t] : t \in Trees}
    \* every daemon, on a torrc that enables and one that disables the port
    \cup {w \in {[m |-> Machine(has, d, f), fs |-> t] :
                    has \in {Tor, {"tor", "torPackage"}, {"tor", "systemd"}, {"systemd"}},
                    d \in {"stopped", "silent", "serving"}, f \in BOOLEAN,
                    t \in {Plain, [Plain EXCEPT !["torrc"] = File(<<Set("9050"), Clear>>)]}} :
             /\ w.m.daemon # "stopped" => "tor" \in w.m.has
             /\ w.fs # Plain => "masterUp" \in w.m.has
             /\ ~(w.m.foreign /\ w.m.daemon = "serving")}
    \* every stage of the VM backend
    \cup {[m |-> Machine(Tor \cup vm, "serving", FALSE), fs |-> Plain] :
             vm \in {{"qemu", "gateway"}, {"kvm", "libvirt"}, {"kvm", "kvmModule", "qemu"}, Vm,
                     Vm \cup {"kvmUnreadable", "qemu", "libvirt"}, Vm \cup {"qemu", "gateway"}}
                    \cup {Vm \cup {"qemu", "libvirt"} \cup images :
                              images \in {{}, {"gateway"}, {"gateway", "workstation", "launcher"}}}}

MCEdits == {[path |-> "torrc", entry |-> File(<<Set("9050"), Clear>>)],
            [path |-> "torrc", entry |-> File(<<Include("a.conf"), Append9>>)],
            [path |-> "a.conf", entry |-> File(<<Clear>>)],
            [path |-> "a.conf", entry |-> File(<<Append9>>)],
            [path |-> "b", entry |-> File(<<Include("torrc.d")>>)],
            [path |-> "b", entry |-> Absent]}

\* All that stands in a file or a directory in some world or after some edit.
MCContents == {w.fs[p] : w \in MCWorlds, p \in MCPaths} \cup {e.entry : e \in MCEdits}
MCFiles    == {c.body : c \in {x \in MCContents : x.kind = "file"}}
MCDirs     == {<<"a.conf", "b">>, <<"a.conf">>, <<>>}

MCToggles == {{"tor", "torPackage"}, {"launcher"}, {"kvm"}, {"kvmAccess"},
              {"qemu"}, {"libvirt"}, {"gateway"}}
=============================================================================
