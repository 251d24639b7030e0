----------------------------- MODULE ArmPlatDb -----------------------------
(***************************************************************************)
(* ARMPLATDB, the platform database of armplat_1901.py, section by         *)
(* section and key for key, in the values of DbValues.  A str is written   *)
(* as its text atoms and its references: Ref(<<"a", "b">>) is "{a.b}", AT *)
(* is "@" and HASH the "#" of a structural reference.  A list of keys is   *)
(* L(...) of key paths split at ".".  Left out is "host", read only by     *)
(* check_apt_deps for its package lists: no key that the menus, the        *)
(* summary or sh.fetch look up has a segment "host".                       *)
(***************************************************************************)
EXTENDS DbValues

T(x)      == Str(<<x>>)
Ref(segs) == <<LB>> \o Path(segs) \o <<RB>>
L(keys)   == List([i \in DOMAIN keys |-> Path(keys[i])])

\* ARMPLATDB["arm"], lines 161-165.
Arm ==
  Dict(
     ("rel" :> T("19.01"))
  @@ ("vsn" :> T("19.01c"))
  @@ ("cms" :> T("cms.developer.arm.com")))

\* ARMPLATDB["linaro"], lines 167-170.
Linaro ==
  Dict(
     ("lt" :> T("Linaro/ArmLT"))
  @@ ("url" :> T("releases.linaro.org")))

\* ARMPLATDB["p"]["board"]["juno"], lines 249-332.
JunoBoards ==
  Dict(
     ("name" :> T("Juno"))
  @@ ("includes" :> L(<<<<"oc", "mb">>, <<"oc", "scp", "juno">>, <<"oc", "tfa">>, <<"oc", "optee", "os">>, <<"oc", "optee", "client">>>>))
  @@ ("mb" :> Dict(("commit" :> T("ca486a5a90"))))
  @@ ("64b" :> Dict(
        ("name" :> T("Juno with 64-bit software stack"))
     @@ ("pdir" :> T("juno"))
     @@ ("deps" :> L(<<<<"dl", "tool", "gcc", "a64">>, <<"dl", "tool", "gcc", "a32">>>>))
     @@ ("ack" :> Dict(
           ("code" :> T("juno"))
        @@ ("vsn" :> T("ack-4.14-armlt"))
        @@ ("commit" :> T("cb9214c4c3"))))
     @@ ("android" :> Dict(
           ("rel" :> T("19.01"))
        @@ ("codename" :> T("Pie"))
        @@ ("rootfs" :> T("juno.img.bz2"))
        @@ ("url" :> Str(Ref(<<"linaro", "url">>) \o <<"/members/arm/android/juno/">> \o Ref(<<"rel">>)))
        @@ ("ramdisk" :> Dict(("dir" :> T("prebuilts/android/juno"))))))
     @@ ("oe" :> Dict(
           ("rel" :> T("17.01"))
        @@ ("vsn" :> T("5.2_20170127-761"))
        @@ ("url" :> Str(Ref(<<"linaro", "url">>) \o <<"/openembedded/juno-lsk/">> \o Ref(<<"rel">>)))
        @@ ("md5name" :> Str(Ref(<<"dl", "img", "oe", "name">>) \o <<".md5">>))))
     @@ ("k" :> L(<<<<"k", "ack">>, <<"k", "latest">>>>))
     @@ ("fs" :> L(<<<<"fs", "busybox">>, <<"fs", "oe", "mini">>, <<"fs", "oe", "lamp">>, <<"fs", "android">>>>))
     @@ ("fw" :> L(<<<<"fw", "edkii">>>>))
     @@ ("pb" :> L(<<<<"pb", "ack", "android">>, <<"pb", "latest", "busybox">>, <<"pb", "latest", "oe", "mini">>, <<"pb", "latest", "oe", "lamp">>, <<"pb", "edkii">>>>))))
  @@ ("legacy" :> Dict(
        ("name" :> T("Juno with legacy 32-bit software stack"))
     @@ ("pdir" :> T("juno32"))
     @@ ("deps" :> L(<<<<"dl", "tool", "gcc", "a64">>, <<"dl", "tool", "gcc", "a32">>>>))
     @@ ("oe" :> Dict(
           ("rel" :> T("15.07"))
        @@ ("vsn" :> T("4.9_20150725-725"))
        @@ ("url" :> Str(Ref(<<"linaro", "url">>) \o <<"/openembedded/vexpress-lsk/">> \o Ref(<<"rel">>)))))
     @@ ("k" :> L(<<<<"k", "ack">>, <<"k", "latest">>>>))
     @@ ("fs" :> L(<<<<"fs", "busybox">>, <<"fs", "oe", "alip">>>>))
     @@ ("fw" :> T("null"))
     @@ ("pb" :> L(<<<<"pb", "ack", "busybox">>, <<"pb", "latest", "busybox">>, <<"pb", "latest", "oe", "alip">>>>)))))

\* ARMPLATDB["p"]["board"]["unsup"], lines 335-364.
UnsupportedBoards ==
  Dict(
     ("name" :> T("Unsupported boards"))
  @@ ("tc2" :> Dict(
        ("name" :> T("TC2 with legacy 32-bit software stack"))
     @@ ("pdir" :> T("tc2"))
     @@ ("deps" :> L(<<<<"dl", "tool", "gcc", "a32">>>>))
     @@ ("android" :> Dict(
           ("rel" :> T("6.0-15.11"))
        @@ ("codename" :> T("Marshmallow"))
        @@ ("rootfs" :> T("vexpress.img.bz2"))
        @@ ("url" :> Str(Ref(<<"linaro", "url">>) \o <<"/android/reference-lcr/vexpress/">> \o Ref(<<"rel">>)))
        @@ ("ramdisk" :> Dict(("dir" :> T("prebuilts/android/tc2"))))))
     @@ ("oe" :> Str(<<HASH>> \o Ref(<<"p", "board", "juno", "legacy", "oe">>)))
     @@ ("k" :> Str(<<HASH>> \o Ref(<<"p", "board", "juno", "legacy", "k">>)))
     @@ ("fs" :> L(<<<<"fs", "busybox">>, <<"fs", "oe", "alip">>, <<"fs", "android">>>>))
     @@ ("fw" :> L(<<<<"fw", "edkii">>>>))
     @@ ("pb" :> T("null")))))

\* ARMPLATDB["p"]["board"], lines 245-365.
Boards ==
  Dict(
     ("name" :> T("Development boards"))
  @@ ("juno" :> JunoBoards)
  @@ ("unsup" :> UnsupportedBoards))

\* ARMPLATDB["p"]["fvp"]["v8a"], lines 372-461.
ArmV8Fvps ==
  Dict(
     ("name" :> T("Armv8 architecture"))
  @@ ("pdir" :> T("fvp"))
  @@ ("includes" :> L(<<<<"oc", "tfa">>, <<"oc", "optee", "os">>, <<"oc", "optee", "client">>>>))
  @@ ("base" :> Dict(
        ("name" :> T("Armv8-A Base Platform"))
     @@ ("descr" :> T("11.3.30+ (Rev C)"))
     @@ ("64b" :> Dict(
           ("name" :> T("Armv8-A Base Platform with 64-bit software stack"))
        @@ ("deps" :> L(<<<<"dl", "tool", "gcc", "a64">>, <<"dl", "tool", "gcc", "a32">>>>))
        @@ ("descr" :> T("null"))
        @@ ("android" :> Dict(
              ("rel" :> T("7.0-16.10"))
           @@ ("codename" :> T("Nougat"))
           @@ ("rootfs" :> T("fvp.img.bz2"))
           @@ ("url" :> Str(Ref(<<"linaro", "url">>) \o <<"/android/reference-lcr/fvp/">> \o Ref(<<"rel">>)))
           @@ ("ramdisk" :> Dict(("dir" :> T("prebuilts/android/fvp"))))))
        @@ ("oe" :> Dict(
              ("rel" :> T("15.09"))
           @@ ("vsn" :> T("4.9_20150912-729"))
           @@ ("url" :> Str(Ref(<<"linaro", "url">>) \o <<"/openembedded/juno-lsk/">> \o Ref(<<"rel">>)))
           @@ ("md5name" :> T("MD5SUMS.txt"))))
        @@ ("k" :> L(<<<<"k", "ack">>, <<"k", "latest">>>>))
        @@ ("fs" :> L(<<<<"fs", "busybox">>, <<"fs", "oe", "mini">>, <<"fs", "oe", "lamp">>, <<"fs", "android">>>>))
        @@ ("fw" :> L(<<<<"fw", "edkii">>>>))
        @@ ("pb" :> L(<<<<"pb", "ack", "busybox">>, <<"pb", "latest", "busybox">>, <<"pb", "edkii">>>>))))
     @@ ("legacy" :> Dict(
           ("name" :> T("Armv8-A Base Platform with legacy 32-bit software stack"))
        @@ ("pdir" :> T("fvp32"))
        @@ ("deps" :> L(<<<<"dl", "tool", "gcc", "a32">>>>))
        @@ ("descr" :> T("null"))
        @@ ("oe" :> Str(<<HASH>> \o Ref(<<"p", "board", "juno", "legacy", "oe">>)))
        @@ ("k" :> Str(<<HASH>> \o Ref(<<"p", "board", "juno", "legacy", "k">>)))
        @@ ("fs" :> Str(<<HASH>> \o Ref(<<"p", "board", "juno", "legacy", "fs">>)))
        @@ ("fw" :> T("null"))
        @@ ("pb" :> Str(<<HASH>> \o Ref(<<"p", "board", "juno", "legacy", "pb">>)))))))
  @@ ("fndn" :> Dict(
        ("name" :> T("Armv8-A Foundation Model"))
     @@ ("descr" :> T("11.3.30+"))
     @@ ("64b" :> Dict(
           ("name" :> T("Armv8-A Foundation Model with 64-bit software stack"))
        @@ ("deps" :> L(<<<<"dl", "tool", "gcc", "a64">>, <<"dl", "tool", "gcc", "a32">>>>))
        @@ ("descr" :> T("null"))
        @@ ("android" :> Str(<<HASH>> \o Ref(<<"p", "fvp", "v8a", "base", "64b", "android">>)))
        @@ ("oe" :> Str(<<HASH>> \o Ref(<<"p", "fvp", "v8a", "base", "64b", "oe">>)))
        @@ ("k" :> Str(<<HASH>> \o Ref(<<"p", "fvp", "v8a", "base", "64b", "k">>)))
        @@ ("fs" :> Str(<<HASH>> \o Ref(<<"p", "fvp", "v8a", "base", "64b", "fs">>)))
        @@ ("fw" :> Str(<<HASH>> \o Ref(<<"p", "fvp", "v8a", "base", "64b", "fw">>)))
        @@ ("pb" :> Str(<<HASH>> \o Ref(<<"p", "fvp", "v8a", "base", "64b", "pb">>))))))))

\* ARMPLATDB["p"]["fvp"]["sg"], lines 464-532.
SystemGuidanceFvps ==
  Dict(
     ("name" :> T("System Guidance"))
  @@ ("deps" :> L(<<<<"dl", "tool", "gcc", "a64">>, <<"dl", "tool", "gcc", "a32">>, <<"dl", "tool", "gcc", "scp", "5">>>>))
  @@ ("i" :> Dict(
        ("name" :> T("System Guidance for Infrastructure (SGI)"))
     @@ ("includes" :> L(<<<<"oc", "tfa">>, <<"oc", "scp">>>>))
     @@ ("575" :> Dict(
           ("name" :> T("SGI-575"))
        @@ ("pdir" :> T("sgi575"))
        @@ ("linux" :> Dict(("vsn" :> T("4.20"))))
        @@ ("fedora" :> Dict(
              ("rel" :> T("27"))
           @@ ("vsn" :> T("27-1.6"))))
        @@ ("k" :> L(<<<<"k", "mainline">>>>))
        @@ ("fs" :> L(<<<<"fs", "busybox">>, <<"fs", "fedora">>>>))
        @@ ("pb" :> L(<<<<"pb", "latest", "busybox", "edkii">>>>))
        @@ ("fw" :> T("null"))))))
  @@ ("m" :> Dict(
        ("name" :> T("System Guidance for Mobile (SGM)"))
     @@ ("includes" :> L(<<<<"oc", "tfa">>, <<"oc", "optee", "os">>, <<"oc", "optee", "client">>, <<"oc", "scp">>>>))
     @@ ("775" :> Dict(
           ("name" :> T("SGM-775"))
        @@ ("pdir" :> T("sgm775"))
        @@ ("ack" :> Dict(
              ("vsn" :> T("ack-4.9-armlt-18.10"))
           @@ ("commit" :> T("null"))))
        @@ ("android" :> Dict(
              ("rel" :> T("(built from source)"))
           @@ ("codename" :> T("Oreo"))))
        @@ ("k" :> L(<<<<"k", "ack", "sgm775", "busybox">>, <<"k", "ack", "sgm775", "android">>>>))
        @@ ("fs" :> L(<<<<"fs", "android", "bfs">>, <<"fs", "busybox">>>>))
        @@ ("pb" :> L(<<<<"pb", "ack", "busybox">>, <<"pb", "ack", "android", "big">>>>))
        @@ ("fw" :> T("null")))))))

\* ARMPLATDB["p"]["fvp"], lines 368-533.
Fvps ==
  Dict(
     ("name" :> T("Fixed Virtual Platforms (FVPs)"))
  @@ ("v8a" :> ArmV8Fvps)
  @@ ("sg" :> SystemGuidanceFvps))

\* ARMPLATDB["p"], lines 230-542.
Platforms ==
  Dict(
     ("name" :> T("Platforms"))
  @@ ("mrel" :> Str(Ref(<<"arm", "rel">>)))
  @@ ("manifests" :> T("https://git.linaro.org/landing-teams/working/arm/manifest"))
  @@ ("pburl" :> Str(Ref(<<"linaro", "url">>) \o <<"/members/arm/platforms/">> \o Ref(<<"arm", "rel">>)))
  @@ ("ack" :> Dict(
        ("code" :> T("ack"))
     @@ ("vsn" :> T("ack-4.9-armlt"))
     @@ ("commit" :> T("d4c7d1c81b"))))
  @@ ("pihooks" :> T("null"))
  @@ ("board" :> Boards)
  @@ ("fvp" :> Fvps)
  @@ ("all" :> L(<<<<"p", "board", "juno", "64b">>, <<"p", "board", "juno", "legacy">>, <<"p", "board", "unsup", "tc2">>, <<"p", "fvp", "v8a", "base", "64b">>, <<"p", "fvp", "v8a", "base", "legacy">>, <<"p", "fvp", "v8a", "fndn", "64b">>, <<"p", "fvp", "sg", "i", "575">>, <<"p", "fvp", "sg", "m", "775">>>>)))

\* ARMPLATDB["k"], lines 560-616.
Kernels ==
  Dict(
     ("name" :> T("Linux kernel & userspace filesystem"))
  @@ ("priority" :> PyInt(51))
  @@ ("ack" :> Dict(
        ("name" :> Str(Ref(<<"linaro", "lt">>) \o <<" Android Common Kernel">>))
     @@ ("vsn" :> Str(Ref(<<AT, "ack", "vsn">>)))
     @@ ("commit" :> Str(Ref(<<AT, "ack", "commit">>)))
     @@ ("manifest" :> Str(<<"pinned-">> \o Ref(<<AT, "ack", "code">>) \o <<".xml">>))
     @@ ("fs" :> L(<<<<"fs", "busybox">>, <<"fs", "oe", "alip">>, <<"fs", "oe", "mini">>, <<"fs", "oe", "lamp">>, <<"fs", "android">>, <<"fs", "android", "bfs">>>>))
     @@ ("sgm775" :> Dict(
           ("busybox" :> Dict(("manifest" :> T("sgm775.xml"))))
        @@ ("android" :> Dict(("manifest" :> T("sgm775-android.xml"))))))))
  @@ ("latest" :> Dict(
        ("name" :> Str(Ref(<<"linaro", "lt">>) \o <<" Latest Stable Kernel">>))
     @@ ("vsn" :> T("4.19"))
     @@ ("commit" :> T("e97e8d868a"))
     @@ ("manifest" :> T("pinned-latest.xml"))
     @@ ("fs" :> L(<<<<"fs", "busybox">>, <<"fs", "oe", "alip">>, <<"fs", "oe", "mini">>, <<"fs", "oe", "lamp">>>>))))
  @@ ("mainline" :> Dict(
        ("name" :> T("Mainline Kernel"))
     @@ ("vsn" :> Str(Ref(<<AT, "linux", "vsn">>) \o <<" master">>))
     @@ ("commit" :> T("null"))
     @@ ("manifest" :> Str(<<"pinned-">> \o Ref(<<AT, "pdir">>) \o <<".xml">>))
     @@ ("fs" :> L(<<<<"fs", "busybox">>, <<"fs", "fedora">>>>))
     @@ ("pb" :> Dict(("vsn" :> Str(Ref(<<AT, "linux", "vsn">>) \o <<" snapshot of master built on 2019-02-19">>)))))))

\* ARMPLATDB["fs"], lines 632-706.
Filesystems ==
  Dict(
     ("priority" :> PyInt(61))
  @@ ("android" :> Dict(
        ("name" :> T("Android"))
     @@ ("vsn" :> Str(Ref(<<AT, "android", "codename">>) \o <<" ">> \o Ref(<<AT, "android", "rel">>)))
     @@ ("commit" :> T("null"))
     @@ ("script" :> T("android"))
     @@ ("deps" :> L(<<<<"dl", "img", "android", "rootfs">>, <<"dl", "img", "android", "ramdisk">>>>))
     @@ ("bfs" :> Dict(
           ("deps" :> T("null"))
        @@ ("commit" :> Str(Ref(<<AT, "android", "commit">>)))))))
  @@ ("busybox" :> Dict(
        ("name" :> T("BusyBox"))
     @@ ("vsn" :> T("null"))
     @@ ("commit" :> T("111cdcf295"))
     @@ ("script" :> T("busybox"))))
  @@ ("oe" :> Dict(
        ("name" :> T("OpenEmbedded"))
     @@ ("vsn" :> Str(Ref(<<AT, "oe", "rel">>) \o <<" ">> \o Ref(<<AT, "oe", "vsn">>)))
     @@ ("commit" :> T("null"))
     @@ ("script" :> T("oe"))
     @@ ("alip" :> Dict(
           ("name" :> T("OpenEmbedded ALIP"))
        @@ ("deps" :> L(<<<<"dl", "img", "oe", "alip">>>>))))
     @@ ("mini" :> Dict(
           ("name" :> T("OpenEmbedded Minimal"))
        @@ ("deps" :> L(<<<<"dl", "img", "oe", "mini">>>>))))
     @@ ("lamp" :> Dict(
           ("name" :> T("OpenEmbedded LAMP"))
        @@ ("deps" :> L(<<<<"dl", "img", "oe", "lamp">>>>))))))
  @@ ("fedora" :> Dict(
        ("name" :> T("Fedora Server"))
     @@ ("vsn" :> Str(Ref(<<AT, "fedora", "vsn">>)))
     @@ ("commit" :> T("null"))
     @@ ("script" :> T("busybox"))
     @@ ("deps" :> L(<<<<"dl", "img", "fedora">>>>)))))

\* Mutant of Firmware: fw.edkii.platforms without its "includes": "null".
FirmwareInheritsIncludes ==
  Dict(
     ("name" :> T("Firmware & test suites"))
  @@ ("edkii" :> Dict(
        ("name" :> T("EDK II UEFI"))
     @@ ("vsn" :> T("edk2-stable201811"))
     @@ ("commit" :> T("005c855dc6"))
     @@ ("priority" :> PyInt(31))
     @@ ("stubfs" :> T("uefi"))
     @@ ("manifest" :> Str(<<"pinned-">> \o Ref(<<"stubfs">>) \o <<".xml">>))
     @@ ("includes" :> L(<<<<"fw", "edkii", "platforms">>>>))
     @@ ("platforms" :> Dict(
           ("name" :> T("EDK II Platforms"))
        @@ ("vsn" :> T("null"))
        @@ ("commit" :> T("80f6be6eb1"))
        @@ ("priority" :> PyInt(32)))))))

\* ARMPLATDB["fw"], lines 722-746.
Firmware ==
  Dict(
     ("name" :> T("Firmware & test suites"))
  @@ ("edkii" :> Dict(
        ("name" :> T("EDK II UEFI"))
     @@ ("vsn" :> T("edk2-stable201811"))
     @@ ("commit" :> T("005c855dc6"))
     @@ ("priority" :> PyInt(31))
     @@ ("stubfs" :> T("uefi"))
     @@ ("manifest" :> Str(<<"pinned-">> \o Ref(<<"stubfs">>) \o <<".xml">>))
     @@ ("includes" :> L(<<<<"fw", "edkii", "platforms">>>>))
     @@ ("platforms" :> Dict(
           ("name" :> T("EDK II Platforms"))
        @@ ("vsn" :> T("null"))
        @@ ("commit" :> T("80f6be6eb1"))
        @@ ("priority" :> PyInt(32))
        @@ ("includes" :> T("null")))))))

\* ARMPLATDB["pb"]["ack"], lines 760-801.
PrebuiltAck ==
  Dict(
     ("name0" :> Str(Ref(<<"k", "ack", "name">>)))
  @@ ("android" :> Dict(
        ("name" :> Str(Ref(<<"name0">>) \o <<" + ">> \o Ref(<<"fs", "android", "name">>)))
     @@ ("deps" :> L(<<<<"dl", "img", "android", "rootfs">>, <<"dl", "archive", "ack", "android">>>>))
     @@ ("includes" :> L(<<<<"oc", "uboot">>, <<"k", "ack">>, <<"fs", "android">>>>))
     @@ ("debug" :> Dict(("deps" :> L(<<<<"dl", "img", "android", "rootfs">>, <<"dl", "archive", "ack", "android">>, <<"dl", "archive", "ack", "android", "debug">>>>))))
     @@ ("big" :> Dict(
           ("name" :> Str(Ref(<<"name0">>) \o <<" + ">> \o Ref(<<"fs", "android", "name">>)))
        @@ ("deps" :> L(<<<<"dl", "archive", "ack", "android">>>>))))))
  @@ ("busybox" :> Dict(
        ("name" :> Str(Ref(<<"name0">>) \o <<" + ">> \o Ref(<<"fs", "busybox", "name">>)))
     @@ ("deps" :> L(<<<<"dl", "archive", "ack", "busybox">>>>))
     @@ ("includes" :> L(<<<<"oc", "uboot">>, <<"k", "ack">>, <<"fs", "busybox">>>>)))))

\* ARMPLATDB["pb"]["latest"], lines 804-883.
PrebuiltLatest ==
  Dict(
     ("name0" :> Str(Ref(<<"k", "latest", "name">>)))
  @@ ("busybox" :> Dict(
        ("name" :> Str(Ref(<<"name0">>) \o <<" + ">> \o Ref(<<"fs", "busybox", "name">>)))
     @@ ("deps" :> L(<<<<"dl", "archive", "latest", "busybox">>>>))
     @@ ("includes" :> L(<<<<"oc", "uboot">>, <<"k", "latest">>, <<"fs", "busybox">>>>))
     @@ ("edkii" :> Dict(
           ("name0" :> Str(Ref(<<"fw", "edkii", "name">>)))
        @@ ("deps" :> L(<<<<"dl", "archive", "latest", "busybox", "edkii">>>>))
        @@ ("includes" :> L(<<<<"fw", "edkii">>, <<"k", "mainline", "pb">>, <<"fs", "busybox">>>>))))))
  @@ ("oe" :> Dict(
        ("alip" :> Dict(
           ("name" :> Str(Ref(<<"name0">>) \o <<" + ">> \o Ref(<<"fs", "oe", "alip", "name">>)))
        @@ ("deps" :> L(<<<<"dl", "img", "oe", "alip">>, <<"dl", "archive", "latest", "oe">>>>))
        @@ ("includes" :> L(<<<<"oc", "uboot">>, <<"k", "latest">>, <<"fs", "oe", "alip">>>>))))
     @@ ("mini" :> Dict(
           ("name" :> Str(Ref(<<"name0">>) \o <<" + ">> \o Ref(<<"fs", "oe", "mini", "name">>)))
        @@ ("deps" :> L(<<<<"dl", "img", "oe", "mini">>, <<"dl", "archive", "latest", "oe">>>>))
        @@ ("includes" :> L(<<<<"oc", "uboot">>, <<"k", "latest">>, <<"fs", "oe", "mini">>>>))
        @@ ("debug" :> Dict(("deps" :> L(<<<<"dl", "img", "oe", "mini">>, <<"dl", "archive", "latest", "oe">>, <<"dl", "archive", "latest", "oe", "debug">>>>))))))
     @@ ("lamp" :> Dict(
           ("name" :> Str(Ref(<<"name0">>) \o <<" + ">> \o Ref(<<"fs", "oe", "lamp", "name">>)))
        @@ ("deps" :> L(<<<<"dl", "img", "oe", "lamp">>, <<"dl", "archive", "latest", "oe">>>>))
        @@ ("includes" :> L(<<<<"oc", "uboot">>, <<"k", "latest">>, <<"fs", "oe", "lamp">>>>))
        @@ ("debug" :> Dict(("deps" :> L(<<<<"dl", "img", "oe", "lamp">>, <<"dl", "archive", "latest", "oe">>, <<"dl", "archive", "latest", "oe", "debug">>>>)))))))))

\* ARMPLATDB["pb"], lines 757-895.
Prebuilts ==
  Dict(
     ("ack" :> PrebuiltAck)
  @@ ("latest" :> PrebuiltLatest)
  @@ ("edkii" :> Dict(
        ("name" :> Str(Ref(<<"fw", "edkii", "name">>)))
     @@ ("deps" :> L(<<<<"dl", "archive", "edkii">>>>))
     @@ ("includes" :> L(<<<<"fw", "edkii">>>>)))))

\* ARMPLATDB["oc"], lines 901-958.
OtherComponents ==
  Dict(
     ("mb" :> Dict(
        ("name" :> T("Motherboard firmware"))
     @@ ("vsn" :> T("null"))
     @@ ("commit" :> Str(Ref(<<AT, "mb", "commit">>)))
     @@ ("priority" :> PyInt(0))))
  @@ ("tfa" :> Dict(
        ("name" :> T("Trusted Firmware-A"))
     @@ ("vsn" :> T("2.0"))
     @@ ("commit" :> T("dbc8d9496e"))
     @@ ("priority" :> PyInt(11))))
  @@ ("scp" :> Dict(
        ("name" :> T("SCP-Firmware"))
     @@ ("vsn" :> T("2.4.0"))
     @@ ("commit" :> T("8533a3eeb7"))
     @@ ("priority" :> PyInt(12))
     @@ ("juno" :> Dict(
           ("vsn" :> T("1.28-rc0"))
        @@ ("commit" :> T("null"))))))
  @@ ("optee" :> Dict(
        ("name" :> Str(<<"OP-TEE ">> \o Ref(<<"part">>)))
     @@ ("vsn" :> T("3.0"))
     @@ ("os" :> Dict(
           ("part" :> T("OS"))
        @@ ("commit" :> T("94ee4938f7"))
        @@ ("priority" :> PyInt(21))))
     @@ ("client" :> Dict(
           ("part" :> T("Client"))
        @@ ("commit" :> T("09b69afa5e"))
        @@ ("priority" :> PyInt(22))))))
  @@ ("uboot" :> Dict(
        ("name" :> Str(Ref(<<"linaro", "lt">>) \o <<" U-Boot">>))
     @@ ("vsn" :> T("2017.07"))
     @@ ("commit" :> T("1c62c1eaa1"))
     @@ ("priority" :> PyInt(41)))))

\* ARMPLATDB["dl"]["tool"], lines 980-1030.
DlTools ==
  Dict(
     ("gcc" :> Dict(
           ("rel" :> T("6.2-2016.11"))
        @@ ("vsn" :> T("6.2.1-2016.11"))
        @@ ("url" :> Str(<<"http://">> \o Ref(<<"linaro", "url">>) \o <<"/components/toolchain/binaries/">>
                         \o Ref(<<"rel">>) \o <<"/">> \o Ref(<<"tuple">>)))
        @@ ("name" :> Str(<<"gcc-linaro-">> \o Ref(<<"vsn">>) \o <<"-x86_64_">> \o Ref(<<"tuple">>) \o <<".tar.xz">>))
        @@ ("md5name" :> Str(Ref(<<"name">>) \o <<".asc">>))
        @@ ("dir" :> T("tools/gcc"))
        @@ ("a32" :> Dict(("tuple" :> T("arm-linux-gnueabihf"))))
        @@ ("a64" :> Dict(("tuple" :> T("aarch64-linux-gnu"))))
        @@ ("scp" :> Dict(
              ("tuple" :> T("arm-none-eabi"))
           @@ ("name" :> Str(<<"gcc-">> \o Ref(<<"tuple">>) \o <<"-">> \o Ref(<<"vsn">>) \o <<"-linux.tar.bz2">>))
           @@ ("5" :> Dict(
                 ("url" :> Str(<<"https://launchpad.net/gcc-arm-embedded/">> \o Ref(<<"rel">>) \o <<"/+download">>))
              @@ ("md5name" :> Str(Ref(<<"name">>) \o <<"/+md5">>))
              @@ ("rel" :> T("5.0/5-2016-q3-update"))
              @@ ("vsn" :> T("5_4-2016q3-20160926"))))
           @@ ("7" :> Dict(
                 ("url" :> Str(Ref(<<"arm", "cms">>) \o <<"/-/media/Files/downloads/gnu-rm/">> \o Ref(<<"rel">>)))
              @@ ("md5name" :> T("null"))
              @@ ("rel" :> T("7-2018q2"))
              @@ ("vsn" :> T("7-2018-q2-update"))))))))
  @@ ("repo" :> Dict(
        ("name" :> T("repo"))
     @@ ("dir" :> T("tools"))
     @@ ("url" :> T("storage.googleapis.com/git-repo-downloads")))))

\* ARMPLATDB["dl"]["img"], lines 1033-1085.
DlImages ==
  Dict(
     ("dir" :> T("."))
  @@ ("android" :> Dict(
        ("url" :> Str(Ref(<<AT, "android", "url">>)))
     @@ ("md5name" :> T("MD5SUMS"))
     @@ ("rootfs" :> Dict(("name" :> Str(Ref(<<AT, "android", "rootfs">>)))))
     @@ ("ramdisk" :> Dict(
           ("name" :> T("ramdisk.img"))
        @@ ("dir" :> Str(Ref(<<AT, "android", "ramdisk", "dir">>)))))))
  @@ ("oe" :> Dict(
        ("url" :> Str(Ref(<<AT, "oe", "url">>)))
     @@ ("name" :> Str(Ref(<<"name0">>) \o <<"-openembedded_">> \o Ref(<<"name1">>) \o <<"-">> \o Ref(<<"name2">>)
                      \o <<"-gcc-">> \o Ref(<<AT, "oe", "vsn">>) \o <<".img.gz">>))
     @@ ("alip" :> Dict(
           ("name0" :> T("lsk-vexpress")) @@ ("name1" :> T("alip"))
        @@ ("name2" :> T("armv7a")) @@ ("md5name" :> T("null"))))
     @@ ("mini" :> Dict(
           ("name0" :> T("lt-vexpress64")) @@ ("name1" :> T("minimal"))
        @@ ("name2" :> T("armv8")) @@ ("md5name" :> Str(Ref(<<AT, "oe", "md5name">>)))))
     @@ ("lamp" :> Dict(
           ("name0" :> T("lt-vexpress64")) @@ ("name1" :> T("lamp"))
        @@ ("name2" :> T("armv8")) @@ ("md5name" :> Str(Ref(<<AT, "oe", "md5name">>)))))))
  @@ ("fedora" :> Dict(
        ("url0" :> T("https://dl.fedoraproject.org/pub/fedora-secondary/releases"))
     @@ ("url" :> Str(Ref(<<"url0">>) \o <<"/">> \o Ref(<<AT, "fedora", "rel">>) \o <<"/Server/aarch64/iso/">>))
     @@ ("name" :> Str(<<"Fedora-Server-dvd-aarch64-">> \o Ref(<<AT, "fedora", "vsn">>) \o <<".iso">>)))))

\* ARMPLATDB["dl"]["archive"], lines 1088-1149.
DlArchives ==
  Dict(
     ("url" :> Str(Ref(<<AT, "pburl">>)))
  @@ ("md5name" :> T("MD5SUMS"))
  @@ ("dir" :> Str(Ref(<<"basename">>)))
  @@ ("name0" :> Str(Ref(<<AT, "pdir">>)))
  @@ ("name3" :> T("uboot"))
  @@ ("basename" :> Str(Ref(<<"name0">>) \o <<"-">> \o Ref(<<"name1">>) \o <<"-">> \o Ref(<<"name2">>) \o <<"-">> \o Ref(<<"name3">>)))
  @@ ("name" :> Str(Ref(<<"basename">>) \o <<".">> \o Ref(<<"fmt">>)))
  @@ ("fmt" :> T("zip"))
  @@ ("ack" :> Dict(
        ("name1" :> T("ack"))
     @@ ("android" :> Dict(
           ("name2" :> Str(Ref(<<"fs", "android", "script">>)))
        @@ ("debug" :> Dict(("name3" :> T("debug")) @@ ("fmt" :> T("tar.xz"))))))
     @@ ("busybox" :> Dict(("name2" :> Str(Ref(<<"fs", "busybox", "script">>)))))))
  @@ ("latest" :> Dict(
        ("name1" :> T("latest"))
     @@ ("busybox" :> Dict(
           ("name2" :> Str(Ref(<<"fs", "busybox", "script">>)))
        @@ ("edkii" :> Dict(("name3" :> Str(Ref(<<"fw", "edkii", "stubfs">>)))))))
     @@ ("oe" :> Dict(
           ("name2" :> Str(Ref(<<"fs", "oe", "script">>)))
        @@ ("debug" :> Dict(("name3" :> T("debug")) @@ ("fmt" :> T("tar.xz"))))))))
  @@ ("edkii" :> Dict(("basename" :> Str(Ref(<<"name0">>) \o <<"-">> \o Ref(<<"fw", "edkii", "stubfs">>))))))

\* ARMPLATDB["dl"], lines 977-1150.
Downloads ==
  Dict(("tool" :> DlTools) @@ ("img" :> DlImages) @@ ("archive" :> DlArchives))

ARMPLATDB ==
  [k \in {"arm", "linaro", "p", "k", "fs", "fw", "pb", "oc", "dl"} |->
     CASE k = "arm" -> Arm [] k = "linaro" -> Linaro [] k = "p" -> Platforms
       [] k = "k" -> Kernels [] k = "fs" -> Filesystems [] k = "fw" -> Firmware
       [] k = "pb" -> Prebuilts [] k = "oc" -> OtherComponents
       [] k = "dl" -> Downloads]
=============================================================================
