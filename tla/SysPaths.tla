------------------------------ MODULE SysPaths ------------------------------
(***************************************************************************)
(* What a system call takes and gives back (Kernel/syscall.c, vfs.c,       *)
(* net/uipc_syscall.c, elf.c, kthread.c, gfx/kframe.c).  Each function is  *)
(* the sequence of its steps that allocate, release, hand on or may fail,  *)
(* in the order of the code, with the label each failure jumps to.         *)
(***************************************************************************)
EXTENDS Integers, Sequences

(***************************************************************************)
(* The steps of which this module builds the functions of the              *)
(* kernel, as CallPaths runs them: a step allocates, releases, hands on or *)
(* may fail.                                                               *)
(*                                                                         *)
(* A step marked Lossy is one where the code itself loses an object or     *)
(* releases one it does not own.  They are the only such places.           *)
(***************************************************************************)
(* A step: what it does, to what, where to go (0 returns), and Lossy. *)
Step(op, o, l) == [op |-> op, o |-> o, l |-> l, lossy |-> FALSE]
Chk(l)     == Step("chk", "", l)     \* may fail
Fails(l)   == Step("fail", "", l)    \* fails
Get(o, l)  == Step("get", o, l)      \* allocate, or fail
Got(o)     == Step("got", o, 0)      \* allocate, failure asserted away or not looked at
Put(o)     == Step("put", o, 0)      \* release
PutIf(o)   == Step("putif", o, 0)    \* release if the pointer is set
PutOwn(o)  == Step("putown", o, 0)   \* release if it is ours (pv != rootv, iov != aiov)
Move(o)    == Step("move", o, 0)     \* hand on to the descriptor table
Give(o)    == Step("putown", o, 0)   \* hand on to an object that is held
Lose(o)    == Step("lose", o, 0)     \* the function forgets it
Call(f, l) == Step("call", f, l)
Skip(n)    == Step("skip", "", n)    \* the condition of the next n steps does not hold
Again(l)   == Step("again", "", l)   \* a loop
Goto(l)    == Step("goto", "", l)
Ret        == Step("goto", "", 0)
OkRet      == Step("ok", "", 0)      \* returns well whatever failed before
Lossy(s)   == [s EXCEPT !.lossy = TRUE]
-----------------------------------------------------------------------------
(* vfs.c *)
(* A slip: a failing copy returns without freeing the name. *)
vfs_get_name_kept == <<Chk(0), Get("path", 0), Chk(0)>>

vfs_get_name == <<Chk(0), Get("path", 0), Chk(5), Ret, Put("path")>>

(* The copy of the path; one vnode for all components.  It is freed when   *)
(* no component was looked up, and lost when ".." left it.                 *)
vfs_path_lookup ==
  <<Got("_p"), Got("nextv"), Skip(4), Chk(8), Skip(1), Lossy(Lose("nextv")), Goto(9),
    Put("nextv"), Put("_p")>>

(* The directory is only kept if the file is the directory itself. If the  *)
(* file system's open fails, vfs_close gets an uninitialized pointer.      *)
vfs_open ==
  <<Get("suffix", 0), Call("vfs_path_lookup", 11), Call("ext2_open", 8), Chk(9),
    Lossy(Lose("nextv")), Put("suffix"), Ret,
    Lossy(Goto(11)), Put("file"), Lossy(Lose("nextv")), Put("suffix")>>

vfs_open_dev == <<Chk(0), Get("file", 0), Lossy(Chk(0))>>

vfs_create ==
  <<Chk(0), Got("suffix"), Call("vfs_path_lookup", 6), Call("ext2_create", 5),
    PutOwn("nextv"), Put("suffix")>>

falloc ==
  <<Get("newfile", 0), Get("id", 9), Lossy(Chk(9)), Chk(8), Give("id"), Move("newfile"), Ret,
    Put("id"), Put("newfile")>>

kread == <<Chk(0), Get("data", 0), Chk(5), Chk(5), Put("data")>>
kreadv ==
  <<Chk(0), Skip(1), Get("iov", 0), Chk(8), Chk(8), Call("kread", 8), Again(6), PutOwn("iov")>>
kwrite == <<Chk(0), Get("data", 0), Chk(5), Chk(5), Put("data")>>
kwritev ==
  <<Chk(0), Skip(1), Get("iov", 0), Chk(8), Chk(8), Call("kwrite", 8), Again(6), PutOwn("iov")>>

(* A failing fd_attach keeps the file and the count of open files. *)
kopen ==
  <<Chk(0), Skip(2), Call("vfs_open_dev", 0), Goto(9), Skip(2), Call("vfs_create", 0), Goto(9),
    Call("vfs_open", 0), Got("id"), Lossy(Chk(15)), Lossy(Chk(0)), Give("id"), Move("file"), Ret,
    Put("file")>>

kstat ==
  <<Chk(0), Get("suffix", 0), Call("vfs_path_lookup", 6), Call("ext2_stat", 5),
    PutOwn("nextv"), Put("suffix")>>

(* The parent directory is freed whether it is the root or not. *)
kunlink ==
  <<Chk(7), Get("suffix", 7), Call("vfs_path_lookup", 6), Chk(5), Lossy(Put("nextv")),
    Put("suffix"), Put("path")>>

kmkdir == <<Call("vfs_create", 0), Put("file")>>
kchdir == <<Call("vfs_open", 0), Chk(4), Goto(5), Put("file"), Give("file")>>
kstatfs == <<Call("kopen", 0), Chk(3), Put("fd")>>
kfsync == <<Chk(0), Call("ext2_sync", 0)>>
kutimes == <<Chk(0), Call("kopen", 0), Chk(5), Call("kfsync", 5), Put("fd")>>
kchmod == <<Chk(0), Call("vfs_open", 0), Call("ext2_sync", 4), Put("file")>>
kfchmod == <<Chk(0), Skip(1), Call("ext2_sync", 0)>>

(* ext2.c.  A file is freed with its vnode. *)
ext2_open ==
  <<Got("file"), Skip(2), Give("nextv"), Ret, Get("de", 13), Got("inode"), Chk(11),
    Put("de"), Put("inode"), Ret, Put("inode"), Put("de"), Put("file")>>
ext2_create == <<Got("vnode"), Chk(6), Give("vnode"), Got("file"), Ret, Put("vnode")>>
ext2_stat == <<Skip(1), Get("de", 0), Got("inode"), Chk(5), PutOwn("de"), Put("inode")>>
ext2_sync == <<Get("inode", 0), Chk(3), Put("inode")>>
-----------------------------------------------------------------------------
(* net/uipc_syscall.c.  A socket is handed on to its file. *)
socreate == <<Chk(0), Got("so"), Chk(5), Ret, Put("so")>>
ksocket ==
  <<Get("file", 0), Call("socreate", 7), Give("so"), Lossy(Chk(0)), Move("file"), Ret, Put("file")>>
kbind == <<Chk(0), Get("nam", 0), Chk(4), Put("nam")>>
kaccept ==
  <<Chk(0), Get("file", 0), Got("nam"), Put("nam"), Lossy(Chk(0)), Move("file")>>
kconnect ==
  <<Chk(0), Get("nam", 0), Chk(8), Skip(2), Put("nam"), Fails(0), Chk(8), Put("nam")>>

(* sosend frees the control buffer on every return; the name is freed by   *)
(* nobody unless the error is EPIPE, and then the control buffer is freed  *)
(* a second time.                                                          *)
sosend == <<Chk(2), PutIf("control")>>
ksendit ==
  <<Chk(0), Skip(2), Get("to", 0), Chk(18), Skip(3), Chk(18), Get("control", 18), Chk(18),
    Call("sosend", 12), Lossy(Lose("to")), Ret,
    Skip(3), PutIf("to"), Lossy(PutIf("control")), Ret, Lossy(Lose("to")), Ret,
    PutOwn("to"), PutOwn("control")>>

soreceive == <<Chk(0), Skip(1), Got("from"), Skip(1), Got("control"), Chk(0)>>
krecvit == <<Chk(0), Call("soreceive", 4), Chk(4), PutIf("from"), PutIf("control")>>

(* No protocol answers PRU_CONNECT2. *)
ksocketpair ==
  <<Call("socreate", 0), Call("socreate", 9), Call("falloc", 8), Call("falloc", 7), Fails(6),
    Put("fd"), Put("fd"), Put("so"), Put("so")>>

sogetopt == <<Chk(0), Got("mp"), Chk(5), Ret, Put("mp")>>
kgetsockopt == <<Chk(0), Call("sogetopt", 0), Put("mp")>>

(* sosetopt frees the buffer whatever it returns. *)
sosetopt == <<Chk(2), PutIf("mp")>>
ksetsockopt ==
  <<Chk(0), Skip(1), Get("mp", 0), Call("sosetopt", 0), Lossy(PutIf("mp"))>>
-----------------------------------------------------------------------------
(* elf.c, kthread.c.  The module em and its dynamic section stay with the  *)
(* image of the process.                                                   *)
load_elf_shared_library_path ==
  <<Call("vfs_open", 0), Skip(2), Put("file"), Ret, Get("header", 20), Chk(20), Get("soph", 20),
    Chk(20), Got("soaddr"), Chk(20), Put("soaddr"), Again(9), Skip(2), Got("sody"), Chk(20),
    Get("em0", 20), Give("em0"), Give("sody"), Goto(21),
    PutOwn("sody"), PutOwn("soaddr"), PutOwn("soph"), PutOwn("header"), Put("file")>>
search_named_lib == <<Call("load_elf_shared_library", 3), OkRet, Again(1)>>
search_shared_library_path == <<Chk(0), Call("search_named_lib", 4), OkRet, Again(1)>>
resolv_depends_path == <<Chk(0), Call("search_shared_library", 0), Again(1)>>
load_elf ==
  <<Chk(0), Got("ph"), Got("em"), Give("em"), Chk(16), Got("addr"), Chk(15), Put("addr"), Again(6),
    Skip(4), Got("dy"), Chk(18), Give("dy"), Call("resolv_depends", 15), PutOwn("addr"), Put("ph"),
    Ret, Put("dy"), Goto(15)>>
load_binary ==
  <<Call("vfs_open", 0), Chk(10), Move("file"), Got("data"), Chk(7), Call("load_elf", 7),
    Put("data"), Put("fd"), Ret, Put("file")>>

(* On failure the references to the parent's directory and files stay      *)
(* counted.                                                                *)
kcreate_process ==
  <<Got("proc"), Got("pid"), Got("cwd"), Got("files"), Lossy(Chk(12)), Lossy(Call("load_binary", 12)),
    Give("cwd"), Give("files"), Give("pid"), Give("proc"), Ret, Put("pid"), Put("proc")>>
kexecve == <<Chk(0), Get("path", 0), Call("kcreate_process", 4), Put("path")>>

(* gfx/kframe.c.  frame_destroy frees the pen that frame_delete_pen freed. *)
kframe_create ==
  <<Skip(3), Get("pen", 0), Got("fm"), Goto(7), Got("fm"), Get("pen", 16), Get("fmid", 15), Chk(13),
    Give("pen"), Give("fm"), Give("fmid"), Ret, Put("fmid"), Goto(16), Put("pen"),
    Lossy(PutIf("pen")), Put("fm")>>
kwindow_create == <<Call("kframe_create", 0)>>
-----------------------------------------------------------------------------
(* syscall.c: the entry points that hold something over a call. *)
sys_open ==
  <<Chk(0), Call("vfs_get_name", 0), Lossy(Chk(0)), Lossy(Chk(0)), Call("kopen", 6), Put("path")>>
sys_read == <<Chk(0), Call("kread", 0)>>
sys_readv == <<Chk(0), Call("kreadv", 0)>>
sys_write == <<Chk(0), Call("kwrite", 0)>>
sys_writev == <<Chk(0), Call("kwritev", 0)>>
sys_execve == <<Chk(0), Call("kexecve", 0)>>
sys_stat == <<Chk(0), Call("vfs_get_name", 0), Call("kstat", 5), Chk(5), Put("path")>>
sys_unlink == <<Chk(0), Call("vfs_get_name", 0), Call("kunlink", 0)>>
sys_socket == <<Call("ksocket", 0)>>
sys_bind == <<Chk(0), Call("kbind", 0)>>

(* The descriptor is closed when all went well, too. *)
sys_accept == <<Chk(0), Call("kaccept", 0), Chk(5), Lossy(Goto(5)), Put("fd")>>
sys_sendto == <<Chk(0), Call("ksendit", 0)>>

(* A failing copy of the header frees an uninitialized pointer. *)
sys_sendmsg ==
  <<Chk(0), Lossy(Chk(8)), Chk(0), Skip(1), Got("iov"), Chk(8), Call("ksendit", 8), PutOwn("iov")>>
sys_recvfrom == <<Chk(0), Call("krecvit", 0)>>
sys_recvmsg ==
  <<Chk(0), Skip(1), Get("iov", 0), Chk(6), Call("krecvit", 6), PutOwn("iov")>>

(* A failing copy frees the heap buffer even when the one on the stack is  *)
(* in use.                                                                 *)
sys_ioctl ==
  <<Chk(0), Skip(1), Got("memp"), Chk(8), Chk(6), PutIf("memp"), Ret, Lossy(Put("memp"))>>
sys_getdents == <<Chk(0), Get("kbuf", 0), Chk(5), Chk(5), Put("kbuf")>>
sys_chdir == <<Chk(0), Call("vfs_get_name", 0), Call("kchdir", 4), Put("path")>>
sys_mkdir == <<Call("vfs_get_name", 0), Call("kmkdir", 3), Put("path")>>
sys_frame_create == <<Chk(0), Call("kframe_create", 0)>>
sys_window_create == <<Get("str", 0), Skip(2), Chk(7), Goto(6), Put("str"),
    Call("kwindow_create", 7), PutOwn("str")>>
sys_frame_text == <<Chk(0), Get("str", 0), Chk(4), Put("str")>>

(* An id below 1024 frees an uninitialized pointer. *)
sys_frame_draw_string == <<Lossy(Chk(5)), Chk(0), Get("str", 0), Chk(5), PutOwn("str")>>
sys_connect == <<Chk(0), Call("kconnect", 0)>>
sys_socketpair == <<Chk(0), Call("ksocketpair", 0), Skip(2), Chk(6), Ret, Put("fd"), Put("fd")>>
sys_getsockopt ==
  <<Chk(0), Skip(2), Chk(0), Get("optval", 0), Call("kgetsockopt", 7), Chk(7), PutOwn("optval")>>
sys_setsockopt ==
  <<Chk(0), Skip(2), Get("optval", 0), Chk(6), Call("ksetsockopt", 6), PutOwn("optval")>>
sys_getdirentries == <<Chk(0), Get("buf", 0), Chk(4), Put("buf")>>
sys_statfs ==
  <<Chk(0), Get("sf", 6), Call("vfs_get_name", 6), Call("kstatfs", 6), Chk(6), PutOwn("path"),
    PutOwn("sf")>>
sys_chmod == <<Chk(0), Call("vfs_get_name", 0), Call("kchmod", 4), Put("path")>>
sys_fchmod == <<Chk(0), Call("kfchmod", 0)>>
sys_utimes == <<Chk(0), Call("vfs_get_name", 0), Chk(5), Call("kutimes", 5), Put("path")>>
sys_fsync == <<Chk(0), Call("kfsync", 0)>>
-----------------------------------------------------------------------------
SysFunction ==
  [vfs_get_name |-> vfs_get_name, vfs_path_lookup |-> vfs_path_lookup,
   vfs_open |-> vfs_open, vfs_open_dev |-> vfs_open_dev, vfs_create |-> vfs_create,
   falloc |-> falloc, kread |-> kread, kreadv |-> kreadv, kwrite |-> kwrite,
   kwritev |-> kwritev, kopen |-> kopen, kstat |-> kstat, kunlink |-> kunlink,
   kmkdir |-> kmkdir, kchdir |-> kchdir, kstatfs |-> kstatfs, kfsync |-> kfsync,
   kutimes |-> kutimes, kchmod |-> kchmod, kfchmod |-> kfchmod, ext2_open |-> ext2_open,
   ext2_create |-> ext2_create, ext2_stat |-> ext2_stat, ext2_sync |-> ext2_sync,
   socreate |-> socreate, ksocket |-> ksocket, kbind |-> kbind, kaccept |-> kaccept,
   kconnect |-> kconnect, sosend |-> sosend, ksendit |-> ksendit, soreceive |-> soreceive,
   krecvit |-> krecvit, ksocketpair |-> ksocketpair, sogetopt |-> sogetopt,
   kgetsockopt |-> kgetsockopt, sosetopt |-> sosetopt, ksetsockopt |-> ksetsockopt,
   load_elf_shared_library |-> load_elf_shared_library_path,
   search_named_lib |-> search_named_lib, search_shared_library |-> search_shared_library_path,
   resolv_depends |-> resolv_depends_path, load_elf |-> load_elf, load_binary |-> load_binary,
   kcreate_process |-> kcreate_process, kexecve |-> kexecve,
   kframe_create |-> kframe_create, kwindow_create |-> kwindow_create]
SysEntry ==
  [sys_open |-> sys_open, sys_read |-> sys_read, sys_readv |-> sys_readv,
   sys_write |-> sys_write, sys_writev |-> sys_writev, sys_execve |-> sys_execve,
   sys_stat |-> sys_stat, sys_unlink |-> sys_unlink, sys_socket |-> sys_socket,
   sys_bind |-> sys_bind, sys_accept |-> sys_accept, sys_sendto |-> sys_sendto,
   sys_sendmsg |-> sys_sendmsg, sys_recvfrom |-> sys_recvfrom, sys_recvmsg |-> sys_recvmsg,
   sys_ioctl |-> sys_ioctl, sys_getdents |-> sys_getdents, sys_chdir |-> sys_chdir,
   sys_mkdir |-> sys_mkdir, sys_frame_create |-> sys_frame_create,
   sys_window_create |-> sys_window_create, sys_frame_text |-> sys_frame_text,
   sys_frame_draw_string |-> sys_frame_draw_string, sys_connect |-> sys_connect,
   sys_socketpair |-> sys_socketpair, sys_getsockopt |-> sys_getsockopt,
   sys_setsockopt |-> sys_setsockopt, sys_getdirentries |-> sys_getdirentries,
   sys_statfs |-> sys_statfs, sys_chmod |-> sys_chmod, sys_fchmod |-> sys_fchmod,
   sys_utimes |-> sys_utimes, sys_fsync |-> sys_fsync]

(***************************************************************************)
(* Who owns a packet and a route on the way through the network stack      *)
(* (Kernel/net, Kernel/netinet).  As above, each function is the           *)
(* sequence of its steps that allocate, release, hand on or may fail.  A   *)
(* packet is "m" (several can be held), a counted reference to a route     *)
(* "rt"; a hand-over to a queue, a socket buffer or a cached pointer       *)
(* releases the object.  Fragments beyond the first are one fragment.      *)
(* ipforwarding is 0 throughout, as ip_input.c sets it.                    *)
(***************************************************************************)
Hand(o) == Put(o)   \* onto a queue, into a socket buffer
-----------------------------------------------------------------------------
(* mbuf.c, net/uipc_socket2.c *)
(* In place, or with a new first buffer; on failure the packet is freed. *)
m_pullup == <<Chk(3), Ret, Put("m")>>
m_prepend == <<Chk(3), Ret, Put("m")>>
sbappendaddr == <<Chk(0), Get("asa", 0), Hand("asa")>>

(* if_le.c, net/if_ethersubr.c *)
leread == <<Chk(0), Get("m", 0), Call("ether_input", 0)>>
ether_input == <<Chk(6), Chk(6), Chk(6), Hand("m"), Ret, Put("m")>>
(* A copy for a broadcast on a simplex interface is never looked at again. *)
ether_output ==
  <<Chk(18), Skip(6), Call("rtalloc1", 18), Put("rt"), Skip(2), Call("rtalloc1", 18), Give("rt"),
    Chk(18), Skip(1), Call("arpresolve", 0), Skip(2), Get("mcopy", 14), Lossy(Lose("mcopy")),
    Call("m_prepend", 0), Chk(18), Hand("m"), Ret, Put("m")>>
(* For AF_UNSPEC, as ARP calls it: no route, no resolution. *)
ether_output_arp == <<Chk(6), Call("m_prepend", 0), Chk(6), Hand("m"), Ret, Put("m")>>

(* netinet/if_ether.c *)
arprequest == <<Get("m", 0), Call("ether_output_arp", 0)>>
arplookup == <<Call("rtalloc1", 0), Put("rt"), Chk(0)>>
arp_rtrequest == <<Chk(0), Skip(1), Call("arprequest", 4), Get("la", 0), Give("la")>>
arp_rtdelete == <<Chk(0), Skip(2), Got("m"), Put("m"), Got("la"), Put("la")>>
arpintr == <<Got("m"), Chk(5), Call("in_arpinput", 4), Goto(6), Put("m"), Again(1)>>
(* The packet that was held goes out; then the answer, in the same buffer. *)
in_arpinput ==
  <<Chk(11), Call("arplookup", 6), Skip(2), Got("m"), Call("ether_output", 6), Chk(11), Skip(1),
    Call("arplookup", 11), Call("ether_output_arp", 0), Ret, Put("m")>>
(* Without an entry, only the first buffer of the packet is freed. *)
arpresolve ==
  <<Skip(1), Call("arplookup", 13), Chk(13), Chk(6), Ret, Skip(2), Got("m"), Put("m"),
    Hand("m"), Skip(1), Call("arprequest", 12), Fails(0),
    Put("m"), Skip(1), Lossy(Goto(0))>>
-----------------------------------------------------------------------------
(* net/route.c *)
rtalloc1 ==
  <<Chk(9), Skip(2), Call("rtrequest_resolve", 5), Goto(6), Got("rt"), Skip(1),
    Call("rt_missmsg", 8), OkRet, Skip(1), Call("rt_missmsg", 0)>>
ifa_ifwithroute == <<Skip(2), Call("rtalloc1", 0), Put("rt"), Chk(0)>>
rt_setgate == <<Get("key", 0), Skip(1), Call("rtalloc1", 4), OkRet>>
(* Of a route in the table: the new key and gateway replace the old. *)
rt_regate ==
  <<Skip(4), Get("key", 0), Got("old"), Give("key"), Put("old"), Skip(2), Got("rt"), Put("rt"),
    Skip(2), Call("rtalloc1", 12), Give("rt"), OkRet>>
(* The clone of an interface route: no gateway route of its own. *)
rtrequest_resolve ==
  <<Get("rte", 0), Get("key", 10), Chk(9), Give("rte"), Give("key"), Call("arp_rtrequest", 7),
    Got("rt"), OkRet, Put("key"), Put("rte")>>
rtrequest_add ==
  <<Call("ifa_ifwithroute", 0), Get("rte", 0), Call("rt_setgate", 12), Chk(10), Give("rt"),
    Give("rte"), Give("key"), Call("arp_rtrequest", 9), OkRet,
    PutOwn("rt"), Put("key"), Put("rte")>>
(* The entry is the caller's; its gateway route is given back. *)
rtrequest_delete ==
  <<Chk(0), Got("rte"), Skip(2), Got("rt"), Put("rt"), Call("arp_rtdelete", 7), OkRet>>
rtredirect ==
  <<Chk(8), Call("rtalloc1", 5), Chk(7), Skip(2), Call("rtrequest_add", 7), Goto(7),
    PutOwn("rt"), Call("rt_missmsg", 0)>>
rtinit_add == <<Call("rtrequest_add", 0), Got("rt"), Put("rt"), Call("rt_newaddrmsg", 5), OkRet>>
rtinit_delete ==
  <<Skip(1), Got("deldst"), Call("rtalloc1", 6), Put("rt"), Chk(10), Call("rtrequest_delete", 10),
    PutOwn("deldst"), Call("rt_newaddrmsg", 9), Hand("rte"), PutOwn("deldst")>>

(* net/rtsock.c *)
rt_msg1 == <<Get("m", 0), Chk(4), Ret, Put("m")>>
rt_newaddrmsg ==
  <<Chk(0), Call("rt_msg1", 4), Call("raw_input", 4), Call("rt_msg1", 0), Call("raw_input", 0)>>
rt_missmsg == <<Chk(0), Call("rt_msg1", 0), Call("raw_input", 0)>>
(* Add; delete; get, change or lock; then the answer to all listeners. *)
route_output ==
  <<Call("m_pullup", 0), Chk(27), Get("rtm", 27), Chk(27),
    Skip(5), Chk(27), Call("rtrequest_add", 27), Got("rt"), Put("rt"), Goto(27),
    Skip(3), Call("rtrequest_delete", 27), Got("rt"), Goto(18), Chk(27), Got("rt"),
    Skip(4), Skip(2), Get("rtm", 27), Put("rtm"), Goto(27),
    Call("rt_regate", 27), Call("ifa_ifwithroute", 24), Skip(1), Call("arp_rtdelete", 26),
    Call("arp_rtrequest", 27), PutOwn("rt"), PutOwn("rte"), PutOwn("rtm"), Call("raw_input", 0)>>
-----------------------------------------------------------------------------
(* netinet/ip_input.c *)
ipintr == <<Got("m"), Call("ipv4_input", 3), Again(1)>>
(* If the packet is too short for its options, it is freed twice. *)
ipv4_input ==
  <<Chk(13), Skip(1), Call("m_pullup", 0), Chk(13), Skip(1), Call("m_pullup", 13), Chk(13),
    Skip(1), Call("ip_do_options", 0), Chk(13), Call("ip_ours", 0), Ret, Lossy(Put("m"))>>
ip_rtaddr == <<Skip(2), Call("rtalloc1", 0), Give("rt")>>
(* Fails when it consumed the packet. *)
ip_do_options ==
  <<Chk(9), Skip(1), Call("ip_rtaddr", 9), Again(1), Skip(2), Call("ip_forward", 7), Fails(0), Ret,
    Call("icmp_error", 0)>>
ip_forward ==
  <<Chk(13), Chk(15), Skip(2), Call("rtalloc1", 15), Give("rt"), Get("m", 17),
    Call("ip_output", 11), Skip(2), Put("m"), Ret, Call("icmp_error", 12), Ret,
    Put("m"), Ret, Call("icmp_error", 16), Ret, Call("ip_output", 0)>>
ip_ours ==
  <<Skip(8), Skip(1), Call("m_pullup", 0), Chk(12), Skip(3), Get("ipqe", 12), Call("ip_reass", 0),
    Goto(10), Call("ip_freef", 10), Call("pr_input", 0), Ret, Put("m")>>
ip_reass ==
  <<Skip(2), Get("fp", 17), Give("fp"), Chk(17), Hand("ipqe"), Hand("m"), Chk(0), Skip(2),
    Call("ip_freef", 10), Fails(0),
    Got("fp"), Put("fp"), Got("ipqe"), Put("ipqe"), Got("m"), Ret, Put("m"), Put("ipqe")>>
ip_freef == <<Got("m"), Put("m"), Got("ipqe"), Put("ipqe"), Again(1), Got("fp"), Put("fp")>>
ip_slowtimo == <<Skip(2), Call("ip_freef", 3), Again(1)>>
pr_input ==
  <<Skip(2), Call("icmp_input", 0), Ret, Skip(2), Call("igmp_input", 0), Ret,
    Skip(2), Call("udp_input", 0), Ret, Skip(2), Call("tcp_input", 0), Ret, Call("rip_input", 0)>>

(* netinet/ip_output.c *)
ip_insert_options == <<Chk(0), Skip(1), Get("hdr", 0)>>
(* A header added for options is lost when the packet cannot go out; of a  *)
(* fragment that cannot go out only the first buffer is freed.             *)
ip_output ==
  <<Skip(1), Call("ip_insert_options", 3), Skip(3), Call("rtalloc1", 27), Skip(1), Give("rt"),
    Chk(27), Skip(3), Give("hdr"), Put("m"), Goto(32), Skip(3), Give("hdr"),
    Call("ether_output", 15), Goto(32),
    Chk(27), Give("hdr"), Get("m", 24), Chk(23), Call("ether_output", 30),
    Call("ether_output", 32), Goto(32),
    Put("m"), Put("m"), Lossy(Chk(32)), Goto(32),
    Put("m"), Lossy(Lose("hdr")), Goto(32), Put("m"), Lossy(Goto(32)), PutOwn("rt")>>
ip_pcbopts == <<Skip(2), Got("opt"), Put("opt"), Chk(7), Hand("mp"), Ret, Put("mp")>>
ip_setmoptions ==
  <<Skip(2), Get("imo", 0), Give("imo"), Chk(13), Skip(4), Skip(2), Call("rtalloc1", 13), Put("rt"),
    Call("in_addmulti", 13), Skip(2), Got("inm"), Put("inm"), Skip(2), Got("imo"), Put("imo")>>
ip_ctloutput ==
  <<Chk(7), Skip(2), Call("ip_pcbopts", 0), Ret, Skip(1), Call("ip_setmoptions", 7), Put("mp")>>

(* netinet/ip_icmp.c, ip_igmp.c *)
icmp_input ==
  <<Chk(11), Call("m_pullup", 0), Chk(11), Skip(2), Call("icmp_reflect", 0), Ret, Skip(1),
    Call("rtredirect", 9), Call("rip_input", 0), Ret, Put("m")>>
icmp_reflect ==
  <<Chk(7), Skip(1), Get("opts", 4), Call("icmp_send", 5), PutOwn("opts"), Ret,
    Put("m"), Skip(1), Lossy(Goto(0))>>
icmp_send == <<Call("ip_output", 0)>>
icmp_error == <<Chk(7), Get("m", 7), Chk(6), Call("icmp_reflect", 5), Goto(7), Put("m"), Put("m")>>
igmp_input == <<Chk(6), Call("m_pullup", 0), Chk(6), Call("rip_input", 0), Ret, Put("m")>>
igmp_sendreport == <<Get("m", 0), Call("ip_output", 0)>>
igmp_fasttimo == <<Chk(0), Call("igmp_sendreport", 3), Again(1)>>

(* netinet/in_pcb.c, udp_usrreq.c *)
in_pcbconnect == <<Chk(0), Skip(2), Call("rtalloc1", 5), Give("rt"), Chk(0)>>
(* A copy for each other receiver, the packet itself for the last one. *)
udp_input_multicast ==
  <<Skip(6), Get("m", 7), Call("sbappendaddr", 6), Hand("m"), Goto(7), Put("m"), Again(1),
    Chk(12), Call("sbappendaddr", 12), Hand("m"), Ret, Put("m")>>
(* A packet too short for its header is freed twice. *)
udp_input ==
  <<Skip(1), Call("m_pullup", 17), Chk(17), Skip(2), Call("udp_input_multicast", 0), Ret, Chk(14),
    Skip(1), Get("opts", 10), Call("sbappendaddr", 17), Hand("m"), Give("opts"), Ret,
    Skip(2), Call("icmp_error", 0), Ret, Lossy(Put("m")), PutOwn("opts")>>
udp_output ==
  <<PutOwn("control"), Chk(8), Skip(1), Call("in_pcbconnect", 8), Call("m_prepend", 8),
    Call("ip_output", 0), Ret, Lossy(Put("m"))>>
udp_usrreq ==
  <<Got("m"), Skip(1), Got("control"), Chk(8), Skip(2), Call("udp_output", 0), Ret,
    PutOwn("control"), Put("m")>>

(* netinet/raw_ip.c, net/raw_usrreq.c *)
rip_input == udp_input_multicast
(* The result of m_prepend is used unseen. *)
rip_output == <<Skip(1), Lossy(Call("m_prepend", 0)), Call("ip_output", 0)>>
(* Nobody frees the control buffer. *)
rip_usrreq ==
  <<Got("m"), Skip(1), Got("control"), Lossy(Lose("control")), Chk(8), Call("rip_output", 0), Ret,
    Put("m")>>
rip_ctloutput == <<Got("mp"), Chk(6), Skip(2), Call("ip_ctloutput", 0), Ret, Put("mp")>>
raw_input == udp_input_multicast
raw_usrreq ==
  <<Got("m"), Skip(1), Got("control"), Lossy(Lose("control")), Chk(8), Call("route_output", 0), Ret,
    Put("m")>>
route_attach == <<Get("rcb", 0), Chk(5), Give("rcb"), Ret, Put("rcb")>>

(* netinet/tcp_input.c, tcp_subr.c *)
(* No template is ever made, so a connection request ends with tcp_drop;   *)
(* the buffer of the template is lost.                                     *)
tcp_input ==
  <<Call("m_pullup", 0), Chk(22), Skip(1), Call("m_pullup", 0), Chk(19), Chk(22), Get("so", 22),
    Chk(22), Chk(19), Get("am", 22), Call("in_pcbconnect", 17), Put("am"),
    Get("tempbuf", 15), Lossy(Lose("tempbuf")), Put("so"), Goto(22), Put("am"), Goto(22),
    Chk(22), Call("tcp_respond", 21), Goto(23), Put("m"), PutOwn("so")>>
(* m_freem of the rest of a packet that has none reads through NULL. *)
tcp_respond == <<Skip(1), Lossy(Goto(3)), Call("ip_output", 0)>>

(* netinet/in.c *)
in_addmulti == <<Skip(3), Get("inm", 0), Chk(6), Give("inm"), Ret, Put("inm")>>
in_ifscrub == <<Chk(0), Call("rtinit_delete", 0)>>
in_ifinit ==
  <<Chk(0), Skip(1), Call("in_ifscrub", 4), Call("rtinit_add", 5), Call("in_addmulti", 0)>>
in_control ==
  <<Chk(0), Skip(2), Get("ia", 0), Give("ia"), Skip(4), Skip(1), Call("in_ifscrub", 8),
    Call("in_ifinit", 0), Ret, Skip(3), Call("in_ifscrub", 12), Got("ia"), Put("ia")>>
-----------------------------------------------------------------------------
NetFunction ==
  [m_pullup |-> m_pullup, m_prepend |-> m_prepend, sbappendaddr |-> sbappendaddr,
   ether_input |-> ether_input, ether_output |-> ether_output,
   ether_output_arp |-> ether_output_arp, arprequest |-> arprequest, arplookup |-> arplookup,
   arp_rtrequest |-> arp_rtrequest, arp_rtdelete |-> arp_rtdelete, in_arpinput |-> in_arpinput,
   arpresolve |-> arpresolve, rtalloc1 |-> rtalloc1, ifa_ifwithroute |-> ifa_ifwithroute,
   rt_setgate |-> rt_setgate, rt_regate |-> rt_regate, rtrequest_resolve |-> rtrequest_resolve,
   rtrequest_add |-> rtrequest_add, rtrequest_delete |-> rtrequest_delete,
   rtredirect |-> rtredirect, rtinit_add |-> rtinit_add, rtinit_delete |-> rtinit_delete,
   rt_msg1 |-> rt_msg1, rt_newaddrmsg |-> rt_newaddrmsg, rt_missmsg |-> rt_missmsg,
   route_output |-> route_output, ipv4_input |-> ipv4_input, ip_rtaddr |-> ip_rtaddr,
   ip_do_options |-> ip_do_options, ip_forward |-> ip_forward, ip_ours |-> ip_ours,
   ip_reass |-> ip_reass, ip_freef |-> ip_freef, pr_input |-> pr_input,
   ip_insert_options |-> ip_insert_options, ip_output |-> ip_output, ip_pcbopts |-> ip_pcbopts,
   ip_setmoptions |-> ip_setmoptions, ip_ctloutput |-> ip_ctloutput, icmp_input |-> icmp_input,
   icmp_reflect |-> icmp_reflect, icmp_send |-> icmp_send, icmp_error |-> icmp_error,
   igmp_input |-> igmp_input, igmp_sendreport |-> igmp_sendreport,
   in_pcbconnect |-> in_pcbconnect, udp_input_multicast |-> udp_input_multicast,
   udp_input |-> udp_input, udp_output |-> udp_output, rip_input |-> rip_input,
   rip_output |-> rip_output, raw_input |-> raw_input, tcp_input |-> tcp_input,
   tcp_respond |-> tcp_respond, in_addmulti |-> in_addmulti, in_ifscrub |-> in_ifscrub,
   in_ifinit |-> in_ifinit]
NetEntry ==
  [leread |-> leread, arpintr |-> arpintr, ipintr |-> ipintr, udp_usrreq |-> udp_usrreq,
   rip_usrreq |-> rip_usrreq, raw_usrreq |-> raw_usrreq, rip_ctloutput |-> rip_ctloutput,
   route_attach |-> route_attach, in_control |-> in_control, igmp_fasttimo |-> igmp_fasttimo,
   ip_slowtimo |-> ip_slowtimo]

(* What the functions that many others call promise: what they take over,  *)
(* and what they leave to their caller.  Each is run on its own as well.   *)
Takes(s) == [in |-> s, ok |-> {}, fail |-> {}]
Returns(s) == [in |-> {}, ok |-> s, fail |-> {}]
Contract ==
  [ether_output |-> Takes({"m"}), ether_output_arp |-> Takes({"m"}), ip_output |-> Takes({"m"}),
   ip_forward |-> Takes({"m"}), icmp_error |-> Takes({"m"}), icmp_reflect |-> Takes({"m"}),
   icmp_input |-> Takes({"m"}), igmp_input |-> Takes({"m"}), udp_input |-> Takes({"m"}),
   tcp_input |-> Takes({"m"}), rip_input |-> Takes({"m"}), raw_input |-> Takes({"m"}),
   in_arpinput |-> Takes({"m"}), route_output |-> Takes({"m"}), ip_ours |-> Takes({"m"}),
   rtalloc1 |-> Returns({"rt"}), rtrequest_add |-> Returns({}), rtrequest_delete |-> Returns({"rte"}),
   rt_missmsg |-> Returns({}), rt_newaddrmsg |-> Returns({}), arprequest |-> Returns({}),
   rtredirect |-> Returns({}), ip_freef |-> Returns({}), in_ifscrub |-> Returns({}),
   in_addmulti |-> Returns({}), ip_setmoptions |-> Returns({})]
=============================================================================
