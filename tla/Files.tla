-------------------------------- MODULE Files --------------------------------
(* The virtual file system (kernel/vfs/vfs.c), the device file system mounted in
   it (drivers/devfs/devfs.c), the boot sequence that builds them (kmain and the
   initialise_* functions of the drivers), and the processes that open, list,
   read and close files through the system calls and the FILE layer of libc.  *)
EXTENDS Tarfs

CONSTANTS SCREEN,         \* the size of the display devices
          Contents,       \* what tar may have been given: [path, flag, size] of each file
          Procs,          \* process identities
          Paths,          \* the paths programs pass to open: [abs, parts]
          Lookups,        \* the paths whose lookup is checked
          Requests,       \* the sizes they read
          MaxOpen,        \* bound: nodes open in a process, its terminal among them
          MaxNodes,       \* bound: nodes open in all processes when one more is opened or cloned
          MaxSeek         \* bound: seek index

\* Half the values of a word is the largest index a file is read at.
ASSUME FilesAssumption ==
  /\ WORD \in Nat /\ MaxSeek \in Nat /\ MaxSeek < WORD \div 2
  /\ Requests \subseteq Nat
  /\ BLOCK \in Nat \ {0}

\* The initrd is made by "tar cvf ... ./" (Makefile): the directory "./" comes first and
\* no other entry has that path; a file comes with the directories it is in.  A name has
\* characters, and no slash; a size is octal digits and blanks.
ASSUME ContentsAssumption ==
  \A e \in Contents :
    /\ e \in Seq([path : Seq(Seq(STRING)), flag : STRING, size : Seq(-1 .. 7)])
    /\ e # <<>>
    /\ \A i \in DOMAIN e :
         /\ e[i].path = <<>> <=> i = 1
         /\ \A k \in DOMAIN e[i].path : e[i].path[k] \notin {<<>>, Slash}
         /\ \A k \in 1 .. Len(e[i].path) - 1 : \E j \in DOMAIN e : e[j].path = SubSeq(e[i].path, 1, k)
    /\ \A i, j \in DOMAIN e : IsStrictPrefix(e[i].path, e[j].path) => e[i].flag = "DIRTYPE"

ASSUME PathsAssumption ==
  \A path \in Paths \union Lookups : path.abs \in BOOLEAN /\ path.parts \in Seq(Seq(STRING))

VARIABLES archive,        \* the initrd
          vesa_works,     \* did the boot loader set the mode asked for?
          boot,           \* how many steps of kmain are done
          mounts,         \* vfs_mountpoint_tree: [path, node] in creation order
          devices,        \* the nodes of devfs
          console, serial,\* the nodes cached by kstdio and by logging
          display,        \* display_device_file of gtty
          alive,          \* the processes
          nodes,          \* process->nodes
          files,          \* the FILEs of a process
          crashed         \* was a NULL function called?

vars == <<archive, vesa_works, boot, mounts, devices, console, serial, display, alive, nodes, files, crashed>>

-----------------------------------------------------------------------------
(* Nodes *)

Dev == <<"dev">>

\* vfs_create_stub_directory
Stub(name) == [fs |-> "stub", name |-> name, type |-> "SDIR", size |-> 0, data |-> 0]

\* mount_devfs: the node is named after the last part of the mount point.
DevRoot == [fs |-> "devfs", name |-> Dev, type |-> "DIRE", size |-> 0, data |-> 0]

\* The functions a node has; the rest of its pointers are NULL.
Functions_of(node) ==
  CASE node.fs = "stub"  -> {"dir_read", "dir_find", "dir_list"}
    [] node.fs = "devfs" -> {"node_create", "dir_read", "dir_find", "dir_list"}
    [] node.fs = "dev"   -> {"node_open", "node_close", "node_read", "node_write", "node_control",
                             "node_status"}
    [] node.fs = "tar"   -> {"node_open", "node_close", "node_read", "node_write", "dir_read",
                             "dir_find", "dir_list"}

\* A call through a pointer that is NULL.
Missing(node, function) == node # Nil /\ function \notin Functions_of(node)

-----------------------------------------------------------------------------
(* The mount tree *)

\* The children of a mount point: where they stand in the order of their creation.
SubTrees(tree, path) ==
  {i \in DOMAIN tree : tree[i].path # <<>> /\ Front(tree[i].path) = path}

IndexOf(tree, path) == CHOOSE i \in DOMAIN tree : tree[i].path = path

DataAt(tree, path) == tree[IndexOf(tree, path)].node

\* The parts of a mount point that are missing, below the deepest one that is there,
\* become stub directories.
WithStubs(tree, mountpoint) ==
  LET there == {k \in 0 .. Len(mountpoint) :
                  k = 0 \/ \E i \in DOMAIN tree : tree[i].path = SubSeq(mountpoint, 1, k)}
      d     == Max(there)
  IN  tree \o [k \in 1 .. Len(mountpoint) - d |->
                 [path |-> SubSeq(mountpoint, 1, d + k), node |-> Stub(mountpoint[d + k])]]

\* Mutant: a node mounted over a stub takes the place of its whole tree.
mount_in_vfsMutant(tree, node, mountpoint) ==
  IF mountpoint = <<>> THEN <<[path |-> <<>>, node |-> node]>>
  ELSE Append(tree, [path |-> mountpoint, node |-> node])

\* mount_in_vfs: only a stub is replaced, and only by a node of its own name; a
\* refused mount leaves the stubs it made.  The root has no name to compare.
mount_in_vfs(tree, node, mountpoint) ==
  LET t  == WithStubs(tree, mountpoint)
      i  == IndexOf(t, mountpoint)
      at == t[i].node
  IN  IF mountpoint = <<>> /\ tree = <<>> THEN <<[path |-> <<>>, node |-> node]>>
      ELSE IF at.type = "SDIR" /\ (mountpoint = <<>> \/ at.name = node.name)
           THEN [t EXCEPT ![i].node = node]
           ELSE t

\* find_in_directory_devfs: the whole rest of the path is the name.
find_in_directory_devfs(devs, path) ==
  LET hits == {i \in DOMAIN devs : path = <<devs[i].name>>}
  IN  IF hits = {} THEN Nil ELSE devs[Min(hits)]

\* dir_find of the node a walk ends at.
dir_find(node, path) ==
  IF node.fs = "tar" THEN find_in_directory_tarfs(archive, node, path)
  ELSE find_in_directory_devfs(devices, path)

\* Mutant: the match is forgotten whichever child it was.
DescendsMutant(path, name) == FALSE

\* Does the walk of vfs_find_node go on below the child with the name?  The loop over
\* the children goes on after a match and forgets it at the next child: only a match
\* with the LAST child counts.
Descends(path, name) ==
  LET kids == SubTrees(mounts, path)
  IN  kids # {} /\ Last(mounts[Max(kids)].path) = name

\* The walk has moved to the child it matched, although the match was forgotten.
Moves(path, name) == \E i \in SubTrees(mounts, path) : Last(mounts[i].path) = name

\* How many segments of a path the walk passes.
Depth(parts) ==
  Max({k \in 0 .. Len(parts) : \A j \in 1 .. k : Descends(SubSeq(parts, 1, j - 1), parts[j])})

\* vfs_find_node.  A path without a slash has no segments: it ends at the root.
vfs_find_node(path) ==
  LET parts == path.parts
      k     == Depth(parts)
      left  == SubSeq(parts, k + 1, Len(parts))
      at    == IF left # <<>> /\ Moves(SubSeq(parts, 1, k), parts[k + 1]) THEN k + 1 ELSE k
      node  == DataAt(mounts, SubSeq(parts, 1, at))
  IN  IF ~path.abs \/ parts = <<>> THEN DataAt(mounts, <<>>)
      ELSE IF left = <<>> THEN node
      ELSE IF node.type = "SDIR" THEN Nil
      ELSE dir_find(node, left)

Abs(parts) == [abs |-> TRUE, parts |-> parts]

-----------------------------------------------------------------------------
(* Booting *)

Ser     == <<"ser">>
Vga     == <<"vga">>
Vesa    == <<"vesa">>
Ramdisk == <<"ramdisk">>
Kbd     == <<"kbd">>
Gtty    == <<"gtty">>

\* init_devices
DeviceOrder == <<Ser, Vga, Vesa, Ramdisk, Kbd, Gtty>>

Booted == boot = Len(DeviceOrder) + 3

\* The size of the archive in memory: past the last header there is an empty block.
ArchiveSize ==
  LET last == Last(Visited(archive))
  IN  NextHeader(last, get_file_size_tarfs(archive[last].size)) + BLOCK

\* logchar, called by kmain after every step: the serial device is looked up in the file
\* system as it now is, until it is found.
logchar ==
  serial' = IF serial = Nil /\ boot' >= 2 THEN vfs_find_node(Abs(<<Dev, Ser>>))' ELSE serial

\* create_node_devfs through create_node_vfs, which checks the parent but not that it
\* has node_create: only devfs itself makes nodes.
create_node_vfs(parent, name, size) ==
  /\ devices' = IF parent = Nil \/ Missing(parent, "node_create") THEN devices
                ELSE Append(devices, [fs |-> "dev", name |-> name, type |-> "CHRD",
                                      size |-> size, data |-> 0])
  /\ crashed' = Missing(parent, "node_create")

initialise_vfs_layer ==
  /\ boot = 0
  /\ boot' = 1
  /\ mounts' = mount_in_vfs(mounts, Stub(Slash), <<>>)
  /\ UNCHANGED <<archive, vesa_works, devices, console, serial, display, alive, nodes, files, crashed>>

initialise_devfs ==
  /\ boot = 1
  /\ boot' = 2
  /\ mounts' = mount_in_vfs(mounts, DevRoot, <<Dev>>)
  /\ UNCHANGED <<archive, vesa_works, devices, console, display, alive, nodes, files, crashed>>
  /\ logchar

\* The device file system, as the drivers find it.
devfs == vfs_find_node(Abs(<<Dev>>))

\* What each driver adds to it.  initialise_vesa gives up without a usable mode;
\* initialise_gtty looks its display and its keyboard up.
initialise_serial == create_node_vfs(devfs, Ser, 0) /\ UNCHANGED display
initialise_vga == create_node_vfs(devfs, Vga, SCREEN) /\ UNCHANGED display
initialise_vesa ==
  /\ IF vesa_works THEN create_node_vfs(devfs, Vesa, SCREEN) ELSE UNCHANGED <<devices, crashed>>
  /\ UNCHANGED display
initialise_initrd == create_node_vfs(devfs, Ramdisk, ArchiveSize) /\ UNCHANGED display
initialise_keyboard == create_node_vfs(devfs, Kbd, 0) /\ UNCHANGED display
initialise_gtty ==
  LET vesa   == vfs_find_node(Abs(<<Dev, Vesa>>))
      screen == IF vesa # Nil THEN vesa ELSE vfs_find_node(Abs(<<Dev, Vga>>))
  IN  /\ display' = screen
      /\ IF screen = Nil \/ vfs_find_node(Abs(<<Dev, Kbd>>)) = Nil
         THEN UNCHANGED <<devices, crashed>>
         ELSE create_node_vfs(devfs, Gtty, screen.size)

\* One step of init_devices.
init_device ==
  LET name == DeviceOrder[boot - 1] IN
  /\ boot \in 2 .. Len(DeviceOrder) + 1
  /\ boot' = boot + 1
  /\ \/ name = Ser /\ initialise_serial
     \/ name = Vga /\ initialise_vga
     \/ name = Vesa /\ initialise_vesa
     \/ name = Ramdisk /\ initialise_initrd
     \/ name = Kbd /\ initialise_keyboard
     \/ name = Gtty /\ initialise_gtty
  /\ UNCHANGED <<archive, vesa_works, mounts, console, alive, nodes, files>>
  /\ logchar

\* create_tarfs_filesystem("/dev/ramdisk", "/"): the archive is mounted over the stub
\* of the root.  mount_tarfs reads through the device without a check.
create_tarfs_filesystem ==
  LET device == vfs_find_node(Abs(<<Dev, Ramdisk>>))
  IN  /\ boot = Len(DeviceOrder) + 2
      /\ boot' = boot + 1
      /\ IF device = Nil THEN crashed' = TRUE /\ UNCHANGED mounts
         ELSE /\ mounts' = mount_in_vfs(mounts, TarRoot(<<>>, device.size), <<>>)
              /\ UNCHANGED crashed
      /\ UNCHANGED <<archive, vesa_works, devices, console, display, alive, nodes, files>>
      /\ logchar

\* kputchar, which the kernel calls while it boots: the terminal is looked up until it
\* is found; until then the text goes to the log.
kputchar ==
  /\ boot >= 1 /\ ~Booted /\ console = Nil
  /\ console' = vfs_find_node(Abs(<<Dev, Gtty>>))
  /\ UNCHANGED <<archive, vesa_works, boot, mounts, devices, display, alive, nodes, files, crashed>>
  /\ IF console' = Nil THEN logchar ELSE UNCHANGED serial

-----------------------------------------------------------------------------
(* Processes and their files *)

\* How many nodes are open, in all processes.
Opened == FoldLeft(LAMBDA n, p : n + Len(nodes[p]), 0, SetToSeq(alive))

\* loader_spawn: the binary is looked up; the new process starts with the terminal.
loader_spawn(p, path) ==
  /\ Booted /\ p \notin alive /\ Opened < MaxNodes
  /\ vfs_find_node(path) # Nil
  /\ alive' = alive \union {p}
  /\ nodes' = [nodes EXCEPT ![p] = <<vfs_find_node(Abs(<<Dev, Gtty>>))>>]
  /\ files' = [files EXCEPT ![p] = <<>>]
  /\ UNCHANGED <<archive, vesa_works, boot, mounts, devices, console, serial, display, crashed>>

\* sysc_fork: proc_clone copies the list of nodes; the FILEs are in the memory copied.
sysc_fork(p, c) ==
  /\ p \in alive /\ c \notin alive
  /\ Opened < MaxNodes
  /\ alive' = alive \union {c}
  /\ nodes' = [nodes EXCEPT ![c] = nodes[p]]
  /\ files' = [files EXCEPT ![c] = files[p]]
  /\ UNCHANGED <<archive, vesa_works, boot, mounts, devices, console, serial, display, crashed>>

\* sysc_execve: the memory is replaced, the list of nodes is kept; a program that is
\* not there ends the process.
sysc_execve(p, path) ==
  /\ p \in alive
  /\ alive' = IF vfs_find_node(path) = Nil THEN alive \ {p} ELSE alive
  /\ files' = [files EXCEPT ![p] = <<>>]
  /\ nodes' = IF p \in alive' THEN nodes ELSE [nodes EXCEPT ![p] = <<>>]
  /\ UNCHANGED <<archive, vesa_works, boot, mounts, devices, console, serial, display, crashed>>

\* sysc_exit, and the destruction of the process.
sysc_exit(p) ==
  /\ p \in alive
  /\ alive' = alive \ {p}
  /\ nodes' = [nodes EXCEPT ![p] = <<>>]
  /\ files' = [files EXCEPT ![p] = <<>>]
  /\ UNCHANGED <<archive, vesa_works, boot, mounts, devices, console, serial, display, crashed>>

\* sysc_get_proc_node
sysc_get_proc_node(p, id) == IF id < Len(nodes[p]) THEN nodes[p][id + 1] ELSE Nil

\* fopen and sysc_open.  "opened" remembers the node found, "base" and "got" where the
\* reads began and how many bytes of it they brought, "seen" what a listing returned, and
\* "own" that every read and listing so far has reached the node found.
fopen(p, path) ==
  LET node == vfs_find_node(path)
  IN  /\ p \in alive /\ Len(nodes[p]) < MaxOpen /\ Opened < MaxNodes
      /\ node # Nil
      /\ nodes' = [nodes EXCEPT ![p] = Append(@, node)]
      /\ files' = [files EXCEPT ![p] = Append(@, [id |-> Len(nodes[p]), seek_index |-> 0,
                                                  opened |-> node, base |-> 0, got |-> 0,
                                                  seen |-> <<>>, ended |-> FALSE, own |-> TRUE])]
      /\ UNCHANGED <<archive, vesa_works, boot, mounts, devices, console, serial, display, alive, crashed>>

\* Mutant: the count of the loop starts at one.
ClosedMutant(list, id) ==
  IF id < Len(list) THEN {RemoveAt(list, id)} ELSE {list}

\* sysc_close when the id is open: the node leaves the list and the ids after it shift.
\* When it is not, the pointer used is not initialised: it may happen to be NULL, or to
\* be any entry a former call left there.
Closed(list, id) ==
  IF id < Len(list) THEN {RemoveAt(list, id + 1)}
  ELSE {list} \union {RemoveAt(list, i) : i \in DOMAIN list}

fclose(p, k) ==
  /\ p \in alive /\ k \in DOMAIN files[p]
  /\ \E list \in Closed(nodes[p], files[p][k].id) : nodes' = [nodes EXCEPT ![p] = list]
  /\ files' = [files EXCEPT ![p] = RemoveAt(@, k)]
  /\ UNCHANGED <<archive, vesa_works, boot, mounts, devices, console, serial, display, alive, crashed>>

\* initrd_dev_read: how many bytes of the ramdisk are copied.
initrd_dev_read(node, start_at, size) ==
  IF start_at > node.size THEN -1
  ELSE IF start_at + size > node.size THEN node.size - start_at ELSE size

\* vga_dev_read and vesa_dev_read: how many cells of the screen are copied.
display_dev_read(start_at, size) ==
  IF start_at > SCREEN - 1 THEN -1
  ELSE IF start_at + size > SCREEN THEN SCREEN - start_at ELSE size

\* What node_read may return.  The serial line waits for as many bytes as were asked for,
\* the keyboard has none to give, and the terminal gives the line that was typed (a tab
\* may take it three places past the size) or fails.
node_read(node, start_at, size) ==
  CASE node.fs = "tar"           -> {read_node_tarfs(node, start_at, size)}
    [] node.fs = "dev" /\ node.name = Ramdisk -> {initrd_dev_read(node, start_at, size)}
    [] node.fs = "dev" /\ node.name \in {Vga, Vesa} -> {display_dev_read(start_at, size)}
    [] node.fs = "dev" /\ node.name = Ser -> {size}
    [] node.fs = "dev" /\ node.name = Kbd -> {0}
    [] node.fs = "dev" /\ node.name = Gtty -> -1 .. size + 3

\* A program either lists a file (ls) or reads it (bmpview).
Reading(f) == f.seen = <<>> /\ ~f.ended
Listing(f) == f.seek_index = 0 /\ f.base = 0 /\ f.got = 0

\* sysc_read, sysc_write and sysc_ioctl call the function of the node without the check
\* of the vfs layer.
Call(node, function) ==
  /\ crashed' = Missing(node, function)
  /\ UNCHANGED <<archive, vesa_works, boot, mounts, devices, console, serial, display, alive, nodes>>

\* fread and sysc_read.  The seek index moves by what was asked for.
fread(p, k, size) ==
  LET f    == files[p][k]
      node == sysc_get_proc_node(p, f.id)
  IN  /\ p \in alive /\ k \in DOMAIN files[p]
      /\ f.seek_index + size <= MaxSeek /\ Reading(f)
      /\ IF Missing(node, "node_read") THEN UNCHANGED files
         ELSE \E ret \in IF node = Nil THEN {-1} ELSE node_read(node, f.seek_index, size) :
                files' = [files EXCEPT ![p][k] =
                  [f EXCEPT !.seek_index = @ + size, !.got = IF ret > 0 /\ node = f.opened THEN @ + ret ELSE @,
                            !.own = @ /\ node = f.opened]]
      /\ Call(node, "node_read")

\* fwrite and sysc_write: the seek index moves, and the reads begin anew there.  A file of
\* the archive takes nothing; what the terminal does with a text is in Terminal.
fwrite(p, k, size) ==
  LET f    == files[p][k]
      node == sysc_get_proc_node(p, f.id)
      to   == f.seek_index + size
  IN  /\ p \in alive /\ k \in DOMAIN files[p]
      /\ to <= MaxSeek /\ Reading(f)
      /\ files' = IF Missing(node, "node_write") THEN files
                  ELSE [files EXCEPT ![p][k] = [f EXCEPT !.seek_index = to, !.base = to, !.got = 0]]
      /\ Call(node, "node_write")

\* ioctl and sysc_ioctl: a command for the driver.
ioctl(p, k) ==
  /\ p \in alive /\ k \in DOMAIN files[p]
  /\ Call(sysc_get_proc_node(p, files[p][k].id), "node_control")
  /\ UNCHANGED files

\* fseek: to an offset, by an offset; SEEK_END is accepted and does nothing.
fseek(p, k, offset, origin) ==
  LET f  == files[p][k]
      to == CASE origin = "SEEK_SET" -> offset
              [] origin = "SEEK_CUR" -> f.seek_index + offset
              [] origin = "SEEK_END" -> f.seek_index
  IN  /\ p \in alive /\ k \in DOMAIN files[p]
      /\ to <= MaxSeek /\ Reading(f)
      /\ files' = [files EXCEPT ![p][k] = [f EXCEPT !.seek_index = to, !.base = to, !.got = 0]]
      /\ UNCHANGED <<archive, vesa_works, boot, mounts, devices, console, serial, display, alive, nodes, crashed>>

\* dir_read of a directory: of an archive, or of devfs.
dir_read(node, entry_no) ==
  IF node.fs = "tar" THEN read_directory_tarfs(archive, node, entry_no)
  ELSE IF entry_no < Len(devices) THEN devices[entry_no + 1] ELSE Nil

\* sysc_list: entry no of an open directory.
sysc_list(p, id, no) ==
  LET node == sysc_get_proc_node(p, id)
  IN  IF node = Nil \/ node.type # "DIRE" THEN Nil ELSE dir_read(node, no)

\* One turn of the loop of ls, which asks for the entries 0, 1, 2, ... until there is none.
ls_main(p, k) ==
  LET f     == files[p][k]
      found == sysc_list(p, f.id, Len(f.seen))
      node  == sysc_get_proc_node(p, f.id)
  IN  /\ p \in alive /\ k \in DOMAIN files[p]
      /\ ~f.ended /\ Listing(f)
      /\ files' = [files EXCEPT ![p][k] =
            [f EXCEPT !.seen = IF found = Nil THEN @ ELSE Append(@, found.name), !.ended = found = Nil,
                      !.own = @ /\ node = f.opened]]
      /\ UNCHANGED <<archive, vesa_works, boot, mounts, devices, console, serial, display, alive, nodes, crashed>>

Init ==
  /\ archive \in {Layout(e) : e \in Contents} /\ vesa_works \in BOOLEAN
  /\ boot = 0 /\ mounts = <<>> /\ devices = <<>>
  /\ console = Nil /\ serial = Nil /\ display = Nil
  /\ alive = {} /\ crashed = FALSE
  /\ nodes = [p \in Procs |-> <<>>] /\ files = [p \in Procs |-> <<>>]

Next ==
  \/ ~crashed /\ (\/ initialise_vfs_layer \/ initialise_devfs \/ init_device
                  \/ create_tarfs_filesystem \/ kputchar
                  \/ \E p \in Procs :
                       \/ sysc_exit(p)
                       \/ \E path \in Paths : loader_spawn(p, path) \/ sysc_execve(p, path) \/ fopen(p, path)
                       \/ \E c \in Procs : sysc_fork(p, c)
                       \/ \E k \in 1 .. MaxOpen :
                            \/ fclose(p, k) \/ ls_main(p, k) \/ ioctl(p, k)
                            \/ \E n \in Requests :
                                 \/ fread(p, k, n) \/ fwrite(p, k, n)
                                 \/ \E origin \in {"SEEK_SET", "SEEK_CUR", "SEEK_END"} : fseek(p, k, n, origin))

Spec == Init /\ [][Next]_vars

-----------------------------------------------------------------------------
(* Properties *)

Node == [fs : {"stub", "devfs", "dev", "tar"}, name : Seq(STRING),
         type : {"SDIR", "DIRE", "CHRD", "FILE", "SLNK", "none"}, size : Nat, data : Nat]

\* The state has its shape: every mount, device, cached node and list of a process
\* holds nodes, and every FILE an id and a seek index within the bounds.
TypeOK ==
  /\ boot \in 0 .. Len(DeviceOrder) + 3
  /\ \A i \in DOMAIN mounts : mounts[i].node \in Node
  /\ \A i \in DOMAIN devices : devices[i] \in Node
  /\ {console, serial, display} \subseteq Node \union {Nil}
  /\ alive \subseteq Procs
  /\ \A p \in Procs :
       /\ \A i \in DOMAIN nodes[p] : nodes[p][i] \in Node
       /\ \A i \in DOMAIN files[p] : /\ files[p][i].id \in 0 .. MaxOpen
                                     /\ files[p][i].seek_index \in 0 .. MaxSeek

\* Every device that was created is found under its path, and every node mounted under
\* its mount point, at every step of the boot and after the archive has replaced the
\* stub the others were mounted under (vfs_find_node, create_node_devfs, mount_in_vfs).
MountsFound ==
  /\ \A i \in DOMAIN mounts : vfs_find_node(Abs(mounts[i].path)) = mounts[i].node
  /\ \A i \in DOMAIN devices : vfs_find_node(Abs(<<Dev, devices[i].name>>)) = devices[i]

\* No name is part of another and none is used at two places of the tree.
Plain ==
  LET all == {archive[at].path : at \in DOMAIN archive} \ {<<>>}
  IN  \A p, q \in all : p # q =>
        /\ Last(p) # Last(q)
        /\ FirstEnd(Last(p), Last(q)) = 0

\* In an archive whose names do not collide, every path of it leads to its own file, with
\* the file's size, and a path that is not there (and does not name one directory twice)
\* leads nowhere (find_in_directory_tarfs, check_parse_filename, the scan of the headers).
\* Nothing is mounted later, so it is enough to look when the boot has ended.
Resolves ==
  Booted /\ alive = {} /\ Plain =>
    \A path \in Lookups :
      LET parts == path.parts
          at    == {a \in DOMAIN archive : archive[a].path = parts}
          found == vfs_find_node(path)
      IN  path.abs /\ parts # <<>> /\ parts[1] # Dev =>
            IF at # {} THEN \E a \in at : found = build_node_tarfs(archive, a)
            ELSE IsInjective(parts) => found = Nil

\* In such an archive ls lists a directory itself and then its entries, each once, in the
\* order of the archive, although it asks for them one by one and the archive is scanned
\* anew each time (sysc_list, read_directory_tarfs), as long as the id of its FILE still
\* stands for the directory.
LsComplete ==
  Plain => \A p \in alive : \A k \in DOMAIN files[p] :
    LET f    == files[p][k]
        dir  == f.opened
        here == IF dir.name = Slash THEN <<>>
                ELSE archive[CHOOSE a \in DOMAIN archive :
                               archive[a].path # <<>> /\ Last(archive[a].path) = dir.name].path
        kids == Keep(Visited(archive),
                     {a \in DOMAIN archive : archive[a].path # <<>> /\ Front(archive[a].path) = here})
    IN  f.own /\ f.ended /\ dir.fs = "tar" /\ dir.type = "DIRE" =>
          f.seen = <<dir.name>> \o [i \in DOMAIN kids |-> Last(archive[kids[i]].path)]

\* "reads size bytes of data [...] from the node with id provided as node_id"
\* (syscall.c:214): the id kept in a FILE designates the node it was opened for, through
\* the opens and closes of its process and of those cloned from it (sysc_open, sysc_close).
\* Does not hold, and no run claims it: a close moves the nodes behind the one it removes.
FileStable ==
  \A p \in alive : \A k \in DOMAIN files[p] :
    sysc_get_proc_node(p, files[p][k].id) = files[p][k].opened

\* A file of the archive, or the archive itself.
InArchive(node) == \/ node.fs = "tar" /\ node.type # "DIRE"
                   \/ node.fs = "dev" /\ node.name = Ramdisk

\* Reads of a file of the archive or of the ramdisk, one after the other, bring every byte
\* once, up to the end of the file and no further, although the seek index moves by the
\* size asked for (fread, read_node_tarfs, initrd_dev_read), as long as the id of the FILE
\* still stands for it.  The size of a node is a word.
ReadsOnce ==
  \A p \in alive : \A k \in DOMAIN files[p] :
    LET f   == files[p][k]
        end == IF f.seek_index < f.opened.size THEN f.seek_index ELSE f.opened.size
    IN  f.own /\ InArchive(f.opened) /\ f.opened.size \in 0 .. WORD - 1 =>
          f.got = IF end > f.base THEN end - f.base ELSE 0

\* "controls a specified node [...] (handled by devfs and device driver responsible)"
\* (syscall.c:240): no system call, and no step of the boot, calls a function its node does
\* not have (sysc_read, sysc_write, sysc_ioctl, create_node_vfs, mount_tarfs).  Does not
\* hold, and no run claims it: a file of the archive has no node_control (OnlyCallsCrash is
\* what holds).
NeverCrashed == ~crashed

\* When a NULL function is called, a living process has a directory or a file of the
\* archive open: the boot finds devfs and the ramdisk wherever it needs them, and a program
\* that opens devices only, its terminal among them, can read, write and control them in
\* any order, whatever ids its closes have shifted.
OnlyCallsCrash ==
  crashed => \E p \in alive : \E i \in DOMAIN nodes[p] :
               \E function \in {"node_read", "node_write", "node_control"} :
                 Missing(nodes[p][i], function)
=============================================================================
