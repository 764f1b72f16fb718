-------------------------------- MODULE Tarfs --------------------------------
(* The tar filesystem of drivers/tarfs/tarfs.c: a read-only archive that is
   scanned from its first header on every request.  A name is a sequence of
   characters, a path a sequence of names; "./" is the empty path.  A node keeps
   only the LEAF name of the file it stands for, and that is all the driver has
   to tell the children of one directory from those of another.               *)
EXTENDS Queues, Integers, Sequences, SequencesExt, FiniteSets

CONSTANTS BLOCK,          \* TARFS_HDR_SIZE
          WORD            \* the number of values of a uint32_t

\* No node: the NULL pointer.
Nil == [fs |-> "none"]

\* The name of the root directory, "/".
Slash == <<"/">>

\* get_type_flags: the node type of a type flag of a header; flag 7 has none.
get_type_flags(flag) ==
  CASE flag \in {"REGTYPE", "AREGTYPE"} -> "FILE"
    [] flag \in {"LNKTYPE", "SYMTYPE"}  -> "SLNK"
    [] flag = "CHRTYPE"  -> "CHRD"
    [] flag = "BLKTYPE"  -> "BLKD"
    [] flag = "DIRTYPE"  -> "DIRE"
    [] flag = "FIFOTYPE" -> "FIFO"
    [] OTHER             -> "none"

\* get_file_size_tarfs: octal digits, where a blank or a NUL (-1) is skipped
\* wherever it stands.
get_file_size_tarfs(digits) ==
  LET size[i \in 0 .. Len(digits)] ==
        IF i = 0 THEN 0
        ELSE IF digits[i] = -1 THEN size[i - 1] ELSE (size[i - 1] * 8 + digits[i]) % WORD
  IN  size[Len(digits)]

\* The address of the next header: past the header and the contents, rounded up
\* to a block.
NextHeader(address, size) ==
  LET end == address + BLOCK + size
      rem == end % BLOCK
  IN  IF rem # 0 THEN end + BLOCK - rem ELSE end

\* Where tar (external) puts the headers: the first at 0, each other one behind the
\* contents of the file before it, in whole blocks.
Addresses(entries) ==
  LET at[i \in 0 .. Len(entries)] ==
        IF i = 0 THEN 0
        ELSE at[i - 1] + BLOCK * (1 + (get_file_size_tarfs(entries[i].size) + BLOCK - 1) \div BLOCK)
  IN  at

\* The archive it makes.
Layout(entries) ==
  LET at == Addresses(entries)
  IN  [a \in {at[i - 1] : i \in DOMAIN entries} |-> entries[CHOOSE i \in DOMAIN entries : at[i - 1] = a]]

\* The addresses the scan of an archive visits, in order.  The archive is a
\* function from the addresses of its headers; elsewhere there is no magic value
\* and the scan ends.
Visited(archive) ==
  LET from[n \in 0 .. Cardinality(DOMAIN archive)] ==
        IF n = 0 THEN IF 0 \in DOMAIN archive THEN <<0>> ELSE <<>>
        ELSE LET seen == from[n - 1]
                 next == NextHeader(Last(seen), get_file_size_tarfs(archive[Last(seen)].size))
             IN  IF seen # <<>> /\ next \in DOMAIN archive THEN Append(seen, next) ELSE seen
  IN  from[Cardinality(DOMAIN archive)]

\* strstr within one component: where the name first ends in it, or 0.
FirstEnd(component, name) ==
  LET at == {i \in 1 .. Len(component) - Len(name) + 1 :
               SubSeq(component, i, i + Len(name) - 1) = name}
  IN  IF at = {} THEN 0
      ELSE (CHOOSE i \in at : \A j \in at : i <= j) + Len(name) - 1

\* The component after which the driver expects the child of a directory: after
\* the FIRST component in which the directory's name occurs, when it occurs at
\* the end of it (0 for the root); -1 if there is none.
AfterParent(path, parent) ==
  LET hits == {i \in DOMAIN path : FirstEnd(path[i], parent) > 0}
      i    == CHOOSE k \in hits : \A l \in hits : k <= l
  IN  CASE parent = Slash -> 0
        [] parent # Slash /\ hits = {} -> -1
        [] OTHER -> IF FirstEnd(path[i], parent) = Len(path[i]) THEN i ELSE -1

\* Mutant: the parent of every entry is taken to be the root.
check_parse_filenameMutant(path, parent) ==
  IF path = <<>> THEN 1 ELSE IF Len(path) = 1 THEN 0 ELSE -1

\* Is the component after the i-th the last one?  The comparison stops at the length
\* of the child's name, so a longer component in its place passes too.
IsLeaf(path, i) == i >= 0 /\ i < Len(path) /\ IsPrefix(Last(path), path[i + 1])

\* check_parse_filename: 1 for "./" whatever the directory, 0 for what is taken
\* to be a child, -1 for the rest.
check_parse_filename(path, parent) ==
  IF path = <<>> THEN 1 ELSE IF IsLeaf(path, AfterParent(path, parent)) THEN 0 ELSE -1

\* build_node_tarfs: the node of the header at an address; an empty file shares
\* the base pointer of the archive.
build_node_tarfs(archive, at) ==
  LET size == get_file_size_tarfs(archive[at].size)
  IN  [fs |-> "tar", name |-> Last(archive[at].path), type |-> get_type_flags(archive[at].flag),
       size |-> size, data |-> IF size > 0 THEN at + BLOCK ELSE 0]

\* The headers scanned from a node that pass check_parse_filename.  Only a
\* directory has the archive at its base pointer: in a file the scan reads the
\* file's contents, or fails, and finds no magic value.
Family(archive, node) ==
  IF node.type # "DIRE" THEN <<>>
  ELSE Keep(Visited(archive),
            {at \in DOMAIN archive : check_parse_filename(archive[at].path, node.name) # -1})

\* read_directory_tarfs: entry 0 is the directory itself, because "./" comes first.
read_directory_tarfs(archive, node, entry_no) ==
  LET family == Family(archive, node)
      at     == family[entry_no + 1]
  IN  IF entry_no >= Len(family) THEN Nil
      ELSE IF archive[at].path # <<>> THEN build_node_tarfs(archive, at)
      ELSE IF entry_no = 0 THEN node ELSE Nil

\* list_directory_tarfs: the entries from 1 on.
list_directory_tarfs(archive, node) ==
  [i \in 1 .. Len(Family(archive, node)) - 1 |-> read_directory_tarfs(archive, node, i)]

\* The node of the first header of a family that has the name.
FirstNamed(archive, family, name) ==
  LET hits == {i \in DOMAIN family : /\ archive[family[i]].path # <<>>
                                     /\ Last(archive[family[i]].path) = name}
  IN  IF hits = {} THEN Nil ELSE build_node_tarfs(archive, family[Min(hits)])

\* One level of find_in_directory_tarfs_internal: the first child with the name.
Child(archive, node, name) == FirstNamed(archive, Family(archive, node), name)

\* find_in_directory_tarfs: descends by components, and stops at the first one
\* that has the name of the file looked for.
find_in_directory_tarfs(archive, node, path) ==
  LET at[k \in 0 .. Len(path)] ==
        IF k = 0 THEN node
        ELSE IF at[k - 1] = Nil THEN Nil ELSE Child(archive, at[k - 1], path[k])
  IN  at[Min({k \in 1 .. Len(path) : path[k] = Last(path)})]

\* Mutant: a read up to the end loses the last byte.
read_node_tarfsMutant(node, start_at, size) ==
  IF node.type # "DIRE" /\ (start_at >= node.size \/ start_at >= WORD \div 2) THEN -1
  ELSE IF (start_at + size) % WORD > (node.size - 1) % WORD THEN (node.size - 1 - start_at) % WORD
  ELSE size

\* read_node_tarfs: how many bytes are copied, -1 for none.  A directory is read
\* without the check of its size: it is the archive itself.
read_node_tarfs(node, start_at, size) ==
  IF node.type # "DIRE" /\ (start_at >= node.size \/ start_at >= WORD \div 2) THEN -1
  ELSE IF (start_at + size) % WORD > (node.size - 1) % WORD THEN (node.size - start_at) % WORD
  ELSE size

\* mount_tarfs: the root node is named after the whole mount point.
TarRoot(mountpoint, size) ==
  [fs |-> "tar", name |-> Slash \o FlattenSeq(mountpoint), type |-> "DIRE", size |-> size, data |-> 0]
=============================================================================
