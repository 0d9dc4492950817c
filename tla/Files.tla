-------------------------------- MODULE Files --------------------------------
(***************************************************************************)
(* Files: the node tree of the Vfs with Tmpfs and Initramfs, the file      *)
(* descriptors, the handles of the tasks, and the system calls on them.    *)
(* A system call runs with interrupts off, so each is one step; the tasks  *)
(* share the nodes and the three standard descriptors.                     *)
(*                                                                         *)
(* A path is its names, whether it starts with a slash, and its length.    *)
(* Contents of files are left out; sizes and capacities are kept.          *)
(* The model stops where the behaviour of the code is no longer defined:   *)
(* "list" when it follows a pointer to freed memory or writes through a    *)
(* null pointer of a list, "path" when it uses the children of a node that *)
(* has none or a node that does not exist, or overflows a path buffer, and *)
(* "file" when a write goes outside the data of its file, never returns,   *)
(* or needs more than there is memory for.                                 *)
(***************************************************************************)
EXTENDS List

CONSTANTS
  Tasks,
  Names,       \* file names; NoName is the empty one
  NoName,
  Hash,        \* hash_key: name -> number
  Capacity,    \* buckets of a StringHashMap
  Archive,     \* the initramfs: a sequence of [path, dir, size]
  Workloads,   \* bounds: what the programs of a behaviour do,
               \* [calls, tasks, paths, modes, offsets, ids, handles]; a path is [abs, names, len]
  BlockSizes,  \* the sizes the heap rounds a string up to
  Lengths,     \* lengths of reads and writes
  SizeRange,   \* a size_t counts modulo this, 2^64 in the code
  MaxFile,     \* bound: the most bytes that the memory has for a file
  MaxNodes,    \* bound: most nodes
  MaxCwd       \* bound: longest working directory

ASSUME FilesAssumption ==
  /\ NoName \notin Names /\ Hash \in [Names \cup {NoName} -> Nat]
  /\ Capacity \in Nat \ {0} /\ BlockSizes \subseteq Nat
  /\ SizeRange \in Nat \ {0} /\ MaxFile \in Nat /\ 2 * MaxFile <= SizeRange
  /\ Lengths \subseteq 0 .. MaxFile /\ MaxNodes \in Nat /\ MaxCwd \in Nat
  /\ Archive \in Seq([path : [abs : BOOLEAN, names : Seq(Names), len : Nat],
                      dir : BOOLEAN, size : Nat])
  /\ \A w \in Workloads :
       /\ w.tasks \subseteq Tasks /\ w.handles \in Nat /\ w.offsets \subseteq Int /\ w.ids \subseteq Nat
       /\ w.paths \subseteq [abs : BOOLEAN, names : Seq(Names), len : Nat]
       /\ w.modes \subseteq {"r", "w", "rw"}
       /\ w.calls \subseteq {"open", "openat", "close", "socket", "io", "seek",
                             "entries", "mkdir", "chdir", "stat"}

VARIABLES
  load,      \* the workload of this behaviour
  nodes,     \* all nodes: [name, dir, dirty, children, size, capacity]
  desc,      \* all descriptors: [alive, id, node, mode, pos, todo]
  handles,   \* Task::handles, a list of descriptors
  sockets,   \* the ids in Task::socket_handles
  next_id,
  cwd,       \* Task::working_dir: [names, len]
  open,      \* history: the descriptors a task opened and did not close
  newestOnly,\* history: only the newest handle of a task was ever closed
  stop

vars == <<load, nodes, desc, handles, sockets, next_id, cwd, open, newestOnly, stop>>

-----------------------------------------------------------------------------
(* Nodes.  The children of a directory are kept in the order of get_nth:   *)
(* by bucket, and in a bucket by age.                                      *)
RootNode == 1
StdNodes == 2 .. 4

Node(name, dir, dirty) ==
  [name |-> name, dir |-> dir, dirty |-> dirty, children |-> <<>>, size |-> 0, capacity |-> 0]

Bucket(ns, n) == Hash[ns[n].name] % Capacity

(* Where the buckets up to that of n end in s. *)
BucketEnd(ns, s, n) ==
  CHOOSE k \in 0 .. Len(s) :
    /\ \A i \in 1 .. k : Bucket(ns, s[i]) <= Bucket(ns, n)
    /\ \A i \in k + 1 .. Len(s) : Bucket(ns, s[i]) > Bucket(ns, n)

(* Mutant: the new entry replaces the one before it. *)
InsertReplaces(ns, s, n) ==
  IF BucketEnd(ns, s, n) = 0 THEN <<n>> \o s ELSE [s EXCEPT ![BucketEnd(ns, s, n)] = n]

(* StringHashMap::insert of a key that is not in the map. *)
Insert(ns, s, n) ==
  LET k == BucketEnd(ns, s, n)
  IN  [i \in 1 .. Len(s) + 1 |-> IF i <= k THEN s[i] ELSE IF i = k + 1 THEN n ELSE s[i - 1]]

(* StringHashMap::get: the first entry with the hash of the name. *)
Get(ns, dir, name) ==
  LET s == ns[dir].children
      hits == {i \in DOMAIN s : Hash[ns[s[i]].name] = Hash[name]}
  IN  IF hits = {} THEN Nil ELSE s[CHOOSE i \in hits : \A j \in hits : i <= j]

(* The places of the entries that get_nth counts, and its count when it    *)
(* comes to place i.                                                       *)
Counted(ns, dir) ==
  {i \in DOMAIN ns[dir].children : Hash[ns[ns[dir].children[i]].name] # 0}
Count(ns, dir, i) == Cardinality({j \in Counted(ns, dir) : j < i})

(* A file has no map of children, and the table of a map is not cleared    *)
(* when it is made: unless its memory is fresh, a lookup follows garbage.  *)
HasMap(ns, n) == ns[n].dir /\ ~ns[n].dirty

(* Vfs::get_node; leading slashes are skipped. *)
GetNode(ns, names) ==
  LET at[i \in 0 .. Len(names)] ==
        IF i = 0 THEN RootNode
        ELSE IF at[i - 1] \in {Nil, Bad} THEN at[i - 1]
        ELSE IF HasMap(ns, at[i - 1]) THEN Get(ns, at[i - 1], names[i]) ELSE Bad
  IN  at[Len(names)]

(* One round of the loop of Vfs::create: c == [ns, at]. *)
CreateStep(c, name, dir, dirty) ==
  LET found == Get(c.ns, c.at, name)
      ns == Append(c.ns, Node(name, dir, dir /\ dirty))
  IN  IF c.at = Bad \/ ~HasMap(c.ns, c.at) THEN [c EXCEPT !.at = Bad]
      ELSE IF found # Nil THEN [c EXCEPT !.at = found]
      ELSE [ns |-> [ns EXCEPT ![c.at].children = Insert(ns, @, Len(ns))], at |-> Len(ns)]

(* Vfs::create: what is missing on the path is made.  A leading slash ends *)
(* an empty first name.  (strcmp reads past the end of the empty string it *)
(* tests for the last name with; this can only matter for a file whose     *)
(* directory is missing, and an archive lists the directory first.)        *)
Create(ns0, path, dir, dirty) ==
  LET names == IF path.abs THEN <<NoName>> \o path.names ELSE path.names
      step[i \in 0 .. Len(names)] ==
        IF i = 0 THEN [ns |-> ns0, at |-> RootNode]
        ELSE CreateStep(step[i - 1], names[i], dir \/ i < Len(names), dirty)
  IN  step[Len(names)]

(* Initramfs::init: capacity is left at 0. *)
Unpacked(ns0) ==
  LET step[i \in 0 .. Len(Archive)] ==
        IF i = 0 THEN ns0
        ELSE LET c == Create(step[i - 1], Archive[i].path, Archive[i].dir, FALSE)
             IN  [c.ns EXCEPT ![c.at].size = Archive[i].size]
  IN  step[Len(Archive)]

-----------------------------------------------------------------------------
(* Descriptors 1, 2 and 3 are stdin, stdout and stderr. *)
StdDesc(d) ==
  [alive |-> TRUE, id |-> d - 1, node |-> d + 1, mode |-> IF d = 1 THEN "r" ELSE "w",
   pos |-> 0, todo |-> {}]

(* Vfs::mount, init_std, Initramfs::init; Task::create adds the standard   *)
(* handles, which count as ids given out.                                  *)
Init ==
  /\ load \in Workloads
  /\ nodes = Unpacked(<<Node(NoName, TRUE, FALSE),
                        [Node(NoName, FALSE, FALSE) EXCEPT !.size = MaxFile + 1,
                                                           !.capacity = MaxFile + 1],
                        Node(NoName, FALSE, FALSE), Node(NoName, FALSE, FALSE)>>)
  /\ desc = [d \in 1 .. 3 |-> StdDesc(d)]
  /\ handles = [t \in Tasks |-> Push(Push(Push(EmptyList, 1), 2), 3)]
  /\ open = [t \in Tasks |-> {1, 2, 3}]
  /\ sockets = [t \in Tasks |-> {}]
  /\ next_id = [t \in Tasks |-> 6]
  /\ cwd = [t \in Tasks |-> [names |-> <<>>, len |-> 1]]
  /\ newestOnly = TRUE
  /\ stop = "no"

(* Task::get_file_handle; a shared descriptor may have been freed. *)
GetFileHandle(t, id) ==
  Find(handles[t], {d \in DOMAIN desc : desc[d].alive}, {d \in DOMAIN desc : desc[d].id = id})

Stops(reason) ==
  /\ stop' = reason
  /\ UNCHANGED <<nodes, desc, handles, sockets, next_id, cwd, open, newestOnly>>

(* A system call with a handle whose lookup meets freed memory. *)
BadHandle(t, id) == GetFileHandle(t, id) = Bad /\ Stops("list")

(* Vfs::open: a new descriptor for node n, and the id it will get. *)
NewDesc(n, mode, id) ==
  [alive |-> TRUE, id |-> id, node |-> n, mode |-> mode, pos |-> 0,
   todo |-> {nodes[n].children[i] : i \in DOMAIN nodes[n].children}]

(* Task::add_file_handle of a new descriptor. *)
AddFileHandle(t, n, mode) ==
  LET d == Len(desc) + 1
  IN  /\ desc' = Append(desc, NewDesc(n, mode, next_id[t]))
      /\ handles' = [handles EXCEPT ![t] = Push(@, d)]
      /\ open' = [open EXCEPT ![t] = @ \cup {d}]
      /\ next_id' = [next_id EXCEPT ![t] = @ + 1]
      /\ UNCHANGED <<nodes, sockets, cwd, newestOnly, stop>>

(* sys_open. *)
SysOpen(t, path, mode) ==
  LET n == GetNode(nodes, path.names)
  IN  /\ n # Nil /\ Len(desc) < 3 + load.handles
      /\ IF n = Bad THEN Stops("path") ELSE AddFileHandle(t, n, mode)

(* The block that strdup gets for a string of length len. *)
BlockOf(len) ==
  CHOOSE b \in BlockSizes : len + 1 <= b /\ \A c \in BlockSizes : len + 1 <= c => b <= c

(* strcat(strdup(a), b) stays in its block. *)
CatFits(a, b) == a + b + 1 <= BlockOf(a)

(* sys_openat: the absolute path is put together, but path is opened; a    *)
(* file opened as a directory is dropped.                                  *)
SysOpenat(t, path, mode, directory) ==
  LET n == GetNode(nodes, path.names)
  IN  /\ Len(desc) < 3 + load.handles
      /\ IF ~CatFits(cwd[t].len, path.len) \/ n = Bad THEN Stops("path")
         ELSE n # Nil /\ (directory => nodes[n].dir) /\ AddFileHandle(t, n, mode)

(* sys_close. *)
SysClose(t, id) ==
  LET d == GetFileHandle(t, id)
  IN  /\ d \notin {Nil, Bad}
      /\ newestOnly' = (newestOnly /\ d = handles[t].head /\ d > 3)
      /\ IF ~RemoveIsSafe(handles[t], d)
           THEN stop' = "list" /\ UNCHANGED <<handles, desc, open>>
           ELSE /\ handles' = [handles EXCEPT ![t] = Remove(@, d)]
                /\ desc' = [desc EXCEPT ![d].alive = FALSE, ![d].todo = {}, ![d].pos = 0]
                /\ open' = [open EXCEPT ![t] = @ \ {d}]
                /\ UNCHANGED stop
      /\ UNCHANGED <<nodes, sockets, next_id, cwd>>

(* Task::add_socket_handle, from sys_socket. *)
AddSocketHandle(t) ==
  /\ next_id[t] < 6 + load.handles
  /\ sockets' = [sockets EXCEPT ![t] = @ \cup {next_id[t]}]
  /\ next_id' = [next_id EXCEPT ![t] = @ + 1]
  /\ UNCHANGED <<nodes, desc, handles, cwd, open, newestOnly, stop>>

-----------------------------------------------------------------------------
OnlyDesc == UNCHANGED <<nodes, handles, sockets, next_id, cwd, open, newestOnly, stop>>

(* A number kept in a size_t. *)
Wrapped(x) == x % SizeRange

(* Vfs::read: the position moves by the length asked for, except on stdin, *)
(* whose reads block in Tty::read.                                         *)
VfsRead(d, len) ==
  /\ d # 1 /\ desc[d].mode # "w" /\ ~nodes[desc[d].node].dir
  /\ desc[d].pos < nodes[desc[d].node].size
  /\ desc' = [desc EXCEPT ![d].pos = Wrapped(@ + len)]
  /\ OnlyDesc

(* sys_read. *)
SysRead(t, id, len) ==
  LET d == GetFileHandle(t, id)
  IN  d \notin {Nil, Bad} /\ VfsRead(d, len)

(* Vfs::seek: the new position.  The offset of sys_seek has a sign, and is *)
(* a size_t here: nothing keeps the position from falling below 0.         *)
SeekTo(d, base, offset) ==
  LET from == CASE base = "set" -> 0
                [] base = "current" -> desc[d].pos
                [] base = "end" -> nodes[desc[d].node].size
  IN  Wrapped(from + offset)

(* sys_seek; a directory listing that is repositioned starts anew. *)
SysSeek(t, id, base, offset) ==
  LET d == GetFileHandle(t, id)
  IN  /\ d \notin {Nil, Bad}
      /\ desc' = [desc EXCEPT ![d].pos = SeekTo(d, base, offset), ![d].todo = {}]
      /\ OnlyDesc

(* Mutant: the capacity is doubled once. *)
GrownOnce(capacity, needed) == 2 * capacity

(* The loop of Vfs::write: doubled until it is enough, which takes less    *)
(* than `needed` rounds; if it is not by then, it never will be.           *)
Grown(capacity, needed) ==
  LET after[i \in 0 .. needed] ==
        IF i = 0 THEN capacity
        ELSE IF after[i - 1] < needed THEN Wrapped(2 * after[i - 1]) ELSE after[i - 1]
  IN  after[needed]

(* Vfs::write.  An empty file gets room for the length of the first write, *)
(* wherever the position is; a file of the initramfs has capacity 0, which *)
(* doubling never changes; and what is compared with the capacity is the   *)
(* end of the write in a size_t, not where it starts.  The terminal does   *)
(* not store what is written.                                              *)
VfsWrite(d, len) ==
  LET n == desc[d].node
      needed == Wrapped(desc[d].pos + len)
      grows == nodes[n].size # 0 /\ needed > nodes[n].capacity
      capacity == IF nodes[n].size = 0 THEN len
                  ELSE IF grows THEN Grown(nodes[n].capacity, needed) ELSE nodes[n].capacity
      size == IF nodes[n].size = 0 THEN len ELSE nodes[n].size
  IN  /\ desc[d].mode # "r" /\ ~nodes[n].dir
      /\ IF \/ grows /\ (capacity < needed \/ needed > MaxFile)
            \/ n \notin StdNodes /\ len > 0 /\ desc[d].pos + len > capacity
           THEN Stops("file")
           ELSE /\ nodes' = [nodes EXCEPT ![n].capacity = capacity,
                                          ![n].size = IF needed > size THEN needed ELSE size]
                /\ desc' = [desc EXCEPT ![d].pos = needed]
                /\ UNCHANGED <<handles, sockets, next_id, cwd, open, newestOnly, stop>>

(* sys_write. *)
SysWrite(t, id, len) ==
  LET d == GetFileHandle(t, id)
  IN  d \notin {Nil, Bad} /\ VfsWrite(d, len)

(* Mutant: the entry after the position is read. *)
NthAfter(ns, dir, n) ==
  LET hits == {i \in Counted(ns, dir) : Count(ns, dir, i) = n + 1}
  IN  IF hits = {} THEN Nil ELSE ns[dir].children[CHOOSE i \in hits : TRUE]

(* StringHashMap::get_nth. *)
Nth(ns, dir, n) ==
  LET hits == {i \in Counted(ns, dir) : Count(ns, dir, i) = n}
  IN  IF hits = {} THEN Nil ELSE ns[dir].children[CHOOSE i \in hits : TRUE]

(* sys_read_entries: one entry per call, at the position of the handle. *)
SysReadEntries(t, id) ==
  LET d == GetFileHandle(t, id)
      n == desc[d].node
  IN  /\ d \notin {Nil, Bad} /\ nodes[n].dir
      /\ IF ~HasMap(nodes, n) THEN Stops("path")
         ELSE LET child == Nth(nodes, n, desc[d].pos)
              IN  /\ child # Nil
                  /\ desc' = [desc EXCEPT ![d].pos = Wrapped(@ + 1), ![d].todo = @ \ {child}]
                  /\ OnlyDesc

(* sys_mkdir; always from the root, and always successful. *)
SysMkdir(path, dirty) ==
  LET c == Create(nodes, path, TRUE, dirty)
  IN  /\ Len(c.ns) <= MaxNodes
      /\ IF c.at = Bad THEN Stops("path")
         ELSE nodes' = c.ns /\ UNCHANGED <<desc, handles, sockets, next_id, cwd, open, newestOnly, stop>>

(* sys_chdir: a relative path is appended in place. *)
SysChdir(t, path) ==
  LET len == IF path.abs THEN path.len ELSE cwd[t].len + 1 + path.len
      names == IF path.abs THEN path.names ELSE cwd[t].names \o path.names
  IN  /\ len <= MaxCwd
      /\ IF ~path.abs /\ ~CatFits(cwd[t].len, 1 + path.len) THEN Stops("path")
         ELSE /\ cwd' = [cwd EXCEPT ![t] = [names |-> names, len |-> len]]
              /\ UNCHANGED <<nodes, desc, handles, sockets, next_id, open, newestOnly, stop>>

(* sys_stat of a path: the working directory and the path are put together *)
(* without a slash, and a node that does not exist is used.                *)
SysStat(t, path) ==
  LET plain == cwd[t].names = <<>> \/ path.abs
      n == IF plain THEN GetNode(nodes, cwd[t].names \o path.names) ELSE Nil
  IN  /\ n \in {Nil, Bad} \/ ~CatFits(cwd[t].len, path.len)
      /\ Stops("path")

Opens(t) ==
  \E path \in load.paths, mode \in load.modes :
    \/ "open" \in load.calls /\ SysOpen(t, path, mode)
    \/ "openat" \in load.calls /\ \E directory \in BOOLEAN : SysOpenat(t, path, mode, directory)

(* The calls on a handle. *)
UsesHandle(t, id) ==
  \/ BadHandle(t, id)
  \/ "close" \in load.calls /\ SysClose(t, id)
  \/ "entries" \in load.calls /\ SysReadEntries(t, id)
  \/ "io" \in load.calls /\ \E len \in Lengths : SysRead(t, id, len) \/ SysWrite(t, id, len)
  \/ "seek" \in load.calls /\ \E base \in {"set", "current", "end"}, offset \in load.offsets :
                               SysSeek(t, id, base, offset)

UsesPath(t) ==
  \E path \in load.paths :
    \/ "chdir" \in load.calls /\ SysChdir(t, path)
    \/ "stat" \in load.calls /\ SysStat(t, path)
    \/ "mkdir" \in load.calls /\ \E dirty \in BOOLEAN : SysMkdir(path, dirty)

Next ==
  /\ stop = "no"
  /\ \E t \in load.tasks :
       \/ Opens(t)
       \/ \E id \in load.ids : UsesHandle(t, id)
       \/ UsesPath(t)
       \/ "socket" \in load.calls /\ AddSocketHandle(t)
  /\ UNCHANGED load

Spec == Init /\ [][Next]_vars

-----------------------------------------------------------------------------
(* The prev pointers of the list of handles are wrong, but as long as a    *)
(* task only closes the newest of its own handles, its list is exactly its *)
(* open descriptors, newest first, no lookup or close touches freed        *)
(* memory, and no two of its files and sockets have the same id.  Whatever *)
(* it closes, the node that the next push writes to exists.                *)
HandlesFound ==
  /\ \A t \in Tasks : PushIsSafe(handles[t])
  /\ newestOnly =>
       /\ stop # "list"
       /\ \A t \in Tasks :
            LET list == Values(handles[t])
            IN  /\ {list[i] : i \in DOMAIN list} = open[t]
                /\ \A i, j \in DOMAIN list : i < j => list[i] > list[j]
                /\ \A d \in open[t] : desc[d].alive /\ desc[d].id \notin sockets[t]
                /\ \A d, e \in open[t] : desc[d].id = desc[e].id => d = e

(* Directories only grow, and a listing has to survive that: an entry that *)
(* was there when the directory was opened and has not been returned yet   *)
(* is still ahead of the position, although new entries shift the others   *)
(* (get_nth counts over the buckets anew at every call).                   *)
ListingMissesNothing ==
  \A d \in DOMAIN desc :
    LET dir == desc[d].node
    IN  \A n \in desc[d].todo :
          Hash[nodes[n].name] # 0 =>
            \E i \in Counted(nodes, dir) :
              nodes[dir].children[i] = n /\ Count(nodes, dir, i) >= desc[d].pos

(* What create made, create and get_node find again: every node but the    *)
(* root and the standard ones is an entry of exactly one directory, and    *)
(* the one that a lookup of its hash there returns, however the names of   *)
(* the directory share buckets and hashes.                                 *)
NodesFound ==
  LET parents(n) == {p \in DOMAIN nodes : \E i \in DOMAIN nodes[p].children :
                                            nodes[p].children[i] = n}
  IN  \A n \in DOMAIN nodes \ ({RootNode} \cup StdNodes) :
        /\ Cardinality(parents(n)) = 1
        /\ \A p \in parents(n) :
             /\ nodes[p].dir /\ Get(nodes, p, nodes[n].name) = n

(* A file that has a capacity never holds more than it.                    *)
InCapacity ==
  \A n \in DOMAIN nodes \ StdNodes :
    nodes[n].capacity > 0 => nodes[n].size <= nodes[n].capacity

(* Vfs::write goes outside the data of a file, or does not end, in three   *)
(* cases only: the descriptor stands so high that the write ends beyond    *)
(* what there is memory for, or beyond the range of a size_t, as it does   *)
(* after a seek below 0; or it does not stand at the start of a file that  *)
(* is empty; or the file has contents without a capacity, like those of    *)
(* the archive.                                                            *)
WritesLost ==
  stop = "file" =>
    \E d \in DOMAIN desc, len \in Lengths :
      LET file == nodes[desc[d].node]
      IN  \/ desc[d].pos + len > MaxFile
          \/ file.size = 0 /\ desc[d].pos > 0 /\ len > 0
          \/ file.size > 0 /\ file.capacity = 0

(* Whatever lengths are written through however many handles, wherever     *)
(* they were positioned, a file keeps to its capacity, and there is no     *)
(* fourth way for a write to lose its file.                                *)
FileInCapacity == InCapacity /\ WritesLost
=============================================================================
