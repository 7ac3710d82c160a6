------------------------- MODULE FSNamespaceProofs -------------------------
(***************************************************************************)
(* Proofs about FSNamespace: for any number of inodes, blocks and entries, *)
(* any names and paths, and deaths at any step of fs_create, no two        *)
(* directories share a block of entries, names are links to inodes one to  *)
(* one, what is listed stays listed, a create that fails leaves both maps  *)
(* as it found them, only a death leaves what nobody accounts for, every   *)
(* variable keeps its type, lookup finds what is listed, and each step is  *)
(* one of the tree of named files in FileTree.                             *)
(***************************************************************************)
EXTENDS FSNamespace, FiniteSetTheorems, SequenceTheorems, WellFoundedInduction,
        TLAPS

-----------------------------------------------------------------------------
(* The inductive invariant.                                                *)

IsEntries(E) == E = [s \in Slots |-> E[s]]

PCs == {"idle", "verify", "inode", "entries", "parent", "free inode", "free block"}

TypeInv ==
    /\ Reserved \subseteq fbm /\ fbm \subseteq Blocks
    /\ data \subseteq fbm \ Reserved
    /\ inode_map \subseteq Inums /\ Root \in inode_map
    /\ inodes \in [Inums -> Inode]
    /\ dents = [n \in Blocks |-> dents[n]]
    /\ \A n \in Blocks : IsEntries(dents[n])

CallInv ==
    /\ call = [pc |-> call.pc, path |-> call.path, type |-> call.type,
               parent |-> call.parent, node |-> call.node,
               entries |-> call.entries, is_new |-> call.is_new,
               inum |-> call.inum, before |-> call.before]
    /\ call.pc \in PCs
    /\ call.type \in Types
    /\ call.node \in Inode
    /\ IsEntries(call.entries)
    /\ call.is_new \in BOOLEAN
    /\ call.pc = "idle" => call.is_new = FALSE

\* Where the call has allocated an inode.
HasInum == call.pc \in {"inode", "entries", "parent", "free inode"}

\* A stored inode without files has no entries, an inode that is not allocated
\* has no files, and neither has the one the call has allocated.
InodeInv ==
    /\ \A i \in Inums : inodes[i].file_size = 0 =>
         inodes[i].dir_entry_map = {} /\ inodes[i].data_direct = 0
    /\ \A i \in Inums \ inode_map : inodes[i].file_size = 0
    /\ HasInum => /\ call.inum \in inode_map \ {Root, call.parent}
                  /\ inodes[call.inum].file_size = 0

\* How the local copy of the parent's inode is ahead of the stored one.
ParentInv ==
    call.pc # "idle" =>
      /\ call.parent \in inode_map /\ inodes[call.parent].file_type = "d"
      /\ call.node.file_type = "d"
      /\ call.is_new <=> inodes[call.parent].file_size = 0
      /\ ~call.is_new => call.node.data_direct = inodes[call.parent].data_direct
      /\ inodes[call.parent].dir_entry_map \subseteq call.node.dir_entry_map
      /\ call.pc \in {"verify", "inode"} =>
           call.node.dir_entry_map = inodes[call.parent].dir_entry_map
      /\ call.pc \in {"entries", "parent"} => call.node.file_size > 0
      /\ call.pc = "free block" => call.is_new

\* What the maps were when the call started.
BeforeInv ==
    call.pc # "idle" =>
      call.before = <<fbm \ NewBlocks,
                      IF HasInum THEN inode_map \ {call.inum} ELSE inode_map>>

\* E may become the entries of the parent.
GoodEntries(E) ==
    \A s \in Slots : E[s].filename # NoName =>
      /\ E[s].inum \in inode_map \ {Root}
      /\ \A t \in Slots :
           /\ E[t].filename # NoName
           /\ E[s].inum = E[t].inum \/ E[s].filename = E[t].filename
           => s = t
      /\ \A at \in Named : at[1] # call.parent => EntryAt(at).inum # E[s].inum

\* The local copy of the entries, before and after the new one is in it.
EntriesInv ==
    /\ call.pc \in {"verify", "inode"} =>
         IF call.is_new
         THEN /\ call.entries[0].inum = Root
              /\ \A s \in Slots \ {0} : call.entries[s].filename = NoName
         ELSE call.entries = dents[call.node.data_direct]
    /\ call.pc = "inode" /\ _basename(call.path) # NoName =>
         \A s \in Slots : call.entries[s].filename # _basename(call.path)
    /\ call.pc \in {"inode", "free inode"} =>
         \A at \in Named : EntryAt(at).inum # call.inum
    /\ call.pc \in {"entries", "parent"} => GoodEntries(call.entries)
    /\ call.pc \in {"entries", "parent"} /\ ~call.is_new =>
         \A s \in inodes[call.parent].dir_entry_map :
           call.entries[s] = dents[call.node.data_direct][s]
    /\ call.pc = "parent" => dents[call.node.data_direct] = call.entries

IInv ==
    /\ TypeInv /\ CallInv /\ InodeInv /\ ParentInv /\ BeforeInv
    /\ EntryBlocksApart /\ EntriesInv /\ NamesAreLinks

-----------------------------------------------------------------------------
(* Facts about the constants and about one state.                          *)

LEMMA Shape ==
    /\ Root \in Inums /\ 0 \in Slots /\ MapSlots \subseteq Slots /\ 0 \in MapSlots
    /\ 0 \in Blocks /\ 0 \in Reserved
    /\ NONE \notin Inums /\ Inums \subseteq Nat /\ Slots \subseteq Nat
    /\ MapSlots \subseteq Nat /\ Blocks \subseteq Nat
  BY ShapeAssumption DEF Root, Inums, Slots, MapSlots, Blocks, Reserved, NONE

LEMMA NewInodeType ==
    ASSUME NEW type \in Types
    PROVE  /\ NewInode(type) \in Inode
           /\ NewInode(type).file_size = 0 /\ NewInode(type).file_type = type
           /\ NewInode(type).dir_entry_map = {} /\ NewInode(type).data_direct = 0
  BY Shape DEF NewInode, Inode

LEMMA NoEntriesType ==
    /\ IsEntries(NoEntries) /\ IsEntries(BitmapAsEntries)
    /\ BitmapAsEntries[0].inum = Root
    /\ \A s \in Slots \ {0} : BitmapAsEntries[s].filename = NoName
  <1> DEFINE first == [ZeroEntry EXCEPT !.filename = MapName[Cardinality(inode_map)]]
  <1>1. BitmapAsEntries = [NoEntries EXCEPT ![0] = first]
    BY Shape DEF BitmapAsEntries, NoEntries
  <1>2. first.inum = Root
    BY DEF ZeroEntry
  <1>3. ZeroEntry.filename = NoName
    BY DEF ZeroEntry
  <1> HIDE DEF first
  <1>4. IsEntries(NoEntries) /\ \A s \in Slots : NoEntries[s] = ZeroEntry
    BY DEF IsEntries, NoEntries
  <1>5. IsEntries(BitmapAsEntries)
    BY <1>1, <1>4 DEF IsEntries
  <1>6. BitmapAsEntries[0] = first
    BY <1>1, <1>4, Shape DEF IsEntries
  <1>7. \A s \in Slots \ {0} : BitmapAsEntries[s] = ZeroEntry
    BY <1>1, <1>4 DEF IsEntries
  <1> QED BY <1>2, <1>3, <1>4, <1>5, <1>6, <1>7

\* The inode a call has just allocated has no files: it is not in the way.
LEMMA FilledIs ==
    TypeInv /\ InodeInv =>
      Filled = {i \in inode_map : inodes[i].file_type = "d" /\ inodes[i].file_size > 0}
  <1> SUFFICES ASSUME TypeInv, InodeInv, NEW i
              PROVE  i \in Filled <=> /\ i \in inode_map /\ inodes[i].file_type = "d"
                                      /\ inodes[i].file_size > 0
    BY DEF Filled, Dirs
  <1>1. CASE call.pc = "inode"
    BY <1>1 DEF InodeInv, HasInum, Filled, Dirs
  <1>2. CASE call.pc # "inode"
    BY <1>2 DEF Filled, Dirs
  <1> QED BY <1>1, <1>2

\* A set of numbers that is not empty has a least member.
LEMMA LeastExists ==
    ASSUME NEW T, T \subseteq Nat, T # {}
    PROVE  \E x \in T : \A y \in T : x <= y
  <1> DEFINE Less == {ss \in Nat \X Nat : ss[1] < ss[2]}
  <1>1. OpToRel(<, Nat) = Less
    BY Zenon DEF OpToRel
  <1>2. IsWellFoundedOn(Less, Nat)
    BY <1>1, NatLessThanWellFounded
  <1>3. PICK x \in T : \A y \in T : ~ (<<y, x>> \in Less)
    BY <1>2, WFMin
  <1>4. ASSUME NEW y \in T PROVE x <= y
    <2>1. x \in Nat /\ y \in Nat
      OBVIOUS
    <2>2. ~ (y < x)
      BY <1>3, <2>1
    <2> QED BY <2>1, <2>2
  <1> QED BY <1>4

\* A name that the search does not find is in no slot.
LEMMA NotFound ==
    ASSUME NEW E, NEW name,
           \A s \in Slots : E[s].filename = name => E[s].inum # NONE,
           _inode_find_child(E, name) = NONE
    PROVE  \A s \in Slots : E[s].filename # name
  <1> DEFINE found == {s \in Slots : E[s].filename = name}
             least == CHOOSE s \in found : \A t \in found : s <= t
  <1>1. SUFFICES ASSUME found # {} PROVE FALSE
    OBVIOUS
  <1>2. found \subseteq Nat
    BY Shape
  <1>3. \E s \in found : \A t \in found : s <= t
    BY <1>1, <1>2, LeastExists
  <1>4. least \in found
    BY <1>3
  <1>5. _inode_find_child(E, name) = E[least].inum
    BY <1>1 DEF _inode_find_child
  <1> QED BY <1>4, <1>5

-----------------------------------------------------------------------------
LEMMA InitInv == Init => IInv
  <1> SUFFICES ASSUME Init PROVE IInv
    OBVIOUS
  <1>1. /\ fbm = Reserved /\ inode_map = {Root} /\ data = {} /\ call = Idle
        /\ inodes = [i \in Inums |-> NewInode("d")]
        /\ dents = [n \in Blocks |-> NoEntries]
    BY DEF Init
  <1>2. NewInode("d") \in Inode /\ NewInode("d").file_size = 0
        /\ NewInode("d").dir_entry_map = {} /\ NewInode("d").data_direct = 0
    BY NewInodeType DEF Types
  <1>3. TypeInv
    BY <1>1, <1>2, Shape, ShapeAssumption, NoEntriesType DEF TypeInv, Reserved, Blocks
  <1>4. call.pc = "idle" /\ call.is_new = FALSE
    BY <1>1 DEF Idle
  <1>5. CallInv
    BY <1>1, <1>2, NoEntriesType DEF CallInv, Idle, PCs, Types
  <1>6. InodeInv
    BY <1>1, <1>2, <1>4 DEF InodeInv, HasInum
  <1>7. Filled = {}
    BY <1>1, <1>2, <1>3, <1>6, FilledIs DEF TypeInv
  <1>8. ParentInv /\ BeforeInv /\ EntriesInv
    BY <1>4 DEF ParentInv, BeforeInv, EntriesInv
  <1>9. EntryBlocksApart /\ NamesAreLinks
    BY <1>4, <1>7 DEF EntryBlocksApart, NamesAreLinks, Named, NewBlocks
  <1> QED BY <1>3, <1>5, <1>6, <1>8, <1>9 DEF IInv

LEMMA FilledIsNext ==
    (TypeInv /\ InodeInv)' =>
      Filled' = {i \in inode_map' : inodes'[i].file_type = "d" /\ inodes'[i].file_size > 0}
  <1>1. (TypeInv /\ InodeInv =>
      Filled = {i \in inode_map : inodes[i].file_type = "d" /\ inodes[i].file_size > 0})'
    BY FilledIs, PTL
  <1> QED BY <1>1

\* The names stay when the directories do and no named inode is released.
LEMMA NamesKept ==
    ASSUME NamesAreLinks, Filled' = Filled,
           \A i \in Filled : /\ inodes'[i].data_direct = inodes[i].data_direct
                            /\ dents'[inodes[i].data_direct] = dents[inodes[i].data_direct],
           \A at \in Named : EntryAt(at).inum \in inode_map => EntryAt(at).inum \in inode_map'
    PROVE  /\ NamesAreLinks' /\ Named' = Named
           /\ \A at \in Named : EntryAt(at)' = EntryAt(at)
  <1>1. \A at \in Filled \X Slots : EntryAt(at)' = EntryAt(at)
    BY DEF EntryAt
  <1>2. Named' = Named
    BY <1>1 DEF Named
  <1>3. \A at \in Named : EntryAt(at)' = EntryAt(at)
    BY <1>1 DEF Named
  <1>4. \A at \in Named' : EntryAt(at)'.inum \in inode_map' \ {Root}
    BY <1>3, <1>2 DEF NamesAreLinks
  <1>5. \A at, to \in Named' : EntryAt(at)'.inum = EntryAt(to)'.inum => at = to
    BY <1>3, <1>2 DEF NamesAreLinks
  <1>6. \A at, to \in Named' :
          at[1] = to[1] /\ EntryAt(at)'.filename = EntryAt(to)'.filename => at = to
    BY <1>3, <1>2 DEF NamesAreLinks
  <1> QED BY <1>2, <1>3, <1>4, <1>5, <1>6 DEF NamesAreLinks

\* Inodes without files come and go without a change to the directories.
LEMMA FilledKept ==
    ASSUME TypeInv, InodeInv, TypeInv', InodeInv', inodes' = inodes,
           \A i \in (inode_map \ inode_map') \cup (inode_map' \ inode_map) :
             inodes[i].file_size = 0
    PROVE  Filled' = Filled
  <1>1. ASSUME NEW i PROVE i \in Filled' <=> i \in Filled
    <2>1. i \in Filled <=> i \in inode_map /\ inodes[i].file_type = "d" /\ inodes[i].file_size > 0
      BY FilledIs
    <2>2. i \in Filled' <=> i \in inode_map' /\ inodes[i].file_type = "d" /\ inodes[i].file_size > 0
      BY FilledIsNext
    <2> QED BY <2>1, <2>2
  <1> QED BY <1>1

\* The blocks of entries stay apart when nothing but a new block goes.
LEMMA ApartKept ==
    ASSUME EntryBlocksApart, Filled' = Filled, NewBlocks' \subseteq NewBlocks,
           UNCHANGED <<fbm, data>>,
           \A i \in Filled : inodes'[i].data_direct = inodes[i].data_direct
    PROVE  EntryBlocksApart'
  BY DEF EntryBlocksApart

\* A step that leaves the device alone, after which no call runs.
LEMMA Rest ==
    ASSUME IInv, UNCHANGED <<fbm, inode_map, inodes, dents, data>>,
           CallInv', call'.pc = "idle"
    PROVE  IInv'
  <1>1. TypeInv'
    BY DEF IInv, TypeInv
  <1>2. InodeInv'
    BY DEF IInv, InodeInv, HasInum
  <1>3. Filled' = Filled
    BY <1>1, <1>2, FilledIs, FilledIsNext DEF IInv
  <1>4. ParentInv' /\ BeforeInv' /\ EntriesInv'
    BY DEF ParentInv, BeforeInv, EntriesInv
  <1>5. NewBlocks' = {}
    BY DEF CallInv, NewBlocks
  <1>6. EntryBlocksApart'
    BY <1>3, <1>5 DEF IInv, EntryBlocksApart
  <1>7. NamesAreLinks'
    BY <1>3, NamesKept DEF IInv
  <1> QED BY <1>1, <1>2, <1>4, <1>6, <1>7 DEF IInv

\* fs_create up to its checks, with and without a new block of entries.
LEMMA CreateInv ==
    ASSUME IInv, NEW path \in Paths, NEW type \in Types, fs_create(path, type)
    PROVE  IInv'
  <1> DEFINE P == _get_inum(_dirname(path))
             Copied(node, is_new) ==
               [pc |-> "verify", path |-> path, type |-> type, parent |-> P,
                node |-> node, entries |-> _inode_dir_load(inodes[P]),
                is_new |-> is_new, inum |-> NONE, before |-> <<fbm, inode_map>>]
  <1>1. /\ P \in inode_map /\ inodes[P].file_type = "d" /\ call.pc = "idle"
        /\ UNCHANGED <<inode_map, inodes, dents, data>>
    BY DEF fs_create, Quiet, IsDir, block_store_sub_test
  <1>2. \/ /\ inodes[P].file_size > 0
           /\ call' = Copied(inodes[P], FALSE) /\ UNCHANGED fbm
        \/ /\ inodes[P].file_size = 0
           /\ \E n \in Blocks :
                /\ block_store_allocate(n)
                /\ call' = Copied([inodes[P] EXCEPT !.data_direct = n], TRUE)
    BY ZenonT(60) DEF fs_create, Idle
  <1> HIDE DEF P
  <1>3. /\ TypeInv /\ InodeInv /\ EntryBlocksApart /\ NamesAreLinks
        /\ P \in Inums /\ inodes[P] \in Inode
    BY <1>1 DEF IInv, TypeInv
  <1>4. Filled = {i \in inode_map : inodes[i].file_type = "d" /\ inodes[i].file_size > 0}
    BY <1>3, FilledIs
  <1>5. CASE /\ inodes[P].file_size > 0
             /\ call' = Copied(inodes[P], FALSE) /\ UNCHANGED fbm
    <2>1. P \in Filled
      BY <1>1, <1>4, <1>5
    <2>2. inodes[P].data_direct \in Blocks /\ inodes[P].data_direct # 0
      BY <1>3, <2>1, Shape DEF EntryBlocksApart, Inode
    <2>3. call'.entries = dents[inodes[P].data_direct] /\ IsEntries(call'.entries)
      BY <1>3, <1>5, <2>2 DEF _inode_dir_load, TypeInv
    <2>4. TypeInv'
      BY <1>1, <1>3, <1>5 DEF TypeInv
    <2>5. CallInv'
      BY <1>3, <1>5, <2>3 DEF CallInv, PCs, IsEntries
    <2>6. InodeInv'
      BY <1>1, <1>3, <1>5 DEF InodeInv, HasInum
    <2>7. Filled' = Filled
      BY <1>1, <1>4, <2>4, <2>6, FilledIsNext
    <2>8. NewBlocks' = {}
      BY <1>5 DEF NewBlocks
    <2>9. ParentInv'
      BY <1>1, <1>3, <1>5 DEF ParentInv
    <2>10. BeforeInv'
      BY <1>1, <1>5, <2>8 DEF BeforeInv, HasInum
    <2>11. EntryBlocksApart'
      BY <1>1, <1>3, <1>5, <2>7, <2>8 DEF EntryBlocksApart
    <2>12. EntriesInv'
      BY <1>1, <1>5, <2>3 DEF EntriesInv
    <2>13. NamesAreLinks'
      BY <1>1, <1>3, <2>7, NamesKept
    <2> QED BY <2>4, <2>5, <2>6, <2>9, <2>10, <2>11, <2>12, <2>13 DEF IInv
  <1>6. ASSUME inodes[P].file_size = 0, NEW n \in Blocks, block_store_allocate(n),
               call' = Copied([inodes[P] EXCEPT !.data_direct = n], TRUE)
        PROVE  IInv'
    <2>1. n \notin fbm /\ fbm' = fbm \cup {n}
      BY <1>6 DEF block_store_allocate, IsFirstFree
    <2>2. inodes[P].dir_entry_map = {} /\ inodes[P].data_direct = 0
      BY <1>3, <1>6 DEF InodeInv
    <2>3. call'.entries = BitmapAsEntries /\ IsEntries(call'.entries)
      BY <1>6, <2>2, NoEntriesType DEF _inode_dir_load
    <2>4. TypeInv'
      BY <1>1, <1>3, <2>1 DEF TypeInv
    <2>5. CallInv'
      BY <1>3, <1>6, <2>3 DEF CallInv, PCs, IsEntries, Inode
    <2>6. InodeInv'
      BY <1>1, <1>3, <1>6 DEF InodeInv, HasInum
    <2>7. Filled' = Filled
      BY <1>1, <1>4, <2>4, <2>6, FilledIsNext
    <2>8. NewBlocks' = {n}
      BY <1>3, <1>6 DEF NewBlocks, Inode
    <2>9. ParentInv'
      BY <1>1, <1>3, <1>6 DEF ParentInv, Inode
    <2>10. BeforeInv'
      BY <1>1, <1>6, <2>1, <2>8 DEF BeforeInv, HasInum
    <2>11. n \notin Reserved \cup data \cup {inodes[i].data_direct : i \in Filled}
      BY <1>3, <2>1 DEF TypeInv, EntryBlocksApart
    <2>12. EntryBlocksApart'
      BY <1>1, <1>3, <2>1, <2>7, <2>8, <2>11 DEF EntryBlocksApart
    <2>13. EntriesInv'
      BY <1>1, <1>6, <2>3, NoEntriesType DEF EntriesInv
    <2>14. NamesAreLinks'
      BY <1>1, <1>3, <2>7, NamesKept
    <2> QED BY <2>4, <2>5, <2>6, <2>9, <2>10, <2>12, <2>13, <2>14 DEF IInv
  <1> QED BY <1>2, <1>5, <1>6

-----------------------------------------------------------------------------
(* The steps of a call.                                                    *)

LEMMA AllocInodeInv == ASSUME IInv, AllocInode PROVE IInv'
  <1>1. PICK i \in Inums : /\ i \notin inode_map /\ inode_map' = inode_map \cup {i}
                           /\ call' = [call EXCEPT !.pc = "inode", !.inum = i]
    BY DEF AllocInode, block_store_sub_allocate, IsFirstFree
  <1>2. /\ call.pc = "verify" /\ MayCreate
        /\ UNCHANGED <<fbm, inodes, dents, data>>
    BY DEF AllocInode, At
  <1>3. /\ TypeInv /\ CallInv /\ InodeInv /\ ParentInv /\ BeforeInv
        /\ EntryBlocksApart /\ EntriesInv /\ NamesAreLinks
    BY DEF IInv
  <1>4. /\ call'.pc = "inode" /\ call'.inum = i
        /\ call'.path = call.path /\ call'.parent = call.parent
        /\ call'.node = call.node /\ call'.entries = call.entries
        /\ call'.is_new = call.is_new /\ call'.before = call.before
    BY <1>1, <1>3 DEF CallInv
  <1>5. Filled = {j \in inode_map : inodes[j].file_type = "d" /\ inodes[j].file_size > 0}
    BY <1>3, FilledIs
  <1>6. TypeInv'
    BY <1>1, <1>2, <1>3 DEF TypeInv
  <1>7. CallInv'
    BY <1>1, <1>3, <1>4 DEF CallInv, PCs
  <1>8. InodeInv'
    BY <1>1, <1>2, <1>3, <1>4 DEF InodeInv, ParentInv, TypeInv
  <1>9. inodes[i].file_size = 0
    BY <1>1, <1>3 DEF InodeInv
  <1>10. Filled' = Filled
    BY <1>1, <1>2, <1>5, <1>6, <1>8, <1>9, FilledIsNext
  <1>11. NewBlocks' = NewBlocks
    BY <1>4 DEF NewBlocks
  <1>12. ParentInv'
    BY <1>1, <1>2, <1>3, <1>4 DEF ParentInv
  <1>13. BeforeInv'
    BY <1>1, <1>2, <1>3, <1>4, <1>11 DEF BeforeInv, HasInum
  <1>14. EntryBlocksApart'
    BY <1>2, <1>3, <1>10, <1>11 DEF EntryBlocksApart
  <1>15. /\ NamesAreLinks' /\ Named' = Named
         /\ \A at \in Named : EntryAt(at)' = EntryAt(at)
    BY <1>1, <1>2, <1>3, <1>10, NamesKept
  <1>16. \A at \in Named : EntryAt(at).inum # i
    BY <1>1, <1>3 DEF NamesAreLinks
  <1>17. ASSUME _basename(call.path) # NoName
         PROVE  \A s \in Slots : call.entries[s].filename # _basename(call.path)
    <2>1. ASSUME NEW s \in Slots, call.entries[s].filename = _basename(call.path)
          PROVE  call.entries[s].inum \in Inums
      <3>1. CASE call.is_new
        BY <1>2, <1>3, <1>17, <2>1, <3>1, Shape DEF EntriesInv
      <3>2. CASE ~call.is_new
        <4>1. /\ call.entries = dents[call.node.data_direct]
              /\ call.node.data_direct = inodes[call.parent].data_direct
              /\ call.parent \in inode_map /\ inodes[call.parent].file_type = "d"
              /\ inodes[call.parent].file_size # 0
          BY <1>2, <1>3, <3>2 DEF EntriesInv, ParentInv
        <4>2. call.parent \in Filled
          BY <1>3, <1>5, <4>1 DEF TypeInv, Inode
        <4>3. <<call.parent, s>> \in Named
          BY <1>17, <2>1, <4>1, <4>2 DEF Named, EntryAt
        <4>4. EntryAt(<<call.parent, s>>) = call.entries[s]
          BY <4>1 DEF EntryAt
        <4> QED BY <1>3, <4>3, <4>4 DEF NamesAreLinks, TypeInv
      <3> QED BY <3>1, <3>2
    <2>2. _inode_find_child(call.entries, _basename(call.path)) = NONE
      BY <1>2 DEF MayCreate
    <2> QED BY <2>1, <2>2, NotFound, Shape
  <1>18. EntriesInv'
    BY <1>2, <1>3, <1>4, <1>15, <1>16, <1>17 DEF EntriesInv
  <1> QED BY <1>6, <1>7, <1>8, <1>12, <1>13, <1>14, <1>15, <1>18 DEF IInv

\* From a check that failed, or from a directory that was full, to FreeBlock.
LEMMA ToFreeBlock ==
    ASSUME IInv, call.pc \in {"verify", "free inode"}, call.is_new,
           call' = [call EXCEPT !.pc = "free block"],
           UNCHANGED <<fbm, inodes, dents, data>>,
           NEW gone, gone = IF HasInum THEN {call.inum} ELSE {},
           inode_map' = inode_map \ gone
    PROVE  IInv'
  <1>1. /\ TypeInv /\ CallInv /\ InodeInv /\ ParentInv /\ BeforeInv
        /\ EntryBlocksApart /\ EntriesInv /\ NamesAreLinks
    BY DEF IInv
  <1>2. /\ call'.pc = "free block" /\ call'.parent = call.parent
        /\ call'.node = call.node /\ call'.is_new = call.is_new
        /\ call'.before = call.before
    BY <1>1 DEF CallInv
  <1>3. \A i \in gone : i # Root /\ i # call.parent /\ inodes[i].file_size = 0
    BY <1>1 DEF InodeInv
  <1>4. \A i \in inode_map \ inode_map' : inodes[i].file_size = 0
    BY <1>3
  <1>5. TypeInv'
    BY <1>1, <1>3 DEF TypeInv
  <1>6. CallInv'
    BY <1>1, <1>2 DEF CallInv, PCs
  <1>7. InodeInv'
    BY <1>1, <1>2, <1>3 DEF InodeInv, HasInum
  <1>8. Filled' = Filled
    BY <1>1, <1>4, <1>5, <1>7, FilledKept
  <1>9. NewBlocks' = NewBlocks
    BY <1>2 DEF NewBlocks
  <1>10. ParentInv'
    <2>1. call.parent \in inode_map /\ call.parent \in inode_map'
      BY <1>1, <1>3 DEF ParentInv
    <2>2. /\ inodes'[call.parent] = inodes[call.parent]
          /\ call'.is_new = TRUE /\ call.is_new = TRUE
      BY <1>1, <1>2 DEF CallInv
    <2> QED BY <1>1, <1>2, <2>1, <2>2 DEF ParentInv
  <1>11. BeforeInv'
    BY <1>1, <1>2, <1>9 DEF BeforeInv, HasInum
  <1>12. EntryBlocksApart'
    BY <1>1, <1>8, <1>9, ApartKept
  <1>13. EntriesInv'
    BY <1>2 DEF EntriesInv
  <1>14. \A at \in Named : EntryAt(at).inum \notin gone
    BY <1>1 DEF EntriesInv, HasInum
  <1>15. NamesAreLinks'
    BY <1>1, <1>8, <1>14, NamesKept
  <1> QED BY <1>5, <1>6, <1>7, <1>10, <1>11, <1>12, <1>13, <1>15 DEF IInv

\* The same, when there is no block to free and the call returns.
LEMMA Returns ==
    ASSUME IInv, call.pc \in {"verify", "free inode"}, call' = Idle,
           UNCHANGED <<fbm, inodes, dents, data>>,
           NEW gone, gone = IF HasInum THEN {call.inum} ELSE {},
           inode_map' = inode_map \ gone
    PROVE  IInv'
  <1>1. /\ TypeInv /\ InodeInv /\ EntryBlocksApart /\ EntriesInv /\ NamesAreLinks
    BY DEF IInv
  <1>2. call'.pc = "idle" /\ NewBlocks' = {}
    BY DEF Idle, NewBlocks
  <1>3. \A i \in gone : i # Root /\ inodes[i].file_size = 0
    BY <1>1 DEF InodeInv
  <1>4. \A i \in inode_map \ inode_map' : inodes[i].file_size = 0
    BY <1>3
  <1>5. TypeInv'
    BY <1>1, <1>3 DEF TypeInv
  <1>6. CallInv'
    BY NewInodeType, NoEntriesType DEF CallInv, Idle, PCs, Types
  <1>7. InodeInv'
    BY <1>1, <1>2, <1>3 DEF InodeInv, HasInum
  <1>8. Filled' = Filled
    BY <1>1, <1>4, <1>5, <1>7, FilledKept
  <1>9. ParentInv' /\ BeforeInv' /\ EntriesInv'
    BY <1>2 DEF ParentInv, BeforeInv, EntriesInv
  <1>10. EntryBlocksApart'
    BY <1>1, <1>2, <1>8 DEF EntryBlocksApart
  <1>11. \A at \in Named : EntryAt(at).inum \notin gone
    BY <1>1 DEF EntriesInv, HasInum
  <1>12. NamesAreLinks'
    BY <1>1, <1>8, <1>11, NamesKept
  <1> QED BY <1>5, <1>6, <1>7, <1>9, <1>10, <1>12 DEF IInv

LEMMA VerifiedFailsInv == ASSUME IInv, Verified_fails PROVE IInv'
  <1>1. /\ call.pc = "verify" /\ ~HasInum
        /\ UNCHANGED <<fbm, inode_map, inodes, dents, data>>
    BY DEF Verified_fails, At, device, HasInum
  <1>2. CASE call.is_new
    <2>1. call' = [call EXCEPT !.pc = "free block"]
      BY <1>2 DEF Verified_fails
    <2> QED BY <1>1, <1>2, <2>1, ToFreeBlock
  <1>3. CASE ~call.is_new
    BY <1>1, <1>3, Returns DEF Verified_fails, Return
  <1> QED BY <1>2, <1>3

LEMMA FreeInodeInv == ASSUME IInv, FreeInode PROVE IInv'
  <1>1. /\ call.pc = "free inode" /\ HasInum
        /\ inode_map' = inode_map \ {call.inum}
        /\ UNCHANGED <<fbm, inodes, dents, data>>
    BY DEF FreeInode, At, HasInum, block_store_sub_release
  <1>2. CASE call.is_new
    BY <1>1, <1>2, ToFreeBlock DEF FreeInode
  <1>3. CASE ~call.is_new
    BY <1>1, <1>3, Returns DEF FreeInode, Return
  <1> QED BY <1>2, <1>3

LEMMA FreeBlockInv == ASSUME IInv, FreeBlock PROVE IInv'
  <1>1. /\ call.pc = "free block" /\ call' = Idle
        /\ fbm' = fbm \ {call.node.data_direct}
        /\ UNCHANGED <<inode_map, inodes, dents, data>>
    BY DEF FreeBlock, At, Return, block_store_release
  <1>2. /\ TypeInv /\ InodeInv /\ ParentInv /\ EntryBlocksApart /\ NamesAreLinks
    BY DEF IInv
  <1>3. call'.pc = "idle" /\ NewBlocks' = {}
    BY <1>1 DEF Idle, NewBlocks
  <1>4. call.node.data_direct \notin
          Reserved \cup data \cup {inodes[i].data_direct : i \in Filled}
    BY <1>1, <1>2 DEF ParentInv, EntryBlocksApart, NewBlocks
  <1>5. TypeInv'
    BY <1>1, <1>2, <1>4 DEF TypeInv
  <1>6. CallInv'
    BY <1>1, NewInodeType, NoEntriesType DEF CallInv, Idle, PCs, Types
  <1>7. InodeInv'
    BY <1>1, <1>2, <1>3 DEF InodeInv, HasInum
  <1>8. Filled' = Filled
    BY <1>1, <1>2, <1>5, <1>7, FilledIs, FilledIsNext
  <1>9. ParentInv' /\ BeforeInv' /\ EntriesInv'
    BY <1>3 DEF ParentInv, BeforeInv, EntriesInv
  <1>10. EntryBlocksApart'
    BY <1>1, <1>2, <1>3, <1>4, <1>8 DEF EntryBlocksApart
  <1>11. NamesAreLinks'
    BY <1>1, <1>2, <1>8, NamesKept
  <1> QED BY <1>5, <1>6, <1>7, <1>9, <1>10, <1>11 DEF IInv

\* The new inode is stored, and the entry is put in the local copies.
LEMMA WriteInodeInv == ASSUME IInv, WriteInode PROVE IInv'
  <1> DEFINE name == _basename(call.path)
             entry == [filename |-> name, inum |-> call.inum]
             pd == inodes[call.parent].data_direct
  <1>1. /\ TypeInv /\ CallInv /\ InodeInv /\ ParentInv /\ BeforeInv
        /\ EntryBlocksApart /\ EntriesInv /\ NamesAreLinks
    BY DEF IInv
  <1>2. /\ call.pc = "inode" /\ HasInum
        /\ inodes' = [inodes EXCEPT ![call.inum] = NewInode(call.type)]
        /\ UNCHANGED <<fbm, inode_map, dents, data>>
    BY DEF WriteInode, At, HasInum, block_store_inode_write
  <1>3. /\ call.inum \in inode_map \ {Root, call.parent} /\ call.inum \in Inums
        /\ inodes[call.inum].file_size = 0
        /\ call.parent \in inode_map /\ call.parent \in Inums
    BY <1>1, <1>2 DEF InodeInv, ParentInv, TypeInv
  <1>4. /\ NewInode(call.type) \in Inode /\ NewInode(call.type).file_size = 0
        /\ NewInode(call.type).dir_entry_map = {}
        /\ NewInode(call.type).data_direct = 0
    BY <1>1, NewInodeType DEF CallInv
  <1>5. /\ inodes'[call.inum] = NewInode(call.type)
        /\ \A i \in Inums \ {call.inum} : inodes'[i] = inodes[i]
    BY <1>1, <1>2, <1>3 DEF TypeInv
  <1>6. TypeInv'
    BY <1>1, <1>2, <1>4 DEF TypeInv
  <1>7. \A i \in Inums : inodes'[i].file_size = 0 =>
          inodes'[i].dir_entry_map = {} /\ inodes'[i].data_direct = 0
    BY <1>1, <1>4, <1>5 DEF InodeInv
  <1>8. \A i \in Inums \ inode_map' : inodes'[i].file_size = 0
    BY <1>1, <1>2, <1>4, <1>5 DEF InodeInv
  <1>9. Filled = {j \in inode_map : inodes[j].file_type = "d" /\ inodes[j].file_size > 0}
    BY <1>1, FilledIs
  <1>10. ASSUME InodeInv' PROVE /\ Filled' = Filled
                                /\ \A i \in Filled : inodes'[i] = inodes[i]
    <2>1. ASSUME NEW i \in inode_map
          PROVE  inodes'[i].file_type = "d" /\ inodes'[i].file_size > 0
                   <=> inodes[i].file_type = "d" /\ inodes[i].file_size > 0
      BY <1>1, <1>3, <1>4, <1>5 DEF TypeInv
    <2>2. Filled' = Filled
      BY <1>2, <1>6, <1>9, <1>10, <2>1, FilledIsNext
    <2> QED BY <1>1, <1>3, <1>5, <1>9, <2>2 DEF TypeInv
  <1>11. CASE /\ FreeSlots = {}
              /\ call' = [call EXCEPT !.pc = "free inode"]
    <2>1. /\ call'.pc = "free inode" /\ call'.inum = call.inum
          /\ call'.parent = call.parent /\ call'.node = call.node
          /\ call'.is_new = call.is_new /\ call'.before = call.before
      BY <1>1, <1>11 DEF CallInv
    <2>2. CallInv'
      BY <1>1, <1>11, <2>1 DEF CallInv, PCs
    <2>3. InodeInv'
      BY <1>2, <1>3, <1>4, <1>5, <1>7, <1>8, <2>1 DEF InodeInv
    <2>4. Filled' = Filled /\ \A i \in Filled : inodes'[i] = inodes[i]
      BY <1>10, <2>3
    <2>5. NewBlocks' = NewBlocks
      BY <2>1 DEF NewBlocks
    <2>6. ParentInv'
      BY <1>1, <1>2, <1>3, <1>5, <2>1, ZenonT(60) DEF ParentInv
    <2>7. BeforeInv'
      BY <1>1, <1>2, <2>1, <2>5, ZenonT(60) DEF BeforeInv, HasInum
    <2>8. EntryBlocksApart'
      BY <1>1, <1>2, <2>4, <2>5, ApartKept
    <2>9. /\ NamesAreLinks' /\ Named' = Named
          /\ \A at \in Named : EntryAt(at)' = EntryAt(at)
      BY <1>1, <1>2, <2>4, NamesKept
    <2>10. EntriesInv'
      BY <1>1, <1>2, <2>1, <2>9 DEF EntriesInv
    <2> QED BY <1>6, <2>2, <2>3, <2>6, <2>7, <2>8, <2>9, <2>10 DEF IInv
  <1>12. ASSUME NEW s \in MapSlots, EntrySlot(s),
                call' = [call EXCEPT !.pc = "entries",
                           !.node.dir_entry_map = @ \cup {s},
                           !.node.file_size = @ + 1,
                           !.entries[s] = entry]
         PROVE  IInv'
    <2> DEFINE E == call'.entries
    <2>1. /\ call'.pc = "entries" /\ call'.inum = call.inum
          /\ call'.parent = call.parent /\ call'.type = call.type
          /\ call'.is_new = call.is_new /\ call'.before = call.before
          /\ call'.node = [call.node EXCEPT !.dir_entry_map = @ \cup {s}, !.file_size = @ + 1]
          /\ call'.entries = [call.entries EXCEPT ![s] = entry]
      BY <1>1, <1>12 DEF CallInv, Inode
    <2>2. /\ call'.node \in Inode /\ call'.node.file_size > 0
          /\ call'.node.data_direct = call.node.data_direct
          /\ call'.node.file_type = call.node.file_type
          /\ call'.node.dir_entry_map = call.node.dir_entry_map \cup {s}
      <3> DEFINE map  == call.node.dir_entry_map \cup {s}
                 size == call.node.file_size + 1
      <3>1. call.node \in Inode
        BY <1>1 DEF CallInv
      <3>2. map \in SUBSET MapSlots /\ size \in Nat /\ size > 0
        BY <3>1, <1>12 DEF Inode
      <3>3. call'.node = [call.node EXCEPT !.dir_entry_map = map, !.file_size = size]
        BY <2>1
      <3> HIDE DEF map, size
      <3>4. /\ call'.node \in Inode /\ call'.node.file_size = size
            /\ call'.node.data_direct = call.node.data_direct
            /\ call'.node.file_type = call.node.file_type
            /\ call'.node.dir_entry_map = map
        BY <3>1, <3>2, <3>3 DEF Inode
      <3> QED BY <3>2, <3>4 DEF map
    <2>3. /\ s \in Slots /\ s \notin call.node.dir_entry_map
          /\ \A t \in MapSlots \ call.node.dir_entry_map : s <= t
      BY <1>12, Shape DEF EntrySlot, IsFirstFree
    <2>4. /\ E[s] = entry /\ IsEntries(E)
          /\ \A t \in Slots \ {s} : E[t] = call.entries[t]
      BY <1>1, <2>1, <2>3 DEF CallInv, IsEntries
    <2>5. CallInv'
      BY <1>1, <1>12, <2>1, <2>2, <2>4 DEF CallInv, PCs
    <2>6. InodeInv'
      BY <1>2, <1>3, <1>4, <1>5, <1>7, <1>8, <2>1 DEF InodeInv
    <2>7. Filled' = Filled /\ \A i \in Filled : inodes'[i] = inodes[i]
      BY <1>10, <2>6
    <2>8. NewBlocks' = NewBlocks
      BY <2>1, <2>2 DEF NewBlocks
    <2>9. ParentInv'
      BY <1>1, <1>2, <1>3, <1>5, <2>1, <2>2 DEF ParentInv
    <2>10. BeforeInv'
      BY <1>1, <1>2, <2>1, <2>8 DEF BeforeInv, HasInum
    <2>11. EntryBlocksApart'
      BY <1>1, <1>2, <2>7, <2>8, ApartKept
    <2>12. /\ NamesAreLinks' /\ Named' = Named
           /\ \A at \in Named : EntryAt(at)' = EntryAt(at)
      BY <1>1, <1>2, <2>7, NamesKept
    <2>13. \A at \in Named : EntryAt(at).inum # call.inum
      BY <1>1, <1>2 DEF EntriesInv
    \* The slots that the new entry shares the block with.
    <2>14. ASSUME NEW t \in Slots \ {s}, E[t].filename # NoName
           PROVE  /\ ~call.is_new /\ <<call.parent, t>> \in Named
                  /\ E[t] = EntryAt(<<call.parent, t>>)
      <3>1. ~call.is_new
        <4>1. SUFFICES ASSUME call.is_new PROVE FALSE
          OBVIOUS
        <4>2. call.node.dir_entry_map = {}
          BY <1>1, <1>2, <1>3, <4>1 DEF ParentInv, InodeInv
        <4>3. s = 0
          BY <2>3, <4>2, <1>12, Shape
        <4>4. call.entries[t].filename = NoName
          BY <1>1, <1>2, <2>14, <4>1, <4>3 DEF EntriesInv
        <4> QED BY <2>4, <2>14, <4>4
      <3>2. call.entries = dents[pd] /\ inodes[call.parent].file_size # 0
            /\ inodes[call.parent].file_type = "d"
        BY <1>1, <1>2, <3>1 DEF EntriesInv, ParentInv
      <3>3. call.parent \in Filled
        BY <1>1, <1>3, <1>9, <3>2 DEF TypeInv, Inode
      <3>4. E[t] = dents[pd][t]
        BY <2>4, <3>2
      <3> QED BY <2>14, <3>1, <3>3, <3>4 DEF Named, EntryAt
    <2>15. ~call.is_new => call.entries = dents[call.node.data_direct]
      BY <1>1, <1>2 DEF EntriesInv
    <2>16. GoodEntries(call.entries)'
      <3>1. SUFFICES ASSUME NEW t \in Slots, E[t].filename # NoName
            PROVE /\ E[t].inum \in inode_map \ {Root}
                  /\ \A u \in Slots :
                       /\ E[u].filename # NoName
                       /\ E[t].inum = E[u].inum \/ E[t].filename = E[u].filename
                       => t = u
                  /\ \A at \in Named : at[1] # call.parent => EntryAt(at).inum # E[t].inum
        BY <1>2, <2>1, <2>12 DEF GoodEntries
      <3>2. CASE t = s
        <4>1. E[t].inum = call.inum /\ E[t].filename = name /\ name # NoName
          BY <2>4, <3>1, <3>2
        <4>2. ASSUME NEW u \in Slots, u # s, E[u].filename # NoName
              PROVE  E[u].inum # call.inum /\ E[u].filename # name
          <5>1. E[u].inum # call.inum
            BY <2>13, <2>14, <4>2
          <5>2. E[u] = call.entries[u]
            BY <2>4, <4>2
          <5>3. call.entries[u].filename # name
            BY <1>1, <1>2, <4>1 DEF EntriesInv
          <5> QED BY <5>1, <5>2, <5>3
        <4> QED BY <1>3, <2>13, <3>2, <4>1, <4>2
      <3>3. CASE t # s
        <4>1. <<call.parent, t>> \in Named /\ E[t] = EntryAt(<<call.parent, t>>)
          BY <2>14, <3>1, <3>3
        <4>2. E[t].inum \in inode_map \ {Root}
          BY <1>1, <4>1 DEF NamesAreLinks
        <4>3. ASSUME NEW u \in Slots, E[u].filename # NoName,
                     E[t].inum = E[u].inum \/ E[t].filename = E[u].filename
              PROVE  t = u
          <5>1. CASE u = s
            <6>1. E[u].inum = call.inum /\ E[u].filename = name /\ name # NoName
              BY <2>4, <4>3, <5>1
            <6>2. E[t].inum # call.inum
              BY <2>13, <4>1
            <6>3. E[t] = call.entries[t]
              BY <2>4, <3>1, <3>3
            <6>4. call.entries[t].filename # name
              BY <1>1, <1>2, <6>1 DEF EntriesInv
            <6> QED BY <4>3, <6>1, <6>2, <6>3, <6>4
          <5>2. CASE u # s
            <6>1. <<call.parent, u>> \in Named /\ E[u] = EntryAt(<<call.parent, u>>)
              BY <2>14, <4>3, <5>2
            <6>2. <<call.parent, t>> = <<call.parent, u>>
              BY <1>1, <4>1, <4>3, <6>1 DEF NamesAreLinks
            <6> QED BY <6>2
          <5> QED BY <5>1, <5>2
        <4>4. ASSUME NEW at \in Named, at[1] # call.parent, EntryAt(at).inum = E[t].inum
              PROVE  FALSE
          <5>1. at = <<call.parent, t>>
            BY <1>1, <4>1, <4>4 DEF NamesAreLinks
          <5> QED BY <4>4, <5>1
        <4> QED BY <4>2, <4>3, <4>4
      <3> QED BY <3>2, <3>3
    <2>17. ~call'.is_new =>
             \A t \in inodes'[call'.parent].dir_entry_map :
               call'.entries[t] = dents'[call'.node.data_direct][t]
      <3>1. inodes'[call'.parent] = inodes[call.parent]
        BY <1>3, <1>5, <2>1
      <3>2. inodes[call.parent].dir_entry_map = call.node.dir_entry_map
        BY <1>1, <1>2 DEF ParentInv
      <3>3. inodes[call.parent].dir_entry_map \subseteq Slots
        BY <1>1, <1>3, Shape DEF TypeInv, Inode
      <3> QED BY <1>2, <2>1, <2>2, <2>3, <2>4, <2>15, <3>1, <3>2, <3>3
    <2>18. EntriesInv'
      BY <2>1, <2>16, <2>17 DEF EntriesInv
    <2> QED BY <1>6, <2>5, <2>6, <2>9, <2>10, <2>11, <2>12, <2>18 DEF IInv
  <1> QED BY <1>11, <1>12 DEF WriteInode

\* The names after the entries of one directory became E.
LEMMA NamesFromGood ==
    ASSUME NamesAreLinks, NEW E, GoodEntries(E), inode_map' = inode_map,
           \A at \in Named' : /\ at \in Filled' \X Slots
                              /\ at[1] # call.parent => at \in Named /\ EntryAt(at)' = EntryAt(at)
                              /\ at[1] = call.parent => EntryAt(at)' = E[at[2]]
    PROVE  NamesAreLinks'
  <1>1. ASSUME NEW at \in Named', at[1] = call.parent
        PROVE  /\ at[2] \in Slots /\ EntryAt(at)' = E[at[2]] /\ at = <<at[1], at[2]>>
               /\ E[at[2]].filename # NoName
    <2>1. EntryAt(at)'.filename # NoName
      BY DEF Named
    <2> QED BY <1>1, <2>1
  <1>2. ASSUME NEW at \in Named' PROVE EntryAt(at)'.inum \in inode_map' \ {Root}
    <2>1. CASE at[1] = call.parent
      BY <1>1, <2>1 DEF GoodEntries
    <2>2. CASE at[1] # call.parent
      BY <2>2 DEF NamesAreLinks
    <2> QED BY <2>1, <2>2
  <1>3. ASSUME NEW at \in Named', NEW to \in Named',
               EntryAt(at)'.inum = EntryAt(to)'.inum
        PROVE  at = to
    <2>1. CASE at[1] = call.parent /\ to[1] = call.parent
      <3>1. at[2] = to[2]
        BY <1>1, <1>3, <2>1 DEF GoodEntries
      <3> QED BY <1>1, <2>1, <3>1
    <2>2. CASE at[1] = call.parent /\ to[1] # call.parent
      BY <1>1, <1>3, <2>2 DEF GoodEntries
    <2>3. CASE at[1] # call.parent /\ to[1] = call.parent
      BY <1>1, <1>3, <2>3 DEF GoodEntries
    <2>4. CASE at[1] # call.parent /\ to[1] # call.parent
      BY <1>3, <2>4 DEF NamesAreLinks
    <2> QED BY <2>1, <2>2, <2>3, <2>4
  <1>4. ASSUME NEW at \in Named', NEW to \in Named', at[1] = to[1],
               EntryAt(at)'.filename = EntryAt(to)'.filename
        PROVE  at = to
    <2>1. CASE at[1] = call.parent
      <3>1. at[2] = to[2]
        BY <1>1, <1>4, <2>1, ZenonT(60) DEF GoodEntries
      <3> QED BY <1>1, <1>4, <2>1, <3>1
    <2>2. CASE at[1] # call.parent
      BY <1>4, <2>2 DEF NamesAreLinks
    <2> QED BY <2>1, <2>2
  <1> QED BY <1>2, <1>3, <1>4 DEF NamesAreLinks

LEMMA WriteEntriesInv == ASSUME IInv, WriteEntries PROVE IInv'
  <1> DEFINE pd == call.node.data_direct
  <1>1. /\ TypeInv /\ CallInv /\ InodeInv /\ ParentInv /\ BeforeInv
        /\ EntryBlocksApart /\ EntriesInv /\ NamesAreLinks
    BY DEF IInv
  <1>2. /\ call.pc = "entries" /\ HasInum
        /\ dents' = [dents EXCEPT ![pd] = call.entries]
        /\ call' = [call EXCEPT !.pc = "parent"]
        /\ UNCHANGED <<fbm, inode_map, inodes, data>>
    BY DEF WriteEntries, At, HasInum
  <1>3. /\ call'.pc = "parent" /\ call'.inum = call.inum
        /\ call'.parent = call.parent /\ call'.node = call.node
        /\ call'.is_new = call.is_new /\ call'.before = call.before
        /\ call'.entries = call.entries
    BY <1>1, <1>2 DEF CallInv
  <1>4. pd \in Blocks
    BY <1>1 DEF CallInv, Inode
  <1>5. /\ dents'[pd] = call.entries
        /\ \A n \in Blocks \ {pd} : dents'[n] = dents[n]
    BY <1>1, <1>2, <1>4 DEF TypeInv
  <1>6. TypeInv'
    <2>1. \A n \in Blocks : IsEntries(dents'[n])
      BY <1>1, <1>5 DEF TypeInv, CallInv
    <2> QED BY <1>1, <1>2, <2>1 DEF TypeInv, IsEntries
  <1>7. CallInv'
    BY <1>1, <1>2, <1>3 DEF CallInv, PCs
  <1>8. InodeInv'
    BY <1>1, <1>2, <1>3 DEF InodeInv, HasInum
  <1>9. Filled' = Filled
    BY <1>1, <1>2, <1>6, <1>8, FilledKept
  <1>10. NewBlocks' = NewBlocks
    BY <1>3 DEF NewBlocks
  <1>11. ParentInv'
    BY <1>1, <1>2, <1>3 DEF ParentInv
  <1>12. BeforeInv'
    BY <1>1, <1>2, <1>3, <1>10 DEF BeforeInv, HasInum
  <1>13. EntryBlocksApart'
    BY <1>1, <1>2, <1>9, <1>10, ApartKept
  <1>14. \A i \in Filled : i \in Inums /\ inodes[i].data_direct \in Blocks
    BY <1>1, FilledIs DEF TypeInv, Inode
  <1>15. \A i \in Filled : i # call.parent => inodes[i].data_direct # pd
    <2>1. CASE call.is_new
      BY <1>1, <2>1 DEF EntryBlocksApart, NewBlocks
    <2>2. CASE ~call.is_new
      <3>1. /\ pd = inodes[call.parent].data_direct
            /\ call.parent \in inode_map /\ inodes[call.parent].file_type = "d"
            /\ inodes[call.parent].file_size # 0
        BY <1>1, <1>2, <2>2 DEF ParentInv
      <3>2. call.parent \in Filled
        BY <1>1, <3>1, FilledIs DEF TypeInv, Inode
      <3> QED BY <1>1, <3>1, <3>2 DEF EntryBlocksApart
    <2> QED BY <2>1, <2>2
  <1>16. call.parent \in Filled => inodes[call.parent].data_direct = pd
    BY <1>1, <1>2, FilledIs DEF ParentInv
  <1>17. ASSUME NEW at \in Filled \X Slots
         PROVE  /\ at[1] # call.parent => EntryAt(at)' = EntryAt(at)
                /\ at[1] = call.parent => EntryAt(at)' = call.entries[at[2]]
    BY <1>2, <1>5, <1>14, <1>15, <1>16 DEF EntryAt
  <1>18. \A at \in Named' : /\ at \in Filled' \X Slots
                            /\ at[1] # call.parent => at \in Named /\ EntryAt(at)' = EntryAt(at)
                            /\ at[1] = call.parent => EntryAt(at)' = call.entries[at[2]]
    BY <1>9, <1>17 DEF Named
  <1>19. GoodEntries(call.entries)
    BY <1>1, <1>2 DEF EntriesInv
  <1>20. NamesAreLinks'
    BY <1>1, <1>2, <1>18, <1>19, NamesFromGood
  <1>21. GoodEntries(call.entries)'
    <2>1. \A at \in Named' : at[1] # call.parent =>
            at \in Named /\ EntryAt(at)' = EntryAt(at)
      BY <1>18
    <2> QED BY <1>2, <1>3, <1>19, <2>1 DEF GoodEntries
  <1>22. EntriesInv'
    BY <1>2, <1>3, <1>5, <1>21 DEF EntriesInv
  <1> QED BY <1>6, <1>7, <1>8, <1>11, <1>12, <1>13, <1>20, <1>22 DEF IInv

LEMMA WriteParentInv == ASSUME IInv, WriteParent PROVE IInv'
  <1> DEFINE pd == call.node.data_direct
  <1>1. /\ TypeInv /\ CallInv /\ InodeInv /\ ParentInv /\ BeforeInv
        /\ EntryBlocksApart /\ EntriesInv /\ NamesAreLinks
    BY DEF IInv
  <1>2. /\ call.pc = "parent" /\ HasInum
        /\ inodes' = [inodes EXCEPT ![call.parent] = call.node]
        /\ call' = Idle
        /\ UNCHANGED <<fbm, inode_map, dents, data>>
    BY DEF WriteParent, At, HasInum, Return, block_store_inode_write
  <1>3. /\ call.parent \in inode_map /\ call.parent \in Inums
        /\ call.node \in Inode /\ call.node.file_size > 0
        /\ call.node.file_type = "d"
    BY <1>1, <1>2 DEF ParentInv, TypeInv, CallInv
  <1>4. /\ inodes'[call.parent] = call.node
        /\ \A i \in Inums \ {call.parent} : inodes'[i] = inodes[i]
    BY <1>1, <1>2, <1>3 DEF TypeInv
  <1>5. call'.pc = "idle" /\ NewBlocks' = {}
    BY <1>2 DEF Idle, NewBlocks
  <1>6. TypeInv'
    BY <1>1, <1>2, <1>3 DEF TypeInv
  <1>7. CallInv'
    BY <1>2, NewInodeType, NoEntriesType DEF CallInv, Idle, PCs, Types
  <1>8. InodeInv'
    BY <1>1, <1>2, <1>3, <1>4, <1>5 DEF InodeInv, HasInum, TypeInv
  <1>9. Filled' = Filled \cup {call.parent}
    <2>1. ASSUME NEW i \in inode_map, i # call.parent
          PROVE  inodes'[i] = inodes[i]
      BY <1>1, <1>4, <2>1 DEF TypeInv
    <2> QED BY <1>1, <1>2, <1>3, <1>4, <1>6, <1>8, <2>1, FilledIs, FilledIsNext
  <1>10. \A i \in Filled' : i # call.parent => i \in Filled /\ inodes'[i] = inodes[i]
    BY <1>1, <1>4, <1>9, FilledIs DEF TypeInv
  <1>11. ParentInv' /\ BeforeInv' /\ EntriesInv'
    BY <1>5 DEF ParentInv, BeforeInv, EntriesInv
  \* The parent's block is the one it had, or the new one.
  <1>12. /\ pd \in fbm \ (Reserved \cup data)
         /\ \A i \in Filled : i # call.parent => inodes[i].data_direct # pd
    <2>1. CASE call.is_new
      BY <1>1, <2>1 DEF EntryBlocksApart, NewBlocks
    <2>2. CASE ~call.is_new
      <3>1. /\ pd = inodes[call.parent].data_direct
            /\ inodes[call.parent].file_type = "d" /\ inodes[call.parent].file_size # 0
        BY <1>1, <1>2, <2>2 DEF ParentInv
      <3>2. call.parent \in Filled
        BY <1>1, <1>3, <3>1, FilledIs DEF TypeInv, Inode
      <3> QED BY <1>1, <3>1, <3>2 DEF EntryBlocksApart
    <2> QED BY <2>1, <2>2
  <1>13. EntryBlocksApart'
    <2>1. \A i \in Filled' : inodes'[i].data_direct \in fbm' \ (Reserved \cup data')
      BY <1>1, <1>2, <1>4, <1>10, <1>12 DEF EntryBlocksApart
    <2>2. \A i, j \in Filled' : inodes'[i].data_direct = inodes'[j].data_direct => i = j
      BY <1>1, <1>4, <1>10, <1>12 DEF EntryBlocksApart
    <2> QED BY <1>5, <2>1, <2>2 DEF EntryBlocksApart
  <1>14. dents[pd] = call.entries /\ GoodEntries(call.entries)
    BY <1>1, <1>2 DEF EntriesInv
  <1>15. ASSUME NEW at \in Filled' \X Slots
         PROVE  /\ at[1] # call.parent => at \in Filled \X Slots /\ EntryAt(at)' = EntryAt(at)
                /\ at[1] = call.parent => EntryAt(at)' = call.entries[at[2]]
    BY <1>2, <1>4, <1>10, <1>14 DEF EntryAt
  <1>16. \A at \in Named' : /\ at \in Filled' \X Slots
                            /\ at[1] # call.parent => at \in Named /\ EntryAt(at)' = EntryAt(at)
                            /\ at[1] = call.parent => EntryAt(at)' = call.entries[at[2]]
    BY <1>15 DEF Named
  <1>17. NamesAreLinks'
    BY <1>1, <1>2, <1>14, <1>16, NamesFromGood
  <1> QED BY <1>6, <1>7, <1>8, <1>11, <1>13, <1>17 DEF IInv

-----------------------------------------------------------------------------
(* The steps between calls.                                                *)

\* What fs_write does to the map of blocks.
LEMMA FileBlockInv ==
    ASSUME IInv, file_takes_block \/ file_gives_block PROVE IInv'
  <1>1. /\ TypeInv /\ CallInv /\ InodeInv /\ EntryBlocksApart /\ NamesAreLinks
    BY DEF IInv
  <1>2. call.pc = "idle" /\ UNCHANGED <<inode_map, inodes, dents, call>>
    BY DEF file_takes_block, file_gives_block, Quiet
  <1>3. \/ \E n \in Blocks \ fbm : fbm' = fbm \cup {n} /\ data' = data \cup {n}
        \/ \E n \in data : fbm' = fbm \ {n} /\ data' = data \ {n}
    BY DEF file_takes_block, file_gives_block, block_store_allocate,
           block_store_release, IsFirstFree
  <1>4. TypeInv'
    BY <1>1, <1>2, <1>3 DEF TypeInv
  <1>5. CallInv' /\ InodeInv'
    BY <1>1, <1>2 DEF CallInv, InodeInv, HasInum
  <1>6. Filled' = Filled
    BY <1>1, <1>2, <1>4, <1>5, FilledKept
  <1>7. ParentInv' /\ BeforeInv' /\ EntriesInv'
    BY <1>2 DEF ParentInv, BeforeInv, EntriesInv
  <1>8. NewBlocks' = {}
    BY <1>1, <1>2 DEF CallInv, NewBlocks
  <1>9. \A i \in Filled : inodes[i].data_direct \in fbm' \ (Reserved \cup data')
    BY <1>1, <1>3 DEF EntryBlocksApart
  <1>10. EntryBlocksApart'
    BY <1>1, <1>2, <1>6, <1>8, <1>9 DEF EntryBlocksApart
  <1>11. NamesAreLinks'
    BY <1>1, <1>2, <1>6, NamesKept
  <1> QED BY <1>4, <1>5, <1>7, <1>10, <1>11 DEF IInv

\* A step that changes nothing the invariant speaks of.
LEMMA Stutter ==
    ASSUME IInv, UNCHANGED <<fbm, inode_map, inodes, dents, data, call>> PROVE IInv'
  <1>1. /\ TypeInv' /\ CallInv' /\ InodeInv' /\ ParentInv'
    BY DEF IInv, TypeInv, CallInv, InodeInv, HasInum, ParentInv
  <1>2. NewBlocks' = NewBlocks /\ Filled' = Filled
    BY DEF NewBlocks, Filled, Dirs
  <1>3. BeforeInv'
    BY <1>2 DEF IInv, BeforeInv, HasInum
  <1>4. EntryBlocksApart'
    BY <1>2, ApartKept DEF IInv
  <1>5. /\ NamesAreLinks' /\ Named' = Named
        /\ \A at \in Named : EntryAt(at)' = EntryAt(at)
    BY <1>2, NamesKept DEF IInv
  <1>6. \A E : GoodEntries(E) => GoodEntries(E)'
    BY <1>5 DEF GoodEntries
  <1>7. EntriesInv'
    BY <1>5, <1>6 DEF IInv, EntriesInv
  <1> QED BY <1>1, <1>3, <1>4, <1>5, <1>7 DEF IInv

LEMMA IdleCall == ASSUME call' = Idle PROVE CallInv' /\ call'.pc = "idle"
  BY NewInodeType, NoEntriesType DEF CallInv, Idle, PCs, Types

LEMMA NextInv == ASSUME IInv, Next PROVE IInv'
  <1>1. CASE CreateStep
    BY <1>1, AllocInodeInv, VerifiedFailsInv, WriteInodeInv, WriteEntriesInv,
       WriteParentInv, FreeInodeInv, FreeBlockInv DEF CreateStep
  <1>2. CASE file_takes_block \/ file_gives_block
    BY <1>2, FileBlockInv
  <1>3. CASE fs_unmount \/ fs_mount
    BY <1>3, Stutter DEF fs_unmount, fs_mount, device
  <1>4. CASE Crash
    BY <1>4, IdleCall, Rest DEF Crash, device
  <1>5. ASSUME NEW path \in Paths, NEW type \in Types, fs_create(path, type) PROVE IInv'
    BY <1>5, CreateInv
  <1>6. ASSUME NEW path \in Paths, CreateRefused(path) PROVE IInv'
    BY <1>6, IdleCall, Rest DEF CreateRefused, Return, device
  <1>7. ASSUME NEW path \in Paths, fs_get_dir(path) PROVE IInv'
    BY <1>7, Stutter DEF fs_get_dir, device
  <1> QED BY <1>1, <1>2, <1>3, <1>4, <1>5, <1>6, <1>7 DEF Next

LEMMA AlwaysIInv == Spec => []IInv
  <1>1. IInv /\ UNCHANGED vars => IInv'
    BY Stutter DEF vars
  <1> QED BY InitInv, NextInv, <1>1, PTL DEF Spec

-----------------------------------------------------------------------------
(* No two directories share a block of entries, and none has one that is   *)
(* free, reserved or a file's, whatever creates fail or die.               *)
THEOREM BlocksApart == Spec => []EntryBlocksApart
  <1>1. IInv => EntryBlocksApart
    BY DEF IInv
  <1> QED BY <1>1, AlwaysIInv, PTL

(* Names and the inodes they stand for are one to one, and a name is only  *)
(* once in a directory, whatever creates fail or die.                      *)
THEOREM NamesStayLinks == Spec => []NamesAreLinks
  <1>1. IInv => NamesAreLinks
    BY DEF IInv
  <1> QED BY <1>1, AlwaysIInv, PTL

-----------------------------------------------------------------------------
(* A create that fails gives back what it took, and nothing else.          *)
LEMMA FailsClean ==
    ASSUME IInv, [Next]_vars, call.pc # "idle", res'.val = -1,
           call'.pc = "idle", mounted'
    PROVE  <<fbm', inode_map'>> = call.before
  <1>1. call.before = <<fbm \ NewBlocks,
                        IF HasInum THEN inode_map \ {call.inum} ELSE inode_map>>
    BY DEF IInv, BeforeInv
  <1>2. CallInv /\ ParentInv
    BY DEF IInv
  <1>3. CASE Verified_fails
    <2>1. call.pc = "verify" /\ ~call.is_new /\ UNCHANGED <<fbm, inode_map>>
      BY <1>2, <1>3 DEF Verified_fails, At, device, CallInv
    <2> QED BY <1>1, <2>1 DEF NewBlocks, HasInum
  <1>4. CASE FreeInode
    <2>1. /\ call.pc = "free inode" /\ ~call.is_new
          /\ fbm' = fbm /\ inode_map' = inode_map \ {call.inum}
      BY <1>2, <1>4 DEF FreeInode, At, block_store_sub_release, CallInv
    <2> QED BY <1>1, <2>1 DEF NewBlocks, HasInum
  <1>5. CASE FreeBlock
    <2>1. /\ call.pc = "free block" /\ call.is_new
          /\ fbm' = fbm \ {call.node.data_direct} /\ inode_map' = inode_map
      BY <1>2, <1>5 DEF FreeBlock, At, block_store_release, ParentInv
    <2> QED BY <1>1, <2>1 DEF NewBlocks, HasInum
  <1>6. CASE AllocInode \/ WriteInode
    BY <1>2, <1>6 DEF AllocInode, WriteInode, CallInv
  <1>7. CASE WriteEntries
    BY <1>2, <1>7 DEF WriteEntries, CallInv
  <1>8. CASE WriteParent
    BY <1>8 DEF WriteParent, Return, Result
  <1>9. CASE UNCHANGED call \/ Crash
    BY <1>9 DEF Crash
  <1>10. CASE Quiet
    BY <1>10 DEF Quiet
  <1> QED BY <1>3, <1>4, <1>5, <1>6, <1>7, <1>8, <1>9, <1>10
          DEF Next, CreateStep, vars, file_takes_block, file_gives_block,
              fs_unmount, fs_mount, fs_create, CreateRefused, fs_get_dir

(* An fs_create that returns -1, at whatever step it failed, leaves both   *)
(* allocation maps as they were when it was called.                        *)
THEOREM FailuresLeaveNoTrace == Spec => FailureLeavesNoTrace
  <1>1. IInv /\ [Next]_vars =>
          [ call.pc # "idle" /\ res'.val = -1 /\ call'.pc = "idle" /\ mounted'
              => <<fbm', inode_map'>> = call.before ]_vars
    BY FailsClean
  <1> QED BY <1>1, AlwaysIInv, PTL DEF Spec, FailureLeavesNoTrace

-----------------------------------------------------------------------------
(* What a directory lists it lists forever.                                *)

LEMMA LinksAre ==
    ASSUME IInv, NEW link
    PROVE  link \in Links <=>
             \E i \in Filled : \E s \in inodes[i].dir_entry_map :
               link = <<i, dents[inodes[i].data_direct][s]>>
  <1>1. \A i \in Filled : _inode_dir_load(inodes[i]) = dents[inodes[i].data_direct]
    BY Shape DEF IInv, EntryBlocksApart, _inode_dir_load
  <1> QED BY <1>1 DEF Links, Listed

LEMMA LinksAreNext ==
    IInv' => \A link : link \in Links' <=>
             \E i \in Filled' : \E s \in inodes'[i].dir_entry_map :
               link = <<i, dents'[inodes'[i].data_direct][s]>>
  <1>1. IInv => \A link : link \in Links <=>
             \E i \in Filled : \E s \in inodes[i].dir_entry_map :
               link = <<i, dents[inodes[i].data_direct][s]>>
    BY LinksAre
  <1>2. (IInv => \A link : link \in Links <=>
             \E i \in Filled : \E s \in inodes[i].dir_entry_map :
               link = <<i, dents[inodes[i].data_direct][s]>>)'
    BY <1>1, PTL
  <1> QED BY <1>2

\* The directories stay, and so do the entries whose bit is set.
LEMMA LinksGrow ==
    ASSUME IInv, IInv', Filled \subseteq Filled',
           \A i \in Filled : \A s \in inodes[i].dir_entry_map :
             /\ s \in inodes'[i].dir_entry_map
             /\ dents'[inodes'[i].data_direct][s] = dents[inodes[i].data_direct][s]
    PROVE  Links \subseteq Links'
  <1> SUFFICES ASSUME NEW link \in Links PROVE link \in Links'
    OBVIOUS
  <1>0. PICK i \in Filled : \E s \in inodes[i].dir_entry_map :
          link = <<i, dents[inodes[i].data_direct][s]>>
    BY LinksAre
  <1>1. PICK s \in inodes[i].dir_entry_map :
          link = <<i, dents[inodes[i].data_direct][s]>>
    BY <1>0
  <1>2. i \in Filled' /\ s \in inodes'[i].dir_entry_map
        /\ link = <<i, dents'[inodes'[i].data_direct][s]>>
    BY <1>1
  <1> QED BY <1>2, LinksAreNext

\* Directories stay, with their blocks and with the slots in use.
LEMMA DirsStay ==
    ASSUME IInv, IInv', [Next]_vars
    PROVE  \A i \in Filled :
             /\ i \in Filled'
             /\ inodes'[i].data_direct = inodes[i].data_direct
             /\ inodes[i].dir_entry_map \subseteq inodes'[i].dir_entry_map
  <1>1. /\ TypeInv /\ CallInv /\ InodeInv /\ ParentInv
        /\ TypeInv' /\ InodeInv'
    BY DEF IInv
  <1>2. CASE UNCHANGED <<inode_map, inodes>>
    BY <1>1, <1>2, FilledKept
  <1>3. CASE AllocInode \/ FreeInode
    <2>1. inodes' = inodes
      BY <1>3 DEF AllocInode, FreeInode
    <2>2. \A i \in (inode_map \ inode_map') \cup (inode_map' \ inode_map) :
            i \in Inums /\ inodes[i].file_size = 0
      <3>1. CASE AllocInode
        BY <1>1, <3>1 DEF AllocInode, block_store_sub_allocate, IsFirstFree, InodeInv
      <3>2. CASE FreeInode
        BY <1>1, <3>2 DEF FreeInode, At, block_store_sub_release, InodeInv, HasInum, TypeInv
      <3> QED BY <1>3, <3>1, <3>2
    <2>3. Filled' = Filled
      BY <1>1, <2>1, <2>2, FilledKept
    <2> QED BY <2>1, <2>3
  <1>4. CASE WriteInode
    <2>1. /\ call.pc = "inode" /\ inode_map' = inode_map
          /\ inodes' = [inodes EXCEPT ![call.inum] = NewInode(call.type)]
      BY <1>4 DEF WriteInode, At, block_store_inode_write
    <2>2. call.inum \notin Filled
      <3>1. inodes[call.inum].file_size = 0
        BY <1>1, <2>1 DEF InodeInv, HasInum
      <3> QED BY <1>1, <3>1, FilledIs
    <2>3. \A i \in Filled : inodes'[i] = inodes[i]
      BY <1>1, <2>1, <2>2, FilledIs DEF TypeInv
    <2> QED BY <1>1, <2>1, <2>3, FilledIs, FilledIsNext
  <1>5. CASE WriteParent
    <2>1. /\ call.pc = "parent" /\ inode_map' = inode_map
          /\ inodes' = [inodes EXCEPT ![call.parent] = call.node]
      BY <1>5 DEF WriteParent, At, block_store_inode_write
    <2>2. call.parent \in Filled => ~call.is_new
      BY <1>1, <2>1, FilledIs DEF ParentInv
    <2>3. ASSUME NEW i \in Filled
          PROVE  /\ inodes[i].dir_entry_map \subseteq inodes'[i].dir_entry_map
                 /\ inodes'[i].data_direct = inodes[i].data_direct
                 /\ inodes'[i].file_type = "d" /\ inodes'[i].file_size > 0
      <3>1. i \in Inums /\ inodes[i].file_type = "d" /\ inodes[i].file_size > 0
        BY <1>1, FilledIs DEF TypeInv
      <3>2. CASE i # call.parent
        BY <1>1, <2>1, <3>1, <3>2 DEF TypeInv
      <3>3. CASE i = call.parent
        <4>1. inodes'[i] = call.node
          BY <1>1, <2>1, <3>1, <3>3 DEF TypeInv
        <4> QED BY <1>1, <2>1, <2>2, <3>3, <4>1 DEF ParentInv
      <3> QED BY <3>2, <3>3
    <2> QED BY <1>1, <2>1, <2>3, FilledIs, FilledIsNext
  <1>6. Next => \/ UNCHANGED <<inode_map, inodes>> \/ AllocInode \/ FreeInode
                \/ WriteInode \/ WriteParent
    BY DEF Next, CreateStep, Verified_fails, FreeBlock, WriteEntries, device, fs_create,
           CreateRefused, fs_get_dir, file_takes_block, file_gives_block, fs_unmount,
           fs_mount, Crash
  <1> QED BY <1>2, <1>3, <1>4, <1>5, <1>6 DEF vars

LEMMA ListedStays == ASSUME IInv, IInv', [Next]_vars PROVE Links \subseteq Links'
  <1>1. TypeInv /\ CallInv /\ InodeInv /\ ParentInv /\ EntryBlocksApart /\ EntriesInv
    BY DEF IInv
  <1>2. CASE dents' = dents
    BY <1>2, DirsStay, LinksGrow
  <1>3. CASE WriteEntries
    <2> DEFINE pd == call.node.data_direct
    <2>1. call.pc = "entries" /\ dents' = [dents EXCEPT ![pd] = call.entries]
      BY <1>3 DEF WriteEntries, At
    <2>2. ASSUME NEW i \in Filled, NEW s \in inodes[i].dir_entry_map
          PROVE  dents'[inodes[i].data_direct][s] = dents[inodes[i].data_direct][s]
      <3>1. CASE inodes[i].data_direct # pd
        BY <1>1, <2>1, <3>1 DEF TypeInv
      <3>2. CASE inodes[i].data_direct = pd
        <4>1. ~call.is_new
          BY <1>1, <3>2 DEF EntryBlocksApart, NewBlocks
        <4>2. call.parent \in Filled /\ inodes[call.parent].data_direct = pd
          BY <1>1, <2>1, <4>1, FilledIs DEF ParentInv, TypeInv, Inode
        <4>3. i = call.parent
          BY <1>1, <3>2, <4>2 DEF EntryBlocksApart
        <4>4. call.entries[s] = dents[pd][s]
          BY <1>1, <2>1, <4>1, <4>3 DEF EntriesInv
        <4>5. dents'[pd] = call.entries
          BY <1>1, <2>1 DEF TypeInv, CallInv, Inode
        <4> QED BY <3>2, <4>4, <4>5
      <3> QED BY <3>1, <3>2
    <2> QED BY <2>2, DirsStay, LinksGrow
  <1>4. Next => dents' = dents \/ WriteEntries
    BY DEF Next, CreateStep, AllocInode, WriteInode, WriteParent, FreeInode, Verified_fails,
           FreeBlock, device, fs_create, CreateRefused, fs_get_dir, file_takes_block,
           file_gives_block, fs_unmount, fs_mount, Crash
  <1> QED BY <1>2, <1>3, <1>4 DEF vars

(* What fs_get_dir lists, with the inode it is a name of, it lists forever, *)
(* whatever creates fail or die.                                           *)
THEOREM ListedStaysListed == Spec => ListedForever
  <1>1. IInv /\ IInv' /\ [Next]_vars => [Links \subseteq Links']_vars
    BY ListedStays
  <1> QED BY <1>1, AlwaysIInv, PTL DEF Spec, ListedForever

-----------------------------------------------------------------------------
(* What is marked in use is accounted for, but for what a death leaves.    *)

\* The inode of the call is one only while it has allocated one, and when it
\* is in the local entries its slot is in the local map.
LostInv ==
    /\ call.pc \in {"idle", "verify"} => call.inum = NONE
    /\ call.pc = "free block" => call.inum \notin inode_map
    /\ call.pc \in {"entries", "parent"} =>
         \E s \in call.node.dir_entry_map : call.entries[s].inum = call.inum

LEMMA LostInvNext == ASSUME IInv, LostInv, [Next]_vars PROVE LostInv'
  <1>1. TypeInv /\ CallInv
    BY DEF IInv
  <1>2. NONE \notin inode_map
    BY <1>1, Shape DEF TypeInv
  <1>3. CASE UNCHANGED <<call, inode_map>>
    BY <1>3 DEF LostInv
  <1>4. CASE call' = Idle
    BY <1>4 DEF LostInv, Idle
  <1>5. ASSUME NEW path \in Paths, NEW type \in Types, fs_create(path, type)
        PROVE  call'.pc = "verify" /\ call'.inum = NONE
    BY <1>5 DEF fs_create, Idle
  <1>6. CASE AllocInode
    <2>1. call'.pc = "inode"
      BY <1>1, <1>6 DEF AllocInode, CallInv
    <2> QED BY <2>1 DEF LostInv
  <1>7. CASE Verified_fails
    <2>1. \/ call' = Idle
          \/ call'.pc = "free block" /\ call'.inum = call.inum
      BY <1>1, <1>7 DEF Verified_fails, Return, CallInv
    <2>2. call.inum \notin inode_map /\ inode_map' = inode_map
      BY <1>2, <1>7 DEF Verified_fails, At, device, LostInv
    <2> QED BY <1>4, <2>1, <2>2 DEF LostInv
  <1>8. CASE WriteInode
    <2>1. CASE call'.pc = "free inode"
      BY <2>1 DEF LostInv
    <2>2. CASE call'.pc # "free inode"
      <3>1. PICK s \in MapSlots :
              call' = [call EXCEPT !.pc = "entries",
                   !.node.dir_entry_map = @ \cup {s},
                   !.node.file_size = @ + 1,
                   !.entries[s] = [filename |-> _basename(call.path), inum |-> call.inum]]
        BY <1>1, <1>8, <2>2 DEF WriteInode, CallInv
      <3>2. call'.pc = "entries" /\ call'.inum = call.inum
        BY <1>1, <3>1 DEF CallInv
      <3>3. s \in call'.node.dir_entry_map
        BY <1>1, <3>1 DEF CallInv, Inode
      <3>4. call'.entries[s].inum = call.inum
        BY <1>1, <3>1, Shape DEF CallInv, IsEntries
      <3> QED BY <3>2, <3>3, <3>4 DEF LostInv
    <2> QED BY <2>1, <2>2
  <1>9. CASE WriteEntries
    BY <1>1, <1>9 DEF WriteEntries, At, LostInv, CallInv
  <1>10. CASE FreeInode
    <2>1. \/ call' = Idle
          \/ call'.pc = "free block" /\ call'.inum = call.inum
      BY <1>1, <1>10 DEF FreeInode, Return, CallInv
    <2>2. inode_map' = inode_map \ {call.inum}
      BY <1>10 DEF FreeInode, block_store_sub_release
    <2> QED BY <1>4, <2>1, <2>2 DEF LostInv
  <1> QED BY <1>3, <1>4, <1>5, <1>6, <1>7, <1>8, <1>9, <1>10
          DEF LostInv, vars, device, Next, CreateStep, WriteParent, FreeBlock, Return,
              CreateRefused, fs_get_dir, file_takes_block, file_gives_block,
              fs_unmount, fs_mount, Crash

LEMMA AlwaysLostInv == Spec => []LostInv
  <1>1. Init => LostInv
    BY DEF Init, Idle, LostInv
  <1> QED BY <1>1, LostInvNext, AlwaysIInv, PTL DEF Spec

\* The entry whose directory's inode is being stored is listed.
LEMMA ParentLists ==
    ASSUME IInv, LostInv, IInv', WriteParent
    PROVE  /\ call.parent \in Filled' /\ inodes'[call.parent] = call.node
           /\ \E link \in Links' : link[2].inum = call.inum
  <1>1. /\ TypeInv /\ CallInv /\ ParentInv /\ EntriesInv /\ TypeInv' /\ InodeInv'
    BY DEF IInv
  <1>2. /\ call.pc = "parent" /\ UNCHANGED <<inode_map, dents>>
        /\ inodes' = [inodes EXCEPT ![call.parent] = call.node]
    BY DEF WriteParent, At, block_store_inode_write
  <1>3. inodes'[call.parent] = call.node
    BY <1>1, <1>2 DEF TypeInv, ParentInv
  <1>4. call.parent \in Filled'
    BY <1>1, <1>2, <1>3, FilledIsNext DEF ParentInv
  <1>5. PICK s \in call.node.dir_entry_map : call.entries[s].inum = call.inum
    BY <1>2 DEF LostInv
  <1>6. dents'[call.node.data_direct] = call.entries
    BY <1>1, <1>2 DEF EntriesInv
  <1>7. <<call.parent, call.entries[s]>> \in Links'
    BY <1>3, <1>4, <1>6, LinksAreNext
  <1> QED BY <1>3, <1>4, <1>5, <1>7

\* An inode that stays in use was, and is that of the call only if it was.
LEMMA NoInodeLost ==
    ASSUME IInv, LostInv, IInv', [Next]_vars, mounted'
    PROVE  Lost'.inums \subseteq Lost.inums
  <1>1. TypeInv /\ CallInv /\ Links \subseteq Links' /\ NONE \notin Inums
    BY ListedStays, Shape DEF IInv
  <1> SUFFICES ASSUME NEW i \in inode_map' \ {Root, call'.inum},
                      \A link \in Links' : i # link[2].inum
               PROVE  i \in inode_map /\ i # call.inum
    BY <1>1 DEF Lost
  <1>2. CASE UNCHANGED <<call, inode_map>>
    BY <1>2
  <1>3. CASE call.pc \in {"idle", "verify"} /\ inode_map' = inode_map
    BY <1>1, <1>3 DEF LostInv, TypeInv
  <1>4. CASE AllocInode
    <2>1. PICK n \in Inums : /\ call.pc = "verify" /\ inode_map' = inode_map \cup {n}
                             /\ call' = [call EXCEPT !.pc = "inode", !.inum = n]
      BY <1>4 DEF AllocInode, At, block_store_sub_allocate
    <2>2. call'.inum = n /\ call.inum = NONE
      BY <1>1, <2>1 DEF CallInv, LostInv
    <2> QED BY <1>1, <2>1, <2>2 DEF TypeInv
  <1>5. CASE WriteInode \/ WriteEntries
    BY <1>1, <1>5 DEF WriteInode, WriteEntries, CallInv
  <1>6. CASE WriteParent
    BY <1>6, ParentLists DEF WriteParent
  <1>7. CASE FreeInode
    BY <1>7 DEF FreeInode, block_store_sub_release
  <1>8. CASE FreeBlock
    BY <1>8 DEF FreeBlock, At, LostInv
  <1>9. ~Crash
    BY DEF Crash
  <1> QED BY <1>2, <1>3, <1>4, <1>5, <1>6, <1>7, <1>8, <1>9
          DEF vars, device, Next, CreateStep, Verified_fails, At, Quiet, fs_create,
              CreateRefused, fs_get_dir, file_takes_block, file_gives_block,
              fs_unmount, fs_mount

\* A block that stays in use was, and has lost no owner.
LEMMA NoBlockLost ==
    ASSUME IInv, LostInv, IInv', [Next]_vars, mounted'
    PROVE  Lost'.blocks \subseteq Lost.blocks
  <1>1. TypeInv /\ CallInv /\ ParentInv
    BY DEF IInv
  <1> DEFINE Owned == {inodes[i].data_direct : i \in Filled}
  <1>2. Owned \subseteq Owned'
    BY DirsStay
  <1> SUFFICES ASSUME NEW n \in fbm', n \notin Reserved \cup data' \cup NewBlocks' \cup Owned'
               PROVE  n \in fbm /\ n \notin data /\ n \notin NewBlocks
    BY <1>2 DEF Lost
  <1>3. CASE UNCHANGED <<fbm, data>> /\ ~call.is_new
    BY <1>3 DEF NewBlocks
  <1>4. CASE UNCHANGED <<fbm, data, call>>
    BY <1>4 DEF NewBlocks
  <1>5. ASSUME NEW path \in Paths, NEW type \in Types, fs_create(path, type)
        PROVE  ~call.is_new /\ data' = data /\ (fbm' = fbm \/ fbm' = fbm \cup NewBlocks')
    <2>1. call.pc = "idle" /\ data' = data /\ ~call.is_new
      BY <1>1, <1>5 DEF fs_create, Quiet, CallInv
    <2>2. ASSUME fbm' # fbm PROVE fbm' = fbm \cup NewBlocks'
      <3> DEFINE P == _get_inum(_dirname(path))
      <3>1. PICK m \in Blocks :
              /\ fbm' = fbm \cup {m}
              /\ call' = [[Idle EXCEPT !.pc = "verify", !.path = path, !.type = type,
                           !.parent = P, !.node = inodes[P],
                           !.entries = _inode_dir_load(inodes[P]),
                           !.before = <<fbm, inode_map>>]
                          EXCEPT !.node.data_direct = m, !.is_new = TRUE]
        BY <1>5, <2>2 DEF fs_create, block_store_allocate
      <3>2. IsDir(P)
        BY <1>5 DEF fs_create
      <3>3. inodes[P] \in Inode
        BY <1>1, <3>2 DEF IsDir, block_store_sub_test, TypeInv
      <3>4. call'.is_new /\ call'.node.data_direct = m
        BY <3>1, <3>3 DEF Idle, Inode
      <3> QED BY <3>1, <3>4 DEF NewBlocks
    <2> QED BY <2>1, <2>2
  <1>6. CASE file_takes_block \/ file_gives_block
    <2>1. call.pc = "idle"
      BY <1>6 DEF file_takes_block, file_gives_block, Quiet
    <2>2. NewBlocks = {}
      BY <1>1, <2>1 DEF CallInv, NewBlocks
    <2>3. \/ \E m \in Blocks : fbm' = fbm \cup {m} /\ data' = data \cup {m}
          \/ \E m \in data : fbm' = fbm \ {m} /\ data' = data \ {m}
      BY <1>6 DEF file_takes_block, file_gives_block, block_store_allocate,
                  block_store_release
    <2> QED BY <2>2, <2>3
  <1>7. CASE AllocInode \/ WriteInode \/ WriteEntries
    <2>1. UNCHANGED <<fbm, data>>
      BY <1>7 DEF AllocInode, WriteInode, WriteEntries
    <2>2. call'.is_new = call.is_new /\ call'.node.data_direct = call.node.data_direct
      <3>1. CASE AllocInode
        BY <1>1, <3>1 DEF AllocInode, CallInv
      <3>2. CASE WriteEntries
        BY <1>1, <3>2 DEF WriteEntries, CallInv
      <3>3. CASE WriteInode
        <4>1. CASE call' = [call EXCEPT !.pc = "free inode"]
          BY <1>1, <4>1 DEF CallInv
        <4>2. ASSUME NEW s \in MapSlots,
                     call' = [call EXCEPT !.pc = "entries",
                     !.node.dir_entry_map = @ \cup {s},
                     !.node.file_size = @ + 1,
                     !.entries[s] = [filename |-> _basename(call.path), inum |-> call.inum]]
              PROVE  call'.is_new = call.is_new
                     /\ call'.node.data_direct = call.node.data_direct
          <5>1. /\ call'.is_new = call.is_new
                /\ call'.node = [call.node EXCEPT
                      !.dir_entry_map = @ \cup {s}, !.file_size = @ + 1]
            BY <1>1, <4>2 DEF CallInv
          <5> QED BY <1>1, <5>1 DEF CallInv, Inode
        <4> QED BY <3>3, <4>1, <4>2 DEF WriteInode
      <3> QED BY <1>7, <3>1, <3>2, <3>3
    <2> QED BY <2>1, <2>2 DEF NewBlocks
  <1>8. CASE WriteParent
    <2>1. UNCHANGED <<fbm, data>>
      BY <1>8 DEF WriteParent
    <2>2. call.node.data_direct \in Owned'
      BY <1>8, ParentLists
    <2> QED BY <2>1, <2>2 DEF NewBlocks
  <1>9. CASE Verified_fails \/ FreeInode
    <2>1. UNCHANGED <<fbm, data>>
      BY <1>9 DEF Verified_fails, FreeInode, device
    <2>2. CASE call.is_new
      <3>1. call' = [call EXCEPT !.pc = "free block"]
        BY <1>9, <2>2 DEF Verified_fails, FreeInode
      <3>2. call'.is_new = call.is_new /\ call'.node = call.node
        BY <1>1, <3>1 DEF CallInv
      <3> QED BY <2>1, <3>2 DEF NewBlocks
    <2>3. CASE ~call.is_new
      BY <1>3, <2>1, <2>3
    <2> QED BY <2>2, <2>3
  <1>10. CASE FreeBlock
    <2>1. fbm' = fbm \ {call.node.data_direct} /\ data' = data
      BY <1>10 DEF FreeBlock, block_store_release
    <2> QED BY <2>1 DEF NewBlocks
  <1>11. CASE Quiet /\ UNCHANGED <<fbm, data>>
    <2>1. ~call.is_new
      BY <1>1, <1>11 DEF Quiet, CallInv
    <2> QED BY <1>3, <1>11, <2>1
  <1>12. ~Crash
    BY DEF Crash
  <1> QED BY <1>3, <1>4, <1>5, <1>6, <1>7, <1>8, <1>9, <1>10, <1>11, <1>12
          DEF vars, device, Next, CreateStep, CreateRefused, fs_get_dir, fs_unmount, fs_mount, NewBlocks

(* An inode or a block that is marked in use and belongs to no listed entry *)
(* and no directory is left by a process that died, never by a return.     *)
THEOREM OnlyADeathLoses == Spec => OnlyDeathLoses
  <1>1. IInv /\ LostInv /\ IInv' /\ [Next]_vars =>
          [ \/ Lost'.inums \subseteq Lost.inums /\ Lost'.blocks \subseteq Lost.blocks
            \/ ~mounted' ]_vars
    BY NoInodeLost, NoBlockLost
  <1> QED BY <1>1, AlwaysIInv, AlwaysLostInv, PTL DEF Spec, OnlyDeathLoses

-----------------------------------------------------------------------------
(* The type invariant, which says besides the types that the inode bitmap  *)
(* is a row of ones.                                                       *)

Entries == [Slots -> directoryFile]

\* The inodes in use are the first ones, and the call holds the last.
RowInv ==
    \E n \in 1 .. NumInodes : /\ inode_map = 0 .. n - 1
                              /\ HasInum => call.inum = n - 1

\* The path of a call that runs passed the checks before the call got so far.
PathInv ==
    /\ call.pc # "idle" => call.path \in Paths /\ MayLookUp(call.path)
    /\ call.pc = "inode" => _basename(call.path) # NULL

ValueInv ==
    /\ dents \in [Blocks -> Entries]
    /\ call.entries \in Entries
    /\ call.parent \in Inums
    /\ call.inum \in Inums \cup {NONE}
    /\ mounted \in BOOLEAN
    /\ ~mounted \/ call.pc = "idle" => call = Idle

TInv == IInv /\ RowInv /\ PathInv /\ ValueInv

-----------------------------------------------------------------------------
(* What the expressions of the module are.                                 *)

LEMMA NoEntriesAre == NoEntries \in Entries
  BY Shape DEF NoEntries, Entries, ZeroEntry, directoryFile

LEMMA IdleIs ==
    /\ Idle.pc = "idle" /\ Idle.entries \in Entries /\ Idle.parent \in Inums
    /\ Idle.inum = NONE
  BY NoEntriesAre, Shape DEF Idle

\* The basename of a path that fs_create looks up is a name.
LEMMA BasenameIsName ==
    ASSUME NEW path \in Paths, MayLookUp(path), _basename(path) # NULL
    PROVE  _basename(path) \in Names
  <1> DEFINE L == Len(path)
             S == {0} \cup {n \in 1 .. L : path[n] # Slash}
  <1>1. path \in Seq(Names \cup {Slash}) /\ L \in Nat /\ L # 0
    BY NameAssumption DEF MayLookUp, PATH_OK, NULL
  <1>2. path[L] # Slash
    BY <1>1 DEF MayLookUp, Last
  <1>3. path[L] \in Names
    BY <1>1, <1>2
  <1>4. Max(S) = L
    <2>1. L \in S /\ \A n \in S : L >= n
      BY <1>1, <1>2
    <2>2. \A n \in S : n \in Nat
      BY <1>1
    <2>3. \A m \in S : (\A n \in S : m >= n) => m = L
      BY <2>1, <2>2
    <2> QED BY <2>1, <2>3 DEF Max
  <1>5. WithoutSlashes(path) = path
    <2>1. WithoutSlashes(path) = SubSeq(path, 1, Max(S))
      BY DEF WithoutSlashes
    <2>2. SubSeq(path, 1, L) = path
      BY <1>1, SubSeqFull
    <2> QED BY <1>4, <2>1, <2>2
  <1>6. _basename(path) = path[L]
    BY <1>1, <1>5 DEF _basename, Last
  <1> QED BY <1>3, <1>6

\* What is read as the entries of a directory has names and inode numbers.
LEMMA LoadedIsEntries ==
    ASSUME TInv, NEW i \in Inums
    PROVE  _inode_dir_load(inodes[i]) \in Entries
  <1>1. inodes[i].data_direct \in Blocks
    BY DEF TInv, IInv, TypeInv, Inode
  <1>2. PICK n \in 1 .. NumInodes : inode_map = 0 .. n - 1
    BY DEF TInv, RowInv
  <1>3. Cardinality(inode_map) = n
    <2>1. n \in Int /\ n >= 1
      BY ShapeAssumption
    <2>2. Cardinality(0 .. n - 1) = IF 0 > n - 1 THEN 0 ELSE (n - 1) - 0 + 1
      BY <2>1, FS_Interval
    <2> QED BY <1>2, <2>1, <2>2
  <1>4. MapName[Cardinality(inode_map)] \in Names \cup {NoName}
    BY <1>2, <1>3, NameAssumption
  <1>5. BitmapAsEntries \in Entries
    <2>1. [ZeroEntry EXCEPT !.filename = MapName[Cardinality(inode_map)]] \in directoryFile
      BY <1>4, Shape DEF ZeroEntry, directoryFile
    <2>2. BitmapAsEntries =
            [NoEntries EXCEPT ![0] = [@ EXCEPT !.filename = MapName[Cardinality(inode_map)]]]
      BY DEF BitmapAsEntries
    <2>3. NoEntries[0] = ZeroEntry
      BY Shape DEF NoEntries
    <2> QED BY <2>1, <2>2, <2>3, NoEntriesAre DEF Entries
  <1> QED BY <1>1, <1>5 DEF _inode_dir_load, TInv, ValueInv

-----------------------------------------------------------------------------
(* The steps.                                                              *)

LEMMA InitTInv == Init => TInv
  <1> SUFFICES ASSUME Init PROVE TInv
    OBVIOUS
  <1>1. IInv
    BY InitInv
  <1>2. inode_map = 0 .. 1 - 1 /\ 1 \in 1 .. NumInodes
    BY ShapeAssumption DEF Init, Root
  <1>3. call = Idle /\ mounted = TRUE /\ dents = [b \in Blocks |-> NoEntries]
    BY DEF Init
  <1>4. RowInv /\ PathInv
    BY <1>2, <1>3, IdleIs DEF RowInv, PathInv, HasInum
  <1>5. ValueInv
    BY <1>3, IdleIs, NoEntriesAre DEF ValueInv
  <1> QED BY <1>1, <1>4, <1>5 DEF TInv

\* Steps that end the call, or that none is running in, and leave the maps.
LEMMA ToIdle ==
    ASSUME TInv, IInv', call' = Idle, inode_map' = inode_map, dents' = dents,
           mounted' \in BOOLEAN
    PROVE  TInv'
  <1>1. RowInv'
    BY IdleIs DEF TInv, RowInv, HasInum
  <1>2. PathInv'
    BY IdleIs DEF PathInv
  <1>3. ValueInv'
    BY IdleIs DEF TInv, ValueInv
  <1> QED BY <1>1, <1>2, <1>3 DEF TInv

\* Steps in which the call keeps its path, its parent, and its inode if it
\* had one, while no entries are stored.
LEMMA GoesOn ==
    ASSUME TInv, IInv', UNCHANGED <<inode_map, dents, mounted>>, mounted = TRUE,
           call.pc # "idle", call'.path = call.path, call'.parent = call.parent,
           call'.inum = call.inum, call'.entries \in Entries,
           HasInum' => HasInum, call'.pc \notin {"idle", "inode"}
    PROVE  TInv'
  <1>1. RowInv'
    BY DEF TInv, RowInv, HasInum
  <1>2. PathInv'
    BY DEF TInv, PathInv
  <1>3. ValueInv'
    BY DEF TInv, ValueInv
  <1> QED BY <1>1, <1>2, <1>3 DEF TInv

LEMMA CreateTInv ==
    ASSUME TInv, IInv', NEW path \in Paths, NEW type \in Types, fs_create(path, type)
    PROVE  TInv'
  <1> DEFINE P == _get_inum(_dirname(path))
  <1>1. P \in Inums
    BY DEF fs_create, IsDir, block_store_sub_test, TInv, IInv, TypeInv
  <1>2. _inode_dir_load(inodes[P]) \in Entries
    BY <1>1, LoadedIsEntries
  <1>3. /\ call'.pc = "verify" /\ call'.path = path /\ call'.parent = P
        /\ call'.entries = _inode_dir_load(inodes[P]) /\ call'.inum = NONE
    BY DEF fs_create, Idle
  <1>4. UNCHANGED <<inode_map, dents, mounted>> /\ mounted /\ MayLookUp(path)
    BY DEF fs_create, Quiet
  <1>5. RowInv'
    BY <1>3, <1>4 DEF TInv, RowInv, HasInum
  <1>6. PathInv'
    BY <1>3, <1>4 DEF PathInv
  <1>7. ValueInv'
    BY <1>1, <1>2, <1>3, <1>4 DEF TInv, ValueInv
  <1> QED BY <1>5, <1>6, <1>7 DEF TInv

LEMMA AllocInodeTInv == ASSUME TInv, IInv', AllocInode PROVE TInv'
  <1>1. PICK i \in Inums : /\ IsFirstFree(i, inode_map, Inums)
                           /\ inode_map' = inode_map \cup {i}
                           /\ call' = [call EXCEPT !.pc = "inode", !.inum = i]
    BY DEF AllocInode, block_store_sub_allocate
  <1>2. /\ call'.pc = "inode" /\ call'.inum = i /\ call'.path = call.path
        /\ call'.entries = call.entries /\ call'.parent = call.parent
    BY <1>1 DEF TInv, IInv, CallInv
  <1>3. PICK n \in 1 .. NumInodes : inode_map = 0 .. n - 1
    BY DEF TInv, RowInv
  <1>4. i = n
    <2>1. i \in Int /\ n \in Int /\ 0 <= i /\ i < NumInodes /\ ~(i <= n - 1) /\ NumInodes \in Int
      BY <1>1, <1>3, ShapeAssumption DEF IsFirstFree, Inums
    <2>2. n \in Inums \ inode_map
      BY <2>1, <1>3 DEF Inums
    <2>3. i <= n
      BY <1>1, <2>2 DEF IsFirstFree
    <2> QED BY <2>1, <2>3
  <1>5. n + 1 \in 1 .. NumInodes /\ inode_map' = 0 .. (n + 1) - 1
    BY <1>1, <1>3, <1>4, ShapeAssumption DEF Inums
  <1>6. RowInv'
    BY <1>2, <1>4, <1>5 DEF RowInv
  <1>7. PathInv'
    BY <1>2 DEF TInv, PathInv, AllocInode, At, MayCreate
  <1>8. ValueInv'
    BY <1>2 DEF TInv, ValueInv, AllocInode, At
  <1> QED BY <1>6, <1>7, <1>8 DEF TInv

LEMMA WriteInodeTInv == ASSUME TInv, IInv', WriteInode PROVE TInv'
  <1>1. call.pc = "inode" /\ mounted = TRUE /\ UNCHANGED <<inode_map, dents, mounted>>
    BY DEF WriteInode, At, TInv, ValueInv
  <1>2. CASE call' = [call EXCEPT !.pc = "free inode"]
    BY <1>1, <1>2, GoesOn DEF TInv, ValueInv, IInv, CallInv, HasInum
  <1>3. ASSUME NEW s \in MapSlots,
               call' = [call EXCEPT !.pc = "entries",
                   !.node.dir_entry_map = @ \cup {s},
                   !.node.file_size = @ + 1,
                   !.entries[s] = [filename |-> _basename(call.path), inum |-> call.inum]]
        PROVE  TInv'
    <2> DEFINE entry == [filename |-> _basename(call.path), inum |-> call.inum]
    <2>1. call'.entries = [call.entries EXCEPT ![s] = entry]
      BY <1>3 DEF TInv, IInv, CallInv
    <2>2. call.inum \in Inums
      BY <1>1 DEF TInv, IInv, InodeInv, HasInum, TypeInv
    <2>3. _basename(call.path) \in Names
      BY <1>1, BasenameIsName DEF TInv, PathInv
    <2>4. entry \in directoryFile
      BY <2>2, <2>3 DEF directoryFile
    <2>5. call'.entries \in Entries
      BY <2>1, <2>4 DEF TInv, ValueInv, Entries
    <2>6. call'.path = call.path /\ call'.parent = call.parent /\ call'.inum = call.inum
          /\ call'.pc = "entries"
      BY <1>3 DEF TInv, IInv, CallInv
    <2> QED BY <1>1, <2>5, <2>6, GoesOn DEF HasInum
  <1> QED BY <1>2, <1>3 DEF WriteInode

LEMMA WriteEntriesTInv == ASSUME TInv, IInv', WriteEntries PROVE TInv'
  <1>1. /\ call.pc = "entries" /\ mounted = TRUE /\ UNCHANGED <<inode_map, mounted>>
        /\ dents' = [dents EXCEPT ![call.node.data_direct] = call.entries]
        /\ call' = [call EXCEPT !.pc = "parent"]
    BY DEF WriteEntries, At, TInv, ValueInv
  <1>2. /\ call'.pc = "parent" /\ call'.path = call.path /\ call'.parent = call.parent
        /\ call'.inum = call.inum /\ call'.entries = call.entries
    BY <1>1 DEF TInv, IInv, CallInv
  <1>3. RowInv'
    BY <1>1, <1>2 DEF TInv, RowInv, HasInum
  <1>4. PathInv'
    BY <1>1, <1>2 DEF TInv, PathInv
  <1>5. dents' \in [Blocks -> Entries]
    BY <1>1 DEF TInv, ValueInv
  <1>6. ValueInv'
    BY <1>1, <1>2, <1>5 DEF TInv, ValueInv
  <1> QED BY <1>3, <1>4, <1>6 DEF TInv

\* The inode that is released is the last of the row.
LEMMA FreeInodeTInv == ASSUME TInv, IInv', FreeInode PROVE TInv'
  <1>1. /\ call.pc = "free inode" /\ mounted = TRUE /\ UNCHANGED <<dents, mounted>>
        /\ inode_map' = inode_map \ {call.inum}
    BY DEF FreeInode, At, TInv, ValueInv, block_store_sub_release
  <1>2. PICK n \in 1 .. NumInodes : inode_map = 0 .. n - 1 /\ call.inum = n - 1
    BY <1>1 DEF TInv, RowInv, HasInum
  <1>3. call.inum # 0
    BY <1>1 DEF TInv, IInv, InodeInv, HasInum, Root
  <1>4. n - 1 \in 1 .. NumInodes /\ inode_map' = 0 .. (n - 1) - 1
    <2>1. NumInodes \in Nat /\ n \in Int /\ n >= 1 /\ n <= NumInodes /\ n - 1 # 0
      BY <1>2, <1>3, ShapeAssumption
    <2>2. inode_map' = (0 .. n - 1) \ {n - 1}
      BY <1>1, <1>2
    <2>3. ASSUME NEW i PROVE i \in (0 .. n - 1) \ {n - 1} <=> i \in 0 .. (n - 1) - 1
      BY <2>1
    <2>4. (0 .. n - 1) \ {n - 1} = 0 .. (n - 1) - 1
      BY <2>3
    <2> QED BY <2>1, <2>2, <2>4
  <1>5. \/ call' = Idle
        \/ call' = [call EXCEPT !.pc = "free block"]
    BY DEF FreeInode, Return
  <1>6. CASE call' = Idle
    <2>1. RowInv' /\ PathInv'
      BY <1>4, <1>6, IdleIs DEF RowInv, PathInv, HasInum
    <2>2. ValueInv'
      BY <1>1, <1>6, IdleIs DEF TInv, ValueInv
    <2> QED BY <2>1, <2>2 DEF TInv
  <1>7. CASE call' = [call EXCEPT !.pc = "free block"]
    <2>1. /\ call'.pc = "free block" /\ call'.path = call.path /\ call'.parent = call.parent
          /\ call'.inum = call.inum /\ call'.entries = call.entries
      BY <1>7 DEF TInv, IInv, CallInv
    <2>2. RowInv'
      BY <1>4, <2>1 DEF RowInv, HasInum
    <2>3. PathInv'
      BY <1>1, <2>1 DEF TInv, PathInv
    <2>4. ValueInv'
      BY <1>1, <2>1 DEF TInv, ValueInv
    <2> QED BY <2>2, <2>3, <2>4 DEF TInv
  <1> QED BY <1>5, <1>6, <1>7

LEMMA VerifiedFailsTInv == ASSUME TInv, IInv', Verified_fails PROVE TInv'
  <1>1. call.pc = "verify" /\ mounted = TRUE /\ UNCHANGED <<inode_map, dents, mounted>>
    BY DEF Verified_fails, At, TInv, ValueInv, device
  <1>2. CASE call' = Idle
    BY <1>1, <1>2, ToIdle
  <1>3. CASE call' = [call EXCEPT !.pc = "free block"]
    BY <1>1, <1>3, GoesOn DEF TInv, ValueInv, IInv, CallInv, HasInum
  <1> QED BY <1>2, <1>3 DEF Verified_fails, Return

LEMMA StutterTInv ==
    ASSUME TInv, IInv', UNCHANGED <<inode_map, dents, call>>,
           mounted' \in BOOLEAN, mounted' \/ ~mounted \/ call.pc = "idle"
    PROVE  TInv'
  <1>1. RowInv' /\ PathInv'
    BY DEF TInv, RowInv, PathInv, HasInum
  <1>2. ValueInv'
    BY DEF TInv, ValueInv
  <1> QED BY <1>1, <1>2 DEF TInv

LEMMA NextTInv == ASSUME TInv, Next PROVE TInv'
  <1>1. IInv'
    BY NextInv DEF TInv
  <1>2. mounted \in BOOLEAN
    BY DEF TInv, ValueInv
  <1>3. CASE WriteParent \/ FreeBlock
    BY <1>1, <1>2, <1>3, ToIdle DEF WriteParent, FreeBlock, Return
  <1>4. CASE CreateStep
    BY <1>1, <1>3, <1>4, AllocInodeTInv, VerifiedFailsTInv, WriteInodeTInv,
       WriteEntriesTInv, FreeInodeTInv DEF CreateStep
  <1>5. CASE file_takes_block \/ file_gives_block
    BY <1>1, <1>2, <1>5, StutterTInv DEF file_takes_block, file_gives_block, Quiet
  <1>6. CASE fs_mount
    BY <1>1, <1>6, StutterTInv DEF fs_mount, device
  <1>7. CASE fs_unmount
    BY <1>1, <1>7, StutterTInv DEF fs_unmount, Quiet, device
  <1>8. CASE Crash
    BY <1>1, <1>8, ToIdle DEF Crash, device
  <1>9. ASSUME NEW path \in Paths, NEW type \in Types, fs_create(path, type) PROVE TInv'
    BY <1>1, <1>9, CreateTInv
  <1>10. ASSUME NEW path \in Paths, CreateRefused(path) PROVE TInv'
    BY <1>1, <1>2, <1>10, ToIdle DEF CreateRefused, Return, device
  <1>11. ASSUME NEW path \in Paths, fs_get_dir(path) PROVE TInv'
    BY <1>1, <1>2, <1>11, StutterTInv DEF fs_get_dir, Quiet, device
  <1> QED BY <1>4, <1>5, <1>6, <1>7, <1>8, <1>9, <1>10, <1>11 DEF Next

LEMMA AlwaysTInv == Spec => []TInv
  <1>1. TInv /\ UNCHANGED vars => TInv'
    <2>1. ASSUME TInv, UNCHANGED vars PROVE IInv'
      BY <2>1, Stutter DEF TInv, vars
    <2> QED BY <2>1, StutterTInv DEF vars, TInv, ValueInv
  <1> QED BY InitTInv, NextTInv, <1>1, PTL DEF Spec

(* The types hold, and the inodes in use are always the first ones: what   *)
(* fails gives back the last, and what dies leaves it in the row.  This is *)
(* what BitmapAsEntries relies on when lookup reads the inode bitmap.      *)
THEOREM TypeCorrect == Spec => []TypeOK
  <1>1. TInv => TypeOK
    BY DEF TInv, IInv, TypeInv, CallInv, RowInv, ValueInv, Entries, PCs, TypeOK
  <1> QED BY <1>1, AlwaysTInv, PTL

-----------------------------------------------------------------------------
(* Recursive functions along a sequence, by counting up.                   *)

\* What holds of 0, and of each number up to n if it does of the one before.
LEMMA CountingUp ==
    ASSUME NEW n \in Nat, NEW T, 0 \in T,
           \A m \in 1 .. n : m - 1 \in T => m \in T
    PROVE  \A m \in 0 .. n : m \in T
  <1> DEFINE Bad == {m \in 0 .. n : m \notin T}
  <1> SUFFICES ASSUME Bad # {} PROVE FALSE
    OBVIOUS
  <1>1. PICK m \in Bad : \A k \in Bad : m <= k
    <2>1. Bad \subseteq Nat
      OBVIOUS
    <2> QED BY <2>1, LeastExists
  <1>2. m \in 1 .. n
    OBVIOUS
  <1>3. m - 1 \in Bad
    BY <1>2
  <1>4. m <= m - 1
    BY <1>1, <1>3
  <1> QED BY <1>2, <1>4

\* What holds of the empty sequence, and of each with its last element appended
\* if it does without, holds of all sequences.
LEMMA SequencesUp ==
    ASSUME NEW S, NEW T, <<>> \in T,
           \A s \in Seq(S) : \A e \in S : s \in T => Append(s, e) \in T
    PROVE  Seq(S) \subseteq T
  <1> SUFFICES ASSUME NEW seq \in Seq(S) PROVE seq \in T
    OBVIOUS
  <1> DEFINE U == {n \in Nat : \A s \in Seq(S) : Len(s) = n => s \in T}
  <1>1. 0 \in U
    BY EmptySeq
  <1>2. ASSUME NEW n \in 1 .. Len(seq), n - 1 \in U PROVE n \in U
    <2>1. ASSUME NEW s \in Seq(S), Len(s) = n PROVE s \in T
      <3>1. s # <<>>
        BY <2>1
      <3>2. PICK t \in Seq(S), e \in S : s = Append(t, e)
        BY <3>1, SequenceEmptyOrAppend
      <3>3. Len(t) \in Nat /\ Len(s) = Len(t) + 1
        BY <3>2, AppendProperties
      <3>4. t \in T
        BY <1>2, <2>1, <3>3
      <3> QED BY <3>2, <3>4
    <2>2. n \in Nat
      BY LenProperties
    <2> QED BY <2>1, <2>2
  <1> HIDE DEF U
  <1>3. Len(seq) \in Nat
    OBVIOUS
  <1>4. \A n \in 0 .. Len(seq) : n \in U
    BY <1>1, <1>2, <1>3, CountingUp
  <1> QED BY <1>3, <1>4 DEF U

\* Where table C leads from first along s, one element after the other.
Along(C, first, s) ==
    LET at[n \in 0 .. Len(s)] ==
          IF n = 0 THEN first ELSE C[<<at[n - 1], s[n]>>]
    IN  at[Len(s)]

\* A function that goes along s by a table on D.
Goes(C, first, s, f) ==
    f = [n \in 0 .. Len(s) |-> IF n = 0 THEN first ELSE C[<<f[n - 1], s[n]>>]]

IsTable(C, D, S) == \A d \in D : \A x \in S : C[<<d, x>>] \in D

\* The same of a function of which only what it is from 0 to Len(s) is known.
Follows(C, D, first, s, g) ==
    /\ g[0] = first
    /\ \A n \in 1 .. Len(s) : g[n - 1] \in D => g[n] = C[<<g[n - 1], s[n]>>]

LEMMA GoesExists ==
    ASSUME NEW C, NEW first, NEW S, NEW s \in Seq(S)
    PROVE  \E f : Goes(C, first, s, f)
  <1> DEFINE N == Len(s)
             Upto(n, g) == g = [m \in 0 .. n |-> IF m = 0 THEN first
                                                 ELSE C[<<g[m - 1], s[m]>>]]
             T == {n \in 0 .. N : \E g : Upto(n, g)}
  <1>0. N \in Nat
    OBVIOUS
  <1>1. 0 \in T
    <2>1. Upto(0, [m \in 0 .. 0 |-> first])
      OBVIOUS
    <2>2. 0 \in 0 .. N
      BY <1>0
    <2> QED BY <2>1, <2>2
  <1>2. ASSUME NEW n \in 1 .. N, n - 1 \in T PROVE n \in T
    <2>1. PICK g : Upto(n - 1, g)
      BY <1>2
    <2> DEFINE h == [m \in 0 .. n |-> IF m = n THEN C[<<g[n - 1], s[n]>>] ELSE g[m]]
    <2>2. n - 1 \in 0 .. n /\ n # 0 /\ n \in Nat
      BY <1>0
    <2>3. ASSUME NEW m \in 0 .. n
          PROVE  h[m] = IF m = 0 THEN first ELSE C[<<h[m - 1], s[m]>>]
      <3>1. CASE m = n
        <4>1. h[n - 1] = g[n - 1]
          BY <2>2
        <4> QED BY <3>1, <4>1, <2>2
      <3>2. CASE m # n
        <4>1. m \in 0 .. n - 1 /\ h[m] = g[m]
          BY <3>2, <2>2
        <4>2. g[m] = IF m = 0 THEN first ELSE C[<<g[m - 1], s[m]>>]
          BY <4>1, <2>1
        <4>3. m # 0 => h[m - 1] = g[m - 1]
          BY <4>1, <2>2
        <4> QED BY <4>1, <4>2, <4>3
      <3> QED BY <3>1, <3>2
    <2>4. h = [m \in 0 .. n |-> h[m]]
      OBVIOUS
    <2> HIDE DEF h
    <2>5. Upto(n, h)
      BY <2>3, <2>4
    <2>6. n \in 0 .. N
      BY <1>0
    <2> QED BY <2>5, <2>6
  <1> HIDE DEF T
  <1>3. N \in T
    <2>1. \A n \in 0 .. N : n \in T
      BY <1>0, <1>1, <1>2, CountingUp
    <2> QED BY <1>0, <2>1
  <1> QED BY <1>3 DEF T, Goes

\* Whatever goes along s as the table says arrives where Along does.
LEMMA AlongIs ==
    ASSUME NEW C, NEW first, NEW D, NEW S, NEW s \in Seq(S),
           first \in D, IsTable(C, D, S),
           NEW g, Follows(C, D, first, s, g)
    PROVE  g[Len(s)] = Along(C, first, s) /\ g[Len(s)] \in D
  <1> DEFINE N == Len(s)
             F == CHOOSE f : Goes(C, first, s, f)
             T == {n \in 0 .. N : F[n] = g[n] /\ g[n] \in D}
  <1>0. N \in Nat /\ \A n \in 1 .. N : s[n] \in S
    BY LenProperties, ElementOfSeq
  <1>1. Goes(C, first, s, F)
    BY GoesExists
  <1>2. Along(C, first, s) = F[N]
    BY DEF Along, Goes
  <1> HIDE DEF F
  <1>3. 0 \in T
    <2>1. 0 \in 0 .. N
      BY <1>0
    <2>2. F[0] = first
      BY <1>1, <2>1 DEF Goes
    <2> QED BY <2>1, <2>2 DEF Follows
  <1>4. ASSUME NEW n \in 1 .. N, n - 1 \in T PROVE n \in T
    <2>1. n \in 0 .. N /\ n # 0
      BY <1>0
    <2>2. F[n] = C[<<F[n - 1], s[n]>>]
      BY <1>1, <2>1 DEF Goes
    <2>3. g[n] = C[<<g[n - 1], s[n]>>]
      BY <1>4 DEF Follows
    <2>4. g[n] \in D
      BY <1>0, <1>4, <2>3 DEF IsTable
    <2> QED BY <1>4, <2>1, <2>2, <2>3, <2>4
  <1> HIDE DEF T
  <1>5. N \in T
    <2>1. \A n \in 0 .. N : n \in T
      BY <1>0, <1>3, <1>4, CountingUp
    <2> QED BY <1>0, <2>1
  <1> QED BY <1>2, <1>5 DEF T

LEMMA AlongEmpty ==
    ASSUME NEW C, NEW first
    PROVE  Along(C, first, <<>>) = first
  <1> DEFINE g == [n \in 0 .. 0 |-> first]
  <1>1. <<>> \in Seq({}) /\ Len(<<>>) = 0
    BY EmptySeq
  <1>2. g[Len(<<>>)] = Along(C, first, <<>>)
    <2>1. g[0] = first
      OBVIOUS
    <2>2. first \in {first} /\ IsTable(C, {first}, {})
      BY DEF IsTable
    <2>3. Follows(C, {first}, first, <<>>, g)
      BY <1>1, <2>1 DEF Follows
    <2> HIDE DEF g
    <2> QED BY <1>1, <2>2, <2>3, AlongIs
  <1> QED BY <1>1, <1>2

LEMMA AlongAppend ==
    ASSUME NEW C, NEW first, NEW D, NEW S, NEW s \in Seq(S), NEW x \in S,
           first \in D, IsTable(C, D, S)
    PROVE  /\ Along(C, first, s) \in D
           /\ Along(C, first, Append(s, x)) = C[<<Along(C, first, s), x>>]
  <1> DEFINE t == Append(s, x)
             N == Len(s)
  <1>1. /\ t \in Seq(S) /\ Len(t) = N + 1 /\ N \in Nat
        /\ \A n \in 1 .. N : t[n] = s[n]
        /\ t[N + 1] = x
    BY AppendProperties
  <1> HIDE DEF t
  <1>2. PICK f : Goes(C, first, t, f)
    BY <1>1, GoesExists
  <1>3. f[0] = first /\ \A n \in 1 .. N + 1 : f[n] = C[<<f[n - 1], t[n]>>]
    BY <1>1, <1>2 DEF Goes
  <1>4. f[Len(t)] = Along(C, first, t)
    <2>1. Follows(C, D, first, t, f)
      BY <1>1, <1>3 DEF Follows
    <2> QED BY <1>1, <2>1, AlongIs
  <1>5. f[N] = Along(C, first, s) /\ f[N] \in D
    <2>1. Follows(C, D, first, s, f)
      BY <1>1, <1>3 DEF Follows
    <2> QED BY <2>1, AlongIs
  <1>6. f[N + 1] = C[<<f[N], x>>]
    BY <1>1, <1>3
  <1> QED BY <1>1, <1>4, <1>5, <1>6 DEF t

LEMMA GoesInside ==
    ASSUME NEW C, NEW first, NEW D, NEW S, NEW s \in Seq(S),
           first \in D, IsTable(C, D, S),
           NEW f, Goes(C, first, s, f)
    PROVE  \A n \in 0 .. Len(s) : f[n] \in D
  <1> DEFINE N == Len(s)
             T == {n \in 0 .. N : f[n] \in D}
  <1>0. N \in Nat /\ \A n \in 1 .. N : s[n] \in S
    BY LenProperties, ElementOfSeq
  <1>1. 0 \in T
    BY <1>0 DEF Goes
  <1>2. ASSUME NEW n \in 1 .. N, n - 1 \in T PROVE n \in T
    <2>1. n \in 0 .. N /\ n # 0
      BY <1>0
    <2>2. f[n] = C[<<f[n - 1], s[n]>>]
      BY <2>1 DEF Goes
    <2> QED BY <1>0, <1>2, <2>1, <2>2 DEF IsTable
  <1> HIDE DEF T
  <1>3. \A n \in 0 .. N : n \in T
    BY <1>0, <1>1, <1>2, CountingUp
  <1> QED BY <1>3 DEF T

-----------------------------------------------------------------------------
(* The names of a path.                                                    *)

SplitTable(S) ==
    [at \in Seq(S) \X (S \cup {Slash}) |->
        IF at[2] = Slash THEN at[1] ELSE Append(at[1], at[2])]

LEMMA SplitIsTable ==
    ASSUME NEW S, Slash \notin S
    PROVE  /\ IsTable(SplitTable(S), Seq(S), S \cup {Slash}) /\ <<>> \in Seq(S)
           /\ \A d \in Seq(S) : \A x \in S \cup {Slash} :
                SplitTable(S)[<<d, x>>] = IF x = Slash THEN d ELSE Append(d, x)
  <1>1. \A d \in Seq(S) : \A x \in S \cup {Slash} :
          SplitTable(S)[<<d, x>>] = IF x = Slash THEN d ELSE Append(d, x)
    BY DEF SplitTable
  <1>2. ASSUME NEW d \in Seq(S), NEW x \in S \cup {Slash}
        PROVE  SplitTable(S)[<<d, x>>] \in Seq(S)
    <2>1. CASE x = Slash
      BY <1>1, <2>1
    <2>2. CASE x # Slash
      <3>1. x \in S
        BY <2>2
      <3>2. Append(d, x) \in Seq(S)
        BY <3>1, AppendProperties
      <3> QED BY <1>1, <2>2, <3>2
    <2> QED BY <2>1, <2>2
  <1> QED BY <1>1, <1>2, EmptySeq DEF IsTable

LEMMA SplitIs ==
    ASSUME NEW S, Slash \notin S, NEW path \in Seq(S \cup {Slash})
    PROVE  _split_path(path) = Along(SplitTable(S), <<>>, path)
  <1> DEFINE C == SplitTable(S)
             D == Seq(S)
             Rec(g) == g = [n \in 0 .. Len(path) |->
                              IF n = 0 THEN <<>>
                              ELSE IF path[n] = Slash THEN g[n - 1]
                              ELSE Append(g[n - 1], path[n])]
             F == CHOOSE g : Rec(g)
  <1>0. Len(path) \in Nat /\ \A n \in 1 .. Len(path) : path[n] \in S \cup {Slash}
    BY LenProperties, ElementOfSeq
  <1>1. \A d \in D : \A x \in S \cup {Slash} :
          C[<<d, x>>] = IF x = Slash THEN d ELSE Append(d, x)
    BY SplitIsTable
  <1>2. IsTable(C, D, S \cup {Slash}) /\ <<>> \in D
    BY SplitIsTable
  <1>3. _split_path(path) = F[Len(path)]
    BY DEF _split_path
  <1> HIDE DEF C, D
  <1>4. PICK f : Goes(C, <<>>, path, f)
    BY GoesExists
  <1>5. \A n \in 0 .. Len(path) : f[n] \in D
    BY <1>2, <1>4, GoesInside
  <1>6. Rec(f)
    <2>1. ASSUME NEW n \in 0 .. Len(path), n # 0
          PROVE  C[<<f[n - 1], path[n]>>] =
                   IF path[n] = Slash THEN f[n - 1] ELSE Append(f[n - 1], path[n])
      <3>1. n \in 1 .. Len(path) /\ n - 1 \in 0 .. Len(path)
        BY <1>0, <2>1
      <3> QED BY <1>0, <1>1, <1>5, <3>1
    <2>2. f = [n \in 0 .. Len(path) |-> IF n = 0 THEN <<>> ELSE C[<<f[n - 1], path[n]>>]]
      BY <1>4 DEF Goes
    <2> QED BY <2>1, <2>2
  <1>7. Rec(F)
    BY <1>6
  <1> HIDE DEF F
  <1>8. Follows(C, D, <<>>, path, F)
    <2>1. F[0] = <<>>
      BY <1>0, <1>7
    <2>2. ASSUME NEW n \in 1 .. Len(path), F[n - 1] \in D
          PROVE  F[n] = C[<<F[n - 1], path[n]>>]
      <3>1. n \in 0 .. Len(path) /\ n # 0
        BY <1>0
      <3>2. F[n] = IF path[n] = Slash THEN F[n - 1] ELSE Append(F[n - 1], path[n])
        BY <1>7, <3>1
      <3> QED BY <1>0, <1>1, <2>2, <3>2
    <2> QED BY <2>1, <2>2 DEF Follows
  <1> QED BY <1>2, <1>3, <1>8, AlongIs DEF C, D

LEMMA SplitEmpty == _split_path(<<>>) = <<>>
  <1>1. Slash \notin {} /\ <<>> \in Seq({} \cup {Slash})
    BY EmptySeq
  <1> QED BY <1>1, SplitIs, AlongEmpty

LEMMA SplitAppend ==
    ASSUME NEW S, Slash \notin S, NEW path \in Seq(S \cup {Slash}), NEW x \in S \cup {Slash}
    PROVE  /\ _split_path(path) \in Seq(S)
           /\ _split_path(Append(path, x)) =
                IF x = Slash THEN _split_path(path) ELSE Append(_split_path(path), x)
  <1>1. Append(path, x) \in Seq(S \cup {Slash})
    BY AppendProperties
  <1> DEFINE C == SplitTable(S)
             D == Seq(S)
             X == S \cup {Slash}
             at == Along(C, <<>>, path)
  <1>2. /\ IsTable(C, D, X) /\ <<>> \in D
        /\ \A d \in D : \A y \in X : C[<<d, y>>] = IF y = Slash THEN d ELSE Append(d, y)
    BY SplitIsTable
  <1>3. _split_path(path) = at /\ _split_path(Append(path, x)) = Along(C, <<>>, Append(path, x))
    BY <1>1, SplitIs
  <1>4. path \in Seq(X) /\ x \in X
    OBVIOUS
  <1>5. at \in D /\ Along(C, <<>>, Append(path, x)) = C[<<at, x>>]
    <2> HIDE DEF C, D, X
    <2> QED BY <1>2, <1>4, AlongAppend
  <1> HIDE DEF C, at
  <1> QED BY <1>2, <1>3, <1>5

\* Where a path ends when the slashes at its end are left out.
Ends(path) == {0} \cup {n \in 1 .. Len(path) : path[n] # Slash}

LEMMA EndsAppend ==
    ASSUME NEW X, NEW path \in Seq(X), NEW x \in X
    PROVE  /\ x = Slash => Ends(Append(path, x)) = Ends(path)
           /\ x # Slash => Max(Ends(Append(path, x))) = Len(path) + 1
  <1> DEFINE N == Len(path)
             longer == Append(path, x)
  <1>1. /\ Len(longer) = N + 1 /\ N \in Nat
        /\ \A n \in 1 .. N : longer[n] = path[n]
        /\ longer[N + 1] = x
    BY AppendProperties
  <1> HIDE DEF longer
  <1>2. CASE x = Slash
    <2>1. \A n \in 1 .. N + 1 : longer[n] # Slash <=> n \in 1 .. N /\ path[n] # Slash
      BY <1>1, <1>2
    <2>2. \A n \in 1 .. N : n \in 1 .. N + 1
      BY <1>1
    <2>3. Ends(longer) = Ends(path)
      BY <1>1, <2>1, <2>2 DEF Ends
    <2> QED BY <1>2, <2>3 DEF longer
  <1>3. CASE x # Slash
    <2>1. N + 1 \in Ends(longer) /\ \A n \in Ends(longer) : N + 1 >= n
      BY <1>1, <1>3 DEF Ends
    <2>2. \A n \in Ends(longer) : n \in Nat
      BY <1>1 DEF Ends
    <2>3. \A m \in Ends(longer) : (\A n \in Ends(longer) : m >= n) => m = N + 1
      BY <1>1, <2>1, <2>2
    <2>4. Max(Ends(longer)) = N + 1
      BY <2>1, <2>3 DEF Max
    <2> QED BY <1>3, <2>4 DEF longer
  <1> QED BY <1>2, <1>3

LEMMA EndsWithin ==
    ASSUME NEW X, NEW path \in Seq(X)
    PROVE  Max(Ends(path)) \in 0 .. Len(path)
  <1> DEFINE T == {s \in Seq(X) : Max(Ends(s)) \in 0 .. Len(s)}
  <1>1. <<>> \in T
    <2>1. <<>> \in Seq(X) /\ Len(<<>>) = 0
      BY EmptySeq
    <2>2. Ends(<<>>) = {0}
      BY <2>1 DEF Ends
    <2>3. Max({0}) = 0
      BY DEF Max
    <2>4. Max(Ends(<<>>)) = 0
      BY <2>2, <2>3
    <2>5. 0 \in 0 .. Len(<<>>)
      BY <2>1
    <2> QED BY <2>1, <2>4, <2>5
  <1>2. ASSUME NEW s \in Seq(X), NEW e \in X, s \in T PROVE Append(s, e) \in T
    <2>1. Append(s, e) \in Seq(X) /\ Len(Append(s, e)) = Len(s) + 1 /\ Len(s) \in Nat
      BY AppendProperties
    <2>2. CASE e = Slash
      BY <1>2, <2>1, <2>2, EndsAppend
    <2>3. CASE e # Slash
      <3>1. Max(Ends(Append(s, e))) = Len(s) + 1
        BY <2>3, EndsAppend
      <3> QED BY <2>1, <3>1
    <2> QED BY <2>2, <2>3
  <1>3. Seq(X) \subseteq T
    <2> HIDE DEF T
    <2> QED BY <1>1, <1>2, SequencesUp
  <1> QED BY <1>3

LEMMA TrimAppend ==
    ASSUME NEW X, NEW path \in Seq(X), NEW x \in X
    PROVE  /\ WithoutSlashes(<<>>) = <<>>
           /\ WithoutSlashes(Append(path, x)) =
                IF x = Slash THEN WithoutSlashes(path) ELSE Append(path, x)
           /\ WithoutSlashes(path) \in Seq(X)
  <1> DEFINE longer == Append(path, x)
             N == Len(path)
  <1>1. /\ longer \in Seq(X) /\ Len(longer) = N + 1 /\ N \in Nat
        /\ \A n \in 1 .. N : longer[n] = path[n]
    BY AppendProperties
  <1>2. \A s : WithoutSlashes(s) = SubSeq(s, 1, Max(Ends(s)))
    BY DEF WithoutSlashes, Ends
  <1>3. WithoutSlashes(<<>>) = <<>>
    <2>1. Ends(<<>>) = {0}
      BY EmptySeq DEF Ends
    <2>2. Max({0}) = 0
      BY DEF Max
    <2>3. SubSeq(<<>>, 1, 0) = <<>>
      BY SubSeqEmpty
    <2> QED BY <1>2, <2>1, <2>2, <2>3
  <1>4. Max(Ends(path)) \in 0 .. N
    BY EndsWithin
  <1> DEFINE m == Max(Ends(path))
  <1>5. ASSUME x = Slash PROVE WithoutSlashes(longer) = WithoutSlashes(path)
    <2>1. Max(Ends(longer)) = m
      BY <1>5, EndsAppend
    <2> HIDE DEF m, longer
    <2>2. SubSeq(longer, 1, m) = SubSeq(path, 1, m)
      <3>1. \A n \in 1 .. m : longer[n] = path[n]
        BY <1>1, <1>4 DEF m
      <3>2. m \in Nat
        BY <1>4 DEF m
      <3> QED BY <3>1, <3>2, <1>1
    <2> QED BY <1>2, <2>1, <2>2 DEF m
  <1>6. ASSUME x # Slash PROVE WithoutSlashes(longer) = longer
    <2>1. Max(Ends(longer)) = Len(longer)
      BY <1>1, <1>6, EndsAppend
    <2> HIDE DEF longer
    <2> QED BY <1>1, <1>2, <2>1, SubSeqFull
  <1>7. WithoutSlashes(path) \in Seq(X)
    <2>1. \A i \in 1 .. m : path[i] \in X
      BY <1>4, ElementOfSeq, <1>1
    <2>2. 1 \in Int /\ m \in Int
      BY <1>4
    <2>3. SubSeq(path, 1, m) \in Seq(X)
      BY <2>1, <2>2, SubSeqProperties
    <2> QED BY <1>2, <2>3
  <1> QED BY <1>3, <1>5, <1>6, <1>7

\* The names of a path are not changed by the slashes at its end.
LEMMA TrimSplits ==
    ASSUME NEW S, Slash \notin S, NEW path \in Seq(S \cup {Slash})
    PROVE  /\ _split_path(WithoutSlashes(path)) = _split_path(path)
           /\ WithoutSlashes(path) \in Seq(S \cup {Slash})
           /\ WithoutSlashes(path) # <<>> => WithoutSlashes(path)[1] = path[1]
  <1> DEFINE X == S \cup {Slash}
             T == {s \in Seq(X) :
                     /\ _split_path(WithoutSlashes(s)) = _split_path(s)
                     /\ WithoutSlashes(s) \in Seq(X)
                     /\ WithoutSlashes(s) # <<>> => s # <<>> /\ WithoutSlashes(s)[1] = s[1]}
  <1>1. <<>> \in T
    <2>1. <<>> \in Seq(X)
      BY EmptySeq
    <2>2. WithoutSlashes(<<>>) = <<>>
      BY <2>1, TrimAppend
    <2> QED BY <2>1, <2>2
  <1>2. ASSUME NEW s \in Seq(X), NEW e \in X, s \in T PROVE Append(s, e) \in T
    <2>1. /\ Append(s, e) \in Seq(X) /\ Append(s, e) # <<>>
          /\ s # <<>> => Append(s, e)[1] = s[1]
      <3>1. s # <<>> => 1 \in 1 .. Len(s)
        BY EmptySeq
      <3> QED BY <3>1, AppendProperties
    <2>2. CASE e = Slash
      <3>1. WithoutSlashes(Append(s, e)) = WithoutSlashes(s)
        BY <2>2, TrimAppend
      <3>2. _split_path(Append(s, e)) = _split_path(s)
        BY <2>2, SplitAppend
      <3> QED BY <1>2, <2>1, <3>1, <3>2
    <2>3. CASE e # Slash
      <3>1. WithoutSlashes(Append(s, e)) = Append(s, e)
        BY <2>3, TrimAppend
      <3> QED BY <2>1, <3>1
    <2> QED BY <2>2, <2>3
  <1>3. Seq(X) \subseteq T
    <2> HIDE DEF T, X
    <2> QED BY <1>1, <1>2, SequencesUp
  <1> QED BY <1>3

LEMMA FrontOfAppend ==
    ASSUME NEW X, NEW t \in Seq(X), NEW y \in X
    PROVE  Front(Append(t, y)) = t
  <1>1. /\ Len(Append(t, y)) = Len(t) + 1 /\ Len(t) \in Nat /\ Append(t, y) \in Seq(X)
        /\ \A i \in 1 .. Len(t) : Append(t, y)[i] = t[i]
    BY AppendProperties
  <1>2. Front(Append(t, y)) = SubSeq(Append(t, y), 1, Len(t))
    BY <1>1 DEF Front
  <1>3. /\ Front(Append(t, y)) \in Seq(X) /\ Len(Front(Append(t, y))) = Len(t)
        /\ \A i \in 1 .. Len(t) : Front(Append(t, y))[i] = t[i]
    BY <1>1, <1>2
  <1> QED BY <1>3, SeqEqual

\* A path that fs_create looks up is its directory's and one name more.
LEMMA DirnameIs ==
    ASSUME NEW S, Slash \notin S, NEW path \in Seq(S \cup {Slash}), MayLookUp(path)
    PROVE  /\ Last(path) \in S
           /\ _split_path(_dirname(path)) \in Seq(S)
           /\ _split_path(path) = Append(_split_path(_dirname(path)), Last(path))
           /\ PATH_OK(_dirname(path))
           /\ _dirname(path) \in Seq(S \cup {Slash})
           /\ _basename(path) # NULL => _basename(path) = Last(path)
  <1> DEFINE X == S \cup {Slash}
             x == Last(path)
  <1>1. path # <<>> /\ path[1] = Slash /\ x # Slash /\ x = path[Len(path)]
    BY DEF MayLookUp, PATH_OK, NULL, Last
  <1>2. PICK t \in Seq(X), y \in X : path = Append(t, y)
    BY <1>1, SequenceEmptyOrAppend
  <1>3. /\ Len(path) = Len(t) + 1 /\ Len(t) \in Nat /\ path[Len(t) + 1] = y
        /\ \A i \in 1 .. Len(t) : path[i] = t[i]
    BY <1>2, AppendProperties
  <1>4. x = y
    BY <1>1, <1>3
  <1>5. t # <<>> /\ t[1] = Slash
    <2>1. Len(t) # 0
      BY <1>1, <1>3, <1>4
    <2>2. 1 \in 1 .. Len(t)
      BY <1>3, <2>1
    <2> QED BY <1>1, <1>3, <2>1, <2>2
  <1>6. Front(path) = t
    BY <1>2, FrontOfAppend
  <1>7. WithoutSlashes(path) = path
    <2>1. WithoutSlashes(Append(t, y)) =
            IF y = Slash THEN WithoutSlashes(t) ELSE Append(t, y)
      BY TrimAppend
    <2> QED BY <1>1, <1>2, <1>4, <2>1
  <1>8. path # <<Slash>>
    BY <1>1, <1>3
  <1>9. PATH_OK(path)
    BY DEF MayLookUp
  <1>10. _dirname(path) = IF WithoutSlashes(t) = <<>> THEN <<Slash>> ELSE WithoutSlashes(t)
    BY <1>1, <1>6, <1>7, <1>8, <1>9 DEF _dirname
  <1>11. /\ _split_path(WithoutSlashes(t)) = _split_path(t)
         /\ WithoutSlashes(t) \in Seq(X)
         /\ WithoutSlashes(t) # <<>> => WithoutSlashes(t)[1] = Slash
    BY <1>5, TrimSplits
  <1>12. <<Slash>> \in Seq(X) /\ _split_path(<<Slash>>) = _split_path(<<>>)
    <2>1. <<>> \in Seq(X) /\ Slash \in X
      BY EmptySeq
    <2>2. Append(<<>>, Slash) = <<Slash>>
      OBVIOUS
    <2>3. Append(<<>>, Slash) \in Seq(X)
      BY <2>1, AppendProperties
    <2>4. _split_path(Append(<<>>, Slash)) = _split_path(<<>>)
      BY <2>1, SplitAppend
    <2> QED BY <2>2, <2>3, <2>4
  <1>13. /\ _split_path(_dirname(path)) = _split_path(t)
         /\ PATH_OK(_dirname(path)) /\ _dirname(path) \in Seq(X)
    <2>1. CASE WithoutSlashes(t) = <<>>
      <3>1. _dirname(path) = <<Slash>> /\ _split_path(t) = _split_path(<<>>)
        BY <1>10, <1>11, <2>1
      <3>2. PATH_OK(<<Slash>>)
        BY DEF PATH_OK, NULL
      <3> QED BY <1>12, <3>1, <3>2
    <2>2. CASE WithoutSlashes(t) # <<>>
      BY <1>10, <1>11, <2>2 DEF PATH_OK, NULL
    <2> QED BY <2>1, <2>2
  <1>14. _split_path(t) \in Seq(S) /\ _split_path(path) = Append(_split_path(t), x)
    <2>1. /\ _split_path(t) \in Seq(S)
          /\ _split_path(Append(t, y)) = IF y = Slash THEN _split_path(t)
                                         ELSE Append(_split_path(t), y)
      BY SplitAppend
    <2> QED BY <1>1, <1>2, <1>4, <2>1
  <1>15. x \in S
    BY <1>1, <1>4
  <1>16. _basename(path) # NULL => _basename(path) = x
    BY <1>1, <1>7 DEF _basename
  <1> QED BY <1>13, <1>14, <1>15, <1>16

-----------------------------------------------------------------------------
(* What a step does to the directories.                                    *)

\* Only WriteParent changes a directory that has files.
LEMMA FilledStays ==
    ASSUME IInv, IInv', [Next]_vars, ~WriteParent
    PROVE  Filled' = Filled /\ \A i \in Filled : inodes'[i] = inodes[i]
  <1>1. TypeInv /\ InodeInv /\ TypeInv' /\ InodeInv'
    BY DEF IInv
  <1>2. CASE UNCHANGED <<inode_map, inodes>>
    BY <1>1, <1>2, FilledKept
  <1>3. CASE AllocInode \/ FreeInode
    <2>1. inodes' = inodes
      BY <1>3 DEF AllocInode, FreeInode
    <2>2. \A i \in (inode_map \ inode_map') \cup (inode_map' \ inode_map) :
            inodes[i].file_size = 0
      <3>1. CASE AllocInode
        BY <1>1, <3>1 DEF AllocInode, block_store_sub_allocate, IsFirstFree, InodeInv
      <3>2. CASE FreeInode
        BY <1>1, <3>2 DEF FreeInode, At, block_store_sub_release, InodeInv, HasInum
      <3> QED BY <1>3, <3>1, <3>2
    <2> QED BY <1>1, <2>1, <2>2, FilledKept
  <1>4. CASE WriteInode
    <2>1. /\ call.pc = "inode" /\ inode_map' = inode_map
          /\ inodes' = [inodes EXCEPT ![call.inum] = NewInode(call.type)]
      BY <1>4 DEF WriteInode, At, block_store_inode_write
    <2>2. call.inum \in Inums /\ inodes[call.inum].file_size = 0
      BY <1>1, <2>1 DEF InodeInv, HasInum, TypeInv
    <2>3. inodes'[call.inum].file_size = 0
      <3>1. inodes'[call.inum] = NewInode(call.type)
        BY <1>1, <2>1, <2>2 DEF TypeInv
      <3> QED BY <3>1 DEF NewInode
    <2>4. \A i \in inode_map : i # call.inum => inodes'[i] = inodes[i]
      BY <1>1, <2>1 DEF TypeInv
    <2>5. ASSUME NEW i PROVE i \in Filled' <=> i \in Filled
      BY <1>1, <2>1, <2>2, <2>3, <2>4, FilledIs, FilledIsNext
    <2>6. \A i \in Filled : i \in inode_map /\ i # call.inum
      BY <1>1, <2>2, FilledIs
    <2> QED BY <2>4, <2>5, <2>6
  <1>5. Next => \/ UNCHANGED <<inode_map, inodes>> \/ AllocInode \/ FreeInode
                \/ WriteInode \/ WriteParent
    BY DEF Next, CreateStep, Verified_fails, FreeBlock, WriteEntries, device, fs_create,
           CreateRefused, fs_get_dir, file_takes_block, file_gives_block, fs_unmount,
           fs_mount, Crash
  <1> QED BY <1>2, <1>3, <1>4, <1>5 DEF vars

\* And only WriteEntries changes entries.
LEMMA DentsStay == ASSUME [Next]_vars PROVE dents' = dents \/ WriteEntries
  BY DEF Next, CreateStep, AllocInode, WriteInode, WriteParent, FreeInode, Verified_fails,
         FreeBlock, device, fs_create, CreateRefused, fs_get_dir, file_takes_block,
         file_gives_block, fs_unmount, fs_mount, Crash, vars

\* The block of entries a call has is its parent's, if it is a directory's.
LEMMA EntryBlockOf ==
    ASSUME IInv, call.pc # "idle"
    PROVE  /\ \A i \in Filled : inodes[i].data_direct = call.node.data_direct =>
                i = call.parent /\ ~call.is_new
           /\ ~call.is_new => /\ call.parent \in Filled
                              /\ inodes[call.parent].data_direct = call.node.data_direct
           /\ call.is_new => /\ call.parent \notin Filled
                             /\ inodes[call.parent].dir_entry_map = {}
  <1>1. TypeInv /\ CallInv /\ InodeInv /\ ParentInv /\ EntryBlocksApart
    BY DEF IInv
  <1>2. call.parent \in Inums /\ inodes[call.parent].file_size \in Nat
    BY <1>1 DEF ParentInv, TypeInv, Inode
  <1>3. ASSUME ~call.is_new
        PROVE  call.parent \in Filled /\ inodes[call.parent].data_direct = call.node.data_direct
    <2>1. /\ call.node.data_direct = inodes[call.parent].data_direct
          /\ call.parent \in inode_map /\ inodes[call.parent].file_type = "d"
          /\ inodes[call.parent].file_size # 0
      BY <1>1, <1>3 DEF ParentInv
    <2> QED BY <1>1, <1>2, <2>1, FilledIs
  <1>4. ASSUME call.is_new
        PROVE  call.parent \notin Filled /\ inodes[call.parent].dir_entry_map = {}
    BY <1>1, <1>2, <1>4, FilledIs DEF ParentInv, InodeInv
  <1>5. ASSUME NEW i \in Filled, inodes[i].data_direct = call.node.data_direct
        PROVE  i = call.parent /\ ~call.is_new
    <2>1. ~call.is_new
      BY <1>1, <1>5 DEF EntryBlocksApart, NewBlocks
    <2> QED BY <1>1, <1>3, <1>5, <2>1 DEF EntryBlocksApart
  <1> QED BY <1>3, <1>4, <1>5

\* WriteEntries changes entries of the parent alone.
LEMMA EntriesWritten ==
    ASSUME IInv, WriteEntries
    PROVE  \A i \in Filled :
             dents'[inodes[i].data_direct] =
               IF i = call.parent THEN call.entries ELSE dents[inodes[i].data_direct]
  <1> SUFFICES ASSUME NEW i \in Filled
               PROVE  dents'[inodes[i].data_direct] =
                        IF i = call.parent THEN call.entries ELSE dents[inodes[i].data_direct]
    OBVIOUS
  <1>1. TypeInv /\ CallInv
    BY DEF IInv
  <1>2. call.pc = "entries" /\ dents' = [dents EXCEPT ![call.node.data_direct] = call.entries]
    BY DEF WriteEntries, At
  <1>3. call.node.data_direct \in Blocks
    BY <1>1 DEF CallInv, Inode
  <1>4. dents'[call.node.data_direct] = call.entries
    BY <1>1, <1>2, <1>3 DEF TypeInv
  <1>5. CASE i = call.parent
    <2>1. inodes[i].data_direct = call.node.data_direct
      BY <1>2, <1>5, EntryBlockOf DEF IInv, CallInv
    <2> QED BY <1>4, <1>5, <2>1
  <1>6. CASE i # call.parent
    <2>1. inodes[i].data_direct # call.node.data_direct
      BY <1>2, <1>6, EntryBlockOf
    <2> QED BY <1>1, <1>2, <1>6, <2>1 DEF TypeInv
  <1> QED BY <1>5, <1>6

\* Nothing but WriteParent changes what the directories list.
LEMMA LinksSame ==
    ASSUME IInv, IInv', [Next]_vars, ~WriteParent
    PROVE  Links' = Links
  <1>1. Filled' = Filled /\ \A i \in Filled : inodes'[i] = inodes[i]
    BY FilledStays
  <1>2. \A i \in Filled : \A s \in inodes[i].dir_entry_map :
          dents'[inodes[i].data_direct][s] = dents[inodes[i].data_direct][s]
    <2>1. CASE WriteEntries
      <3>1. call.pc = "entries"
        BY <2>1 DEF WriteEntries, At
      <3>2. ASSUME call.parent \in Filled, NEW s \in inodes[call.parent].dir_entry_map
            PROVE  call.entries[s] = dents[inodes[call.parent].data_direct][s]
        <4>1. ~call.is_new
          BY <3>1, <3>2, EntryBlockOf
        <4>2. inodes[call.parent].data_direct = call.node.data_direct
          BY <3>1, <4>1, EntryBlockOf
        <4>3. call.entries[s] = dents[call.node.data_direct][s]
          BY <3>1, <3>2, <4>1 DEF IInv, EntriesInv
        <4> QED BY <4>2, <4>3
      <3>3. call.parent \in Filled => \A s \in inodes[call.parent].dir_entry_map :
              call.entries[s] = dents[inodes[call.parent].data_direct][s]
        BY <3>2
      <3> QED BY <2>1, <3>3, EntriesWritten
    <2> QED BY <2>1, DentsStay
  <1>3. ASSUME NEW link PROVE link \in Links' <=> link \in Links
    BY <1>1, <1>2, LinksAre, LinksAreNext
  <1>4. \A link \in Links' : link \in Links
    BY <1>3
  <1> QED BY <1>3, <1>4

-----------------------------------------------------------------------------
(* What lookup finds in a directory that has files, it lists.              *)

\* The slots with names are those of the map, but for what WriteParent is
\* about to add to it.
NameIn(i, s) == dents[inodes[i].data_direct][s].filename

MarkInv ==
    /\ \A i \in Filled : \A s \in Slots :
         /\ s \in inodes[i].dir_entry_map => NameIn(i, s) # NoName
         /\ NameIn(i, s) # NoName =>
              s \in inodes[i].dir_entry_map \/ (InWindow /\ i = call.parent)
    /\ call.pc \in {"entries", "parent"} => \A s \in Slots :
         call.entries[s].filename # NoName <=> s \in call.node.dir_entry_map

\* The entry of a call, and the inode it stands for.
NewInv ==
    /\ HasInum => _basename(call.path) # NULL
    /\ call.pc \in {"entries", "parent"} =>
         /\ inodes[call.inum] = NewInode(call.type)
         /\ \E s \in MapSlots \ inodes[call.parent].dir_entry_map :
              /\ call.node.dir_entry_map = inodes[call.parent].dir_entry_map \cup {s}
              /\ call.entries[s] = [filename |-> _basename(call.path), inum |-> call.inum]

\* The local copies after the new entry is in them.
LEMMA EntryMarked ==
    ASSUME TInv, MarkInv, WriteInode, NEW s \in MapSlots, EntrySlot(s),
           call' = [call EXCEPT !.pc = "entries",
                   !.node.dir_entry_map = @ \cup {s},
                   !.node.file_size = @ + 1,
                   !.entries[s] = [filename |-> _basename(call.path), inum |-> call.inum]]
    PROVE  /\ s \notin inodes[call.parent].dir_entry_map
           /\ call'.node.dir_entry_map = inodes[call.parent].dir_entry_map \cup {s}
           /\ call'.entries[s] = [filename |-> _basename(call.path), inum |-> call.inum]
           /\ \A t \in Slots :
                call'.entries[t].filename # NoName <=> t \in call'.node.dir_entry_map
  <1> DEFINE entry == [filename |-> _basename(call.path), inum |-> call.inum]
             map == inodes[call.parent].dir_entry_map
  <1>1. /\ TypeInv /\ CallInv /\ ParentInv /\ EntriesInv /\ IInv
        /\ call.pc = "inode"
    BY DEF TInv, IInv, WriteInode, At
  <1>2. call.node.dir_entry_map = map /\ s \notin map
        /\ \A t \in MapSlots \ map : s <= t
    BY <1>1 DEF ParentInv, EntrySlot, IsFirstFree
  <1>3. entry.filename \in Names /\ entry.filename # NoName
    <2>1. entry.filename \in Names
      BY <1>1, BasenameIsName DEF TInv, PathInv
    <2> QED BY <2>1, NameAssumption
  <1>4. call'.node.dir_entry_map = map \cup {s}
    BY <1>1, <1>2 DEF CallInv, Inode
  <1>5. call'.entries = [call.entries EXCEPT ![s] = entry]
    BY <1>1 DEF CallInv
  <1>6. s \in Slots
    BY Shape
  <1>7. /\ call'.entries[s] = entry
        /\ \A t \in Slots : t # s => call'.entries[t] = call.entries[t]
    BY <1>1, <1>5, <1>6 DEF CallInv, IsEntries
  <1> HIDE DEF entry
  <1>8. \A t \in Slots : t # s => (call.entries[t].filename # NoName <=> t \in map)
    <2>1. CASE call.is_new
      <3>1. map = {}
        BY <1>1, <2>1, EntryBlockOf
      <3>2. s = 0
        BY <1>2, <3>1, Shape
      <3> QED BY <1>1, <2>1, <3>1, <3>2 DEF EntriesInv
    <2>2. CASE ~call.is_new
      <3>1. call.parent \in Filled /\ inodes[call.parent].data_direct = call.node.data_direct
        BY <1>1, <2>2, EntryBlockOf
      <3>2. call.entries = dents[call.node.data_direct]
        BY <1>1, <2>2 DEF EntriesInv
      <3>3. ~InWindow
        BY <1>1 DEF InWindow
      <3> QED BY <3>1, <3>2, <3>3 DEF MarkInv, NameIn
    <2> QED BY <2>1, <2>2
  <1>9. \A t \in Slots : call'.entries[t].filename # NoName <=> t \in call'.node.dir_entry_map
    BY <1>3, <1>4, <1>7, <1>8
  <1> QED BY <1>2, <1>4, <1>7, <1>9 DEF entry

\* Steps that leave the directories alone, with no entry under way.
LEMMA MarkKept ==
    ASSUME MarkInv, UNCHANGED dents, Filled' = Filled,
           \A i \in Filled : inodes'[i] = inodes[i],
           ~InWindow \/ UNCHANGED call,
           call'.pc \notin {"entries", "parent"} \/ UNCHANGED call
    PROVE  MarkInv'
  <1>1. \A i \in Filled : \A s \in Slots : NameIn(i, s)' = NameIn(i, s)
    BY DEF NameIn
  <1>2. UNCHANGED call => InWindow' = InWindow
    BY DEF InWindow
  <1> QED BY <1>1, <1>2 DEF MarkInv

LEMMA MarkInvNext ==
    ASSUME Torn = FALSE, TInv, MarkInv, [Next]_vars, IInv' PROVE MarkInv'
  <1>1. IInv /\ TypeInv /\ CallInv /\ InodeInv /\ ParentInv /\ EntriesInv
    BY DEF TInv, IInv
  <1>2. CASE WriteEntries
    <2>1. /\ call.pc = "entries" /\ inodes' = inodes
          /\ call' = [call EXCEPT !.pc = "parent"]
      BY <1>2 DEF WriteEntries, At
    <2>2. /\ call'.pc = "parent" /\ call'.parent = call.parent /\ call'.node = call.node
          /\ call'.is_new = call.is_new /\ call'.entries = call.entries
      BY <1>1, <2>1 DEF CallInv
    <2>3. Filled' = Filled
      <3>1. ~WriteParent
        BY <2>1 DEF WriteParent, At
      <3> QED BY <1>1, <3>1, FilledStays
    <2>4. \A s \in Slots : call.entries[s].filename # NoName <=> s \in call.node.dir_entry_map
      BY <2>1 DEF MarkInv
    <2>5. inodes[call.parent].dir_entry_map \subseteq call.node.dir_entry_map
      BY <1>1, <2>1 DEF ParentInv
    <2>6. ASSUME NEW i \in Filled', NEW s \in Slots
          PROVE  /\ s \in inodes'[i].dir_entry_map => NameIn(i, s)' # NoName
                 /\ NameIn(i, s)' # NoName =>
                      s \in inodes'[i].dir_entry_map \/ (InWindow' /\ i = call'.parent)
      <3>1. CASE i = call.parent
        <4>1. NameIn(i, s)' = call.entries[s].filename
          BY <1>1, <1>2, <2>1, <2>3, <2>6, <3>1, EntriesWritten DEF NameIn
        <4>2. InWindow'
          BY <1>1, <2>1, <2>2, <2>3, <2>6, <3>1, EntryBlockOf DEF InWindow
        <4> QED BY <2>1, <2>2, <2>4, <2>5, <3>1, <4>1, <4>2
      <3>2. CASE i # call.parent
        <4>1. NameIn(i, s)' = NameIn(i, s)
          BY <1>1, <1>2, <2>1, <2>3, <2>6, <3>2, EntriesWritten DEF NameIn
        <4> QED BY <2>1, <2>3, <2>6, <3>2, <4>1 DEF MarkInv
      <3> QED BY <3>1, <3>2
    <2> QED BY <2>2, <2>4, <2>6 DEF MarkInv
  <1>3. CASE WriteParent
    <2>1. /\ call.pc = "parent" /\ inode_map' = inode_map /\ dents' = dents /\ call' = Idle
          /\ inodes' = [inodes EXCEPT ![call.parent] = call.node]
      BY <1>3 DEF WriteParent, At, Return, block_store_inode_write
    <2>2. call.parent \in inode_map /\ call.parent \in Inums
      BY <1>1, <2>1 DEF ParentInv, TypeInv
    <2>3. /\ inodes'[call.parent] = call.node
          /\ \A i \in inode_map : i # call.parent => inodes'[i] = inodes[i]
      BY <1>1, <2>1, <2>2 DEF TypeInv
    <2>4. TypeInv' /\ InodeInv'
      BY DEF IInv
    <2>5. \A i \in Filled' : i # call.parent => i \in Filled /\ inodes'[i] = inodes[i]
      BY <1>1, <2>1, <2>3, <2>4, FilledIs, FilledIsNext
    <2>6. dents[call.node.data_direct] = call.entries
      BY <1>1, <2>1 DEF EntriesInv
    <2>7. ASSUME NEW i \in Filled', NEW s \in Slots
          PROVE  s \in inodes'[i].dir_entry_map <=> NameIn(i, s)' # NoName
      <3>1. CASE i = call.parent
        <4>1. NameIn(i, s)' = call.entries[s].filename
          BY <2>1, <2>3, <2>6, <3>1 DEF NameIn
        <4> QED BY <2>1, <2>3, <3>1, <4>1 DEF MarkInv
      <3>2. CASE i # call.parent
        <4>1. i \in Filled /\ inodes'[i] = inodes[i]
          BY <2>5, <3>2
        <4>2. NameIn(i, s)' = NameIn(i, s)
          BY <2>1, <4>1 DEF NameIn
        <4> QED BY <3>2, <4>1, <4>2 DEF MarkInv
      <3> QED BY <3>1, <3>2
    <2>8. call'.pc = "idle"
      BY <2>1 DEF Idle
    <2> QED BY <2>7, <2>8 DEF MarkInv
  <1>4. CASE ~WriteEntries /\ ~WriteParent
    <2>1. /\ dents' = dents /\ Filled' = Filled
          /\ \A i \in Filled : inodes'[i] = inodes[i]
      BY <1>1, <1>4, DentsStay, FilledStays
    <2>2. ASSUME WriteInode, NEW s \in MapSlots, EntrySlot(s),
                 call' = [call EXCEPT !.pc = "entries",
                   !.node.dir_entry_map = @ \cup {s},
                   !.node.file_size = @ + 1,
                   !.entries[s] = [filename |-> _basename(call.path), inum |-> call.inum]]
          PROVE  MarkInv'
      <3>1. \A t \in Slots :
                call'.entries[t].filename # NoName <=> t \in call'.node.dir_entry_map
        BY <2>2, EntryMarked
      <3>2. ~InWindow
        BY <2>2 DEF WriteInode, At, InWindow
      <3>3. \A i \in Filled : \A t \in Slots : NameIn(i, t)' = NameIn(i, t)
        BY <2>1 DEF NameIn
      <3> QED BY <2>1, <3>1, <3>2, <3>3 DEF MarkInv
    <2>3. CASE \/ UNCHANGED call
               \/ call'.pc \notin {"entries", "parent"} /\ ~InWindow
      BY <2>1, <2>3, MarkKept
    <2>4. CASE Crash
      BY <2>1, <2>4, MarkKept, IdleIs DEF Crash
    <2>5. CASE CreateStep
      <3>1. CASE WriteInode
        <4>1. ~InWindow /\ CallInv
          BY <1>1, <3>1 DEF WriteInode, At, InWindow
        <4>2. CASE call' = [call EXCEPT !.pc = "free inode"]
          BY <2>3, <4>1, <4>2 DEF CallInv
        <4> QED BY <2>2, <3>1, <4>2 DEF WriteInode
      <3>2. CASE AllocInode \/ Verified_fails \/ FreeInode \/ FreeBlock
        BY <1>1, <2>3, <3>2, IdleIs DEF AllocInode, Verified_fails, FreeInode, FreeBlock, At,
           Return, InWindow, CallInv
      <3> QED BY <1>4, <2>5, <3>1, <3>2 DEF CreateStep
    <2>6. CASE \E path \in Paths : \/ \E type \in Types : fs_create(path, type)
                                   \/ CreateRefused(path)
      <3>1. ~InWindow
        BY <2>6 DEF fs_create, CreateRefused, Quiet, InWindow
      <3>2. call'.pc \in {"idle", "verify"}
        <4>1. ASSUME NEW path \in Paths, NEW type \in Types, fs_create(path, type)
              PROVE  call'.pc = "verify"
          BY <4>1 DEF fs_create, Idle
        <4>2. ASSUME NEW path \in Paths, CreateRefused(path) PROVE call'.pc = "idle"
          BY <4>2, IdleIs DEF CreateRefused, Return
        <4> QED BY <2>6, <4>1, <4>2
      <3> QED BY <2>3, <3>1, <3>2
    <2> QED BY <2>3, <2>4, <2>5, <2>6 DEF Next, vars, file_takes_block, file_gives_block,
               fs_unmount, fs_mount, fs_get_dir
  <1> QED BY <1>2, <1>3, <1>4

\* Before the first file of a directory, nothing is marked.
LEMMA InitMarkInv == Init => MarkInv
  <1> SUFFICES ASSUME Init PROVE MarkInv
    OBVIOUS
  <1>1. call.pc = "idle"
    BY IdleIs DEF Init
  <1>2. \A i \in Inums : inodes[i].file_size = 0
    BY NewInodeType DEF Init, Types
  <1>3. Filled = {}
    BY <1>2, InitInv, FilledIs DEF IInv, TypeInv
  <1> QED BY <1>1, <1>3 DEF MarkInv

LEMMA AlwaysMarkInv == ASSUME Torn = FALSE PROVE Spec => []MarkInv
  <1>1. TInv /\ TInv' /\ MarkInv /\ [Next]_vars => MarkInv'
    BY MarkInvNext DEF TInv
  <1> QED BY <1>1, InitMarkInv, AlwaysTInv, PTL DEF Spec

\* What is found under a name is in a slot that has the name.
LEMMA FoundAt ==
    ASSUME NEW E, NEW name, _inode_find_child(E, name) # NONE
    PROVE  \E s \in Slots : E[s].filename = name /\ _inode_find_child(E, name) = E[s].inum
  <1> DEFINE found == {s \in Slots : E[s].filename = name}
             least == CHOOSE s \in found : \A t \in found : s <= t
  <1>1. found # {}
    BY DEF _inode_find_child
  <1>2. \E s \in found : \A t \in found : s <= t
    <2>1. found \subseteq Nat
      BY Shape
    <2> QED BY <1>1, <2>1, LeastExists
  <1>3. least \in found
    BY <1>2
  <1>4. _inode_find_child(E, name) = E[least].inum
    BY <1>1 DEF _inode_find_child
  <1> QED BY <1>3, <1>4

\* An inode with files has its entries in a block, between calls as in them.
LEMMA FilledLoads ==
    ASSUME TInv, NEW i \in Filled
    PROVE  /\ _inode_dir_load(inodes[i]) = dents[inodes[i].data_direct]
           /\ i \in inode_map /\ i \in Inums /\ inodes[i].file_type = "d"
           /\ inodes[i].data_direct \in Blocks
           /\ inodes[i].dir_entry_map \subseteq Slots
           /\ \A s \in Slots :
                /\ dents[inodes[i].data_direct][s].filename \in Names \cup {NoName}
                /\ dents[inodes[i].data_direct][s].inum \in Inums
                /\ dents[inodes[i].data_direct][s] =
                     [filename |-> dents[inodes[i].data_direct][s].filename,
                      inum     |-> dents[inodes[i].data_direct][s].inum]
  <1>1. IInv /\ TypeInv /\ InodeInv /\ EntryBlocksApart /\ ValueInv
    BY DEF TInv, IInv
  <1>2. i \in inode_map /\ i \in Inums /\ inodes[i].file_type = "d"
    BY <1>1, FilledIs DEF TypeInv
  <1>3. inodes[i] \in Inode
    BY <1>1, <1>2 DEF TypeInv
  <1>4. inodes[i].data_direct \in Blocks /\ inodes[i].dir_entry_map \subseteq Slots
    BY <1>3, Shape DEF Inode
  <1>5. inodes[i].data_direct # 0
    BY <1>1, Shape DEF EntryBlocksApart
  <1>6. \A s \in Slots : dents[inodes[i].data_direct][s] \in directoryFile
    BY <1>1, <1>4 DEF ValueInv, Entries
  <1> QED BY <1>2, <1>4, <1>5, <1>6 DEF _inode_dir_load, directoryFile

LEMMA FindsListed == ASSUME TInv, MarkInv PROVE LookupFindsListed
  <1> SUFFICES ASSUME call.pc = "idle", NEW i \in Filled, NEW name \in Names,
                      _inum_find_child(i, name) # NONE
               PROVE  EntryOf(i, name) \in Listed(i)
    BY DEF LookupFindsListed
  <1> DEFINE E == dents[inodes[i].data_direct]
  <1>1. _inode_dir_load(inodes[i]) = E
    BY FilledLoads
  <1>2. _inum_find_child(i, name) = _inode_find_child(E, name)
    BY <1>1 DEF _inum_find_child
  <1>3. PICK s \in Slots : E[s].filename = name /\ _inode_find_child(E, name) = E[s].inum
    BY <1>2, FoundAt
  <1>4. s \in inodes[i].dir_entry_map
    <2>1. name # NoName
      BY NameAssumption
    <2> QED BY <1>3, <2>1 DEF MarkInv, NameIn, InWindow
  <1>5. EntryOf(i, name) = E[s]
    BY <1>2, <1>3, FilledLoads DEF EntryOf
  <1> QED BY <1>1, <1>4, <1>5 DEF Listed

(* As long as no process dies between the store of the entries and that of *)
(* the parent's inode, what the lookup finds in a directory that has files *)
(* is what fs_get_dir lists (the comments at FS.c:17-18 and 277-280).      *)
THEOREM LookupStaysListed == ASSUME Torn = FALSE PROVE Spec => []LookupFindsListed
  <1>1. TInv /\ MarkInv => LookupFindsListed
    BY FindsListed
  <1> QED BY <1>1, AlwaysTInv, AlwaysMarkInv, PTL

-----------------------------------------------------------------------------
(* Tables that are trees, as far as they are reached from the root.        *)

IsForest(C, D, S) ==
    /\ IsTable(C, D, S)
    /\ Root \in D /\ NONE \in D /\ Root # NONE
    /\ \A x \in S : C[<<NONE, x>>] = NONE
    /\ \A i, j \in D : \A x, y \in S :
         C[<<i, x>>] = C[<<j, y>>] /\ C[<<i, x>>] # NONE => i = j /\ x = y
    /\ \A i \in D : \A x \in S : C[<<i, x>>] # Root

\* No place is reached along two paths.
LEMMA OnePath ==
    ASSUME NEW C, NEW D, NEW S, IsForest(C, D, S), NEW p \in Seq(S), NEW q \in Seq(S),
           Along(C, Root, p) = Along(C, Root, q), Along(C, Root, p) # NONE
    PROVE  p = q
  <1> DEFINE at(r) == Along(C, Root, r)
             T == {r \in Seq(S) : \A t \in Seq(S) : at(r) = at(t) /\ at(r) # NONE => r = t}
  <1>0. at(<<>>) = Root
    BY AlongEmpty
  <1>1. ASSUME NEW r \in Seq(S), NEW x \in S
        PROVE  at(r) \in D /\ at(Append(r, x)) = C[<<at(r), x>>]
    <2>1. IsTable(C, D, S) /\ Root \in D
      BY DEF IsForest
    <2> QED BY <2>1, AlongAppend
  <1> HIDE DEF at
  <1>2. <<>> \in T
    <2>1. <<>> \in Seq(S)
      BY EmptySeq
    <2>2. ASSUME NEW t \in Seq(S), at(t) = Root PROVE t = <<>>
      <3>1. SUFFICES ASSUME t # <<>> PROVE FALSE
        OBVIOUS
      <3>2. PICK r \in Seq(S), x \in S : t = Append(r, x)
        BY <3>1, SequenceEmptyOrAppend
      <3>3. at(t) = C[<<at(r), x>>] /\ at(r) \in D
        BY <1>1, <3>2
      <3>4. \A i \in D : \A y \in S : C[<<i, y>>] # Root
        BY DEF IsForest
      <3> QED BY <2>2, <3>2, <3>3, <3>4
    <2> QED BY <1>0, <2>1, <2>2
  <1>3. ASSUME NEW r \in Seq(S), NEW x \in S, r \in T PROVE Append(r, x) \in T
    <2>1. Append(r, x) \in Seq(S)
      BY AppendProperties
    <2>2. ASSUME NEW t \in Seq(S), at(Append(r, x)) = at(t), at(t) # NONE
          PROVE  Append(r, x) = t
      <3>1. at(Append(r, x)) = C[<<at(r), x>>] /\ at(r) \in D
        BY <1>1
      <3>2. t # <<>>
        BY <1>0, <2>2, <3>1 DEF IsForest
      <3>3. PICK u \in Seq(S), y \in S : t = Append(u, y)
        BY <3>2, SequenceEmptyOrAppend
      <3>4. at(t) = C[<<at(u), y>>] /\ at(u) \in D
        BY <1>1, <3>3
      <3>5. at(r) = at(u) /\ x = y
        <4>1. C[<<at(r), x>>] = C[<<at(u), y>>] /\ C[<<at(r), x>>] # NONE
          BY <2>2, <3>1, <3>4
        <4>2. \A i, j \in D : \A v, w \in S :
                C[<<i, v>>] = C[<<j, w>>] /\ C[<<i, v>>] # NONE => i = j /\ v = w
          BY DEF IsForest
        <4> QED BY <3>1, <3>4, <4>1, <4>2
      <3>6. at(r) # NONE
        BY <2>2, <3>1 DEF IsForest
      <3>7. r = u
        BY <1>3, <3>5, <3>6
      <3> QED BY <3>3, <3>5, <3>7
    <2> QED BY <2>1, <2>2
  <1>4. Seq(S) \subseteq T
    <2> HIDE DEF T
    <2> QED BY <1>2, <1>3, SequencesUp
  <1> QED BY <1>4 DEF at

\* C2 has one entry more than C, that of base in parent, for inum.
HasOneMore(C, C2, D, S, parent, base, inum) ==
    /\ IsForest(C, D, S) /\ IsTable(C2, D, S)
    /\ parent \in D /\ inum \in D /\ base \in S
    /\ parent # NONE /\ parent # inum /\ C[<<parent, base>>] = NONE
    /\ \A x \in S : C[<<inum, x>>] = NONE
    /\ \A i \in D : \A x \in S :
         C2[<<i, x>>] = IF i = parent /\ x = base THEN inum ELSE C[<<i, x>>]

\* A table with one entry more reaches one place more.
LEMMA OneMore ==
    ASSUME NEW C, NEW C2, NEW D, NEW S, NEW parent, NEW base, NEW inum,
           HasOneMore(C, C2, D, S, parent, base, inum),
           NEW dir \in Seq(S), Along(C, Root, dir) = parent,
           NEW p \in Seq(S)
    PROVE  Along(C2, Root, p) =
             IF p = Append(dir, base) THEN inum ELSE Along(C, Root, p)
  <1> DEFINE at(r) == Along(C, Root, r)
             at2(r) == Along(C2, Root, r)
             new == Append(dir, base)
             T == {r \in Seq(S) : at2(r) = IF r = new THEN inum ELSE at(r)}
  <1>0. at(<<>>) = Root /\ at2(<<>>) = Root
    BY AlongEmpty
  <1>1. ASSUME NEW r \in Seq(S), NEW x \in S
        PROVE  /\ at(r) \in D /\ at(Append(r, x)) = C[<<at(r), x>>]
               /\ at2(r) \in D /\ at2(Append(r, x)) = C2[<<at2(r), x>>]
    <2>1. IsTable(C, D, S) /\ IsTable(C2, D, S) /\ Root \in D
      BY DEF HasOneMore, IsForest
    <2>2. at(r) \in D /\ at(Append(r, x)) = C[<<at(r), x>>]
      BY <2>1, AlongAppend
    <2>3. at2(r) \in D /\ at2(Append(r, x)) = C2[<<at2(r), x>>]
      BY <2>1, AlongAppend
    <2> QED BY <2>2, <2>3
  <1>2. at(dir) = parent
    OBVIOUS
  <1>3. \A r, t \in Seq(S) : at(r) = at(t) /\ at(r) # NONE => r = t
    BY OnePath DEF HasOneMore
  <1>4. base \in S
    BY DEF HasOneMore
  <1>5. \A r, t \in Seq(S) : \A x, y \in S : Append(r, x) = Append(t, y) <=> r = t /\ x = y
    BY AppendInjective
  <1>6. new # <<>> /\ new # dir /\ new \in Seq(S)
    BY <1>4, AppendProperties
  <1> HIDE DEF at, at2
  <1>7. <<>> \in T
    BY <1>0, <1>6, EmptySeq
  <1>8. ASSUME NEW r \in Seq(S), NEW x \in S, r \in T PROVE Append(r, x) \in T
    <2>1. Append(r, x) \in Seq(S)
      BY AppendProperties
    <2>2. Append(r, x) = new <=> r = dir /\ x = base
      BY <1>5, <1>4
    <2>3. /\ at(r) \in D /\ at(Append(r, x)) = C[<<at(r), x>>]
          /\ at2(r) \in D /\ at2(Append(r, x)) = C2[<<at2(r), x>>]
      BY <1>1
    <2>4. CASE r = new
      <3>1. at2(r) = inum /\ r # dir
        BY <1>6, <1>8, <2>4
      <3>2. C2[<<inum, x>>] = NONE
        BY DEF HasOneMore
      <3>3. at(r) = NONE
        <4>1. at(Append(dir, base)) = C[<<at(dir), base>>]
          BY <1>1, <1>4
        <4>2. C[<<parent, base>>] = NONE
          BY DEF HasOneMore
        <4> QED BY <1>2, <2>4, <4>1, <4>2
      <3>4. C[<<NONE, x>>] = NONE
        BY DEF HasOneMore, IsForest
      <3> HIDE DEF new
      <3> QED BY <2>1, <2>2, <2>3, <3>1, <3>2, <3>3, <3>4
    <2>5. CASE r # new
      <3>1. at2(r) = at(r)
        BY <1>8, <2>5
      <3>2. C2[<<at(r), x>>] = IF at(r) = parent /\ x = base THEN inum ELSE C[<<at(r), x>>]
        BY <2>3 DEF HasOneMore
      <3>3. at(r) = parent <=> r = dir
        BY <1>2, <1>3 DEF HasOneMore
      <3> HIDE DEF new
      <3> QED BY <2>1, <2>2, <2>3, <3>1, <3>2, <3>3
    <2> QED BY <2>4, <2>5
  <1>9. Seq(S) \subseteq T
    <2> HIDE DEF T
    <2> QED BY <1>7, <1>8, SequencesUp
  <1> QED BY <1>9 DEF at, at2

-----------------------------------------------------------------------------
(* The listed entries as a table.                                          *)

Nodes == Inums \cup {NONE}
Components == Names \cup {NoName}

\* L has each inode under one name of one directory, and each name once in a
\* directory.
GoodLinks(L) ==
    /\ L \subseteq Inums \X [filename : Names, inum : Inums \ {Root}]
    /\ \A l, m \in L : l[2].inum = m[2].inum => l = m
    /\ \A l, m \in L : l[1] = m[1] /\ l[2].filename = m[2].filename => l = m

ChildIn(L, i, name) ==
    IF \E l \in L : l[1] = i /\ l[2].filename = name
    THEN (CHOOSE l \in L : l[1] = i /\ l[2].filename = name)[2].inum
    ELSE NONE

TableOf(L) == [at \in Nodes \X Components |-> ChildIn(L, at[1], at[2])]

LEMMA ChildInIs ==
    ASSUME NEW L, GoodLinks(L), NEW i, NEW name
    PROVE  /\ \A l \in L : l[1] = i /\ l[2].filename = name => ChildIn(L, i, name) = l[2].inum
           /\ ChildIn(L, i, name) # NONE =>
                \E l \in L : /\ l[1] = i /\ l[2].filename = name
                             /\ ChildIn(L, i, name) = l[2].inum
  <1> DEFINE P(l) == l[1] = i /\ l[2].filename = name
             c == CHOOSE l \in L : P(l)
  <1>1. ASSUME NEW l \in L, P(l) PROVE c = l /\ ChildIn(L, i, name) = l[2].inum
    <2>1. c \in L /\ P(c)
      BY <1>1
    <2>2. c = l
      BY <1>1, <2>1 DEF GoodLinks
    <2>3. ChildIn(L, i, name) = c[2].inum
      BY <1>1 DEF ChildIn
    <2> QED BY <2>2, <2>3
  <1>2. ASSUME ChildIn(L, i, name) # NONE PROVE \E l \in L : P(l)
    BY <1>2 DEF ChildIn
  <1> QED BY <1>1, <1>2

LEMMA TableIs ==
    ASSUME NEW L, NEW i \in Nodes, NEW name \in Components
    PROVE  TableOf(L)[<<i, name>>] = ChildIn(L, i, name)
  BY DEF TableOf

LEMMA TableIsForest ==
    ASSUME NEW L, GoodLinks(L)
    PROVE  IsForest(TableOf(L), Nodes, Components)
  <1> DEFINE C == TableOf(L)
  <1>1. \A l \in L : /\ l[1] \in Inums /\ l[2].filename \in Names
                     /\ l[2].inum \in Inums /\ l[2].inum # Root
    BY DEF GoodLinks
  <1>2. Root \in Nodes /\ NONE \in Nodes /\ Root # NONE /\ NONE \notin Inums
    BY Shape DEF Nodes
  <1>3. ASSUME NEW i \in Nodes, NEW x \in Components, C[<<i, x>>] # NONE
        PROVE  \E l \in L : l[1] = i /\ l[2].filename = x /\ C[<<i, x>>] = l[2].inum
    BY <1>3, TableIs, ChildInIs
  <1>4. ASSUME NEW i \in Nodes, NEW x \in Components
        PROVE  C[<<i, x>>] \in Nodes /\ C[<<i, x>>] # Root
    <2>1. CASE C[<<i, x>>] = NONE
      BY <1>2, <2>1
    <2>2. CASE C[<<i, x>>] # NONE
      <3>1. PICK l \in L : C[<<i, x>>] = l[2].inum
        BY <1>3, <2>2
      <3> QED BY <1>1, <3>1 DEF Nodes
    <2> QED BY <2>1, <2>2
  <1>5. ASSUME NEW x \in Components PROVE C[<<NONE, x>>] = NONE
    BY <1>1, <1>2, <1>3
  <1>6. ASSUME NEW i \in Nodes, NEW j \in Nodes, NEW x \in Components, NEW y \in Components,
               C[<<i, x>>] = C[<<j, y>>], C[<<i, x>>] # NONE
        PROVE  i = j /\ x = y
    <2>1. PICK l \in L : l[1] = i /\ l[2].filename = x /\ C[<<i, x>>] = l[2].inum
      BY <1>3, <1>6
    <2>2. PICK m \in L : m[1] = j /\ m[2].filename = y /\ C[<<j, y>>] = m[2].inum
      BY <1>3, <1>6
    <2>3. l = m
      BY <1>6, <2>1, <2>2 DEF GoodLinks
    <2> QED BY <2>1, <2>2, <2>3
  <1> HIDE DEF C
  <1>7. IsTable(C, Nodes, Components)
    BY <1>4 DEF IsTable
  <1>8. \A i, j \in Nodes : \A x, y \in Components :
          C[<<i, x>>] = C[<<j, y>>] /\ C[<<i, x>>] # NONE => i = j /\ x = y
    BY <1>6
  <1>9. \A i \in Nodes : \A x \in Components : C[<<i, x>>] # Root
    BY <1>4
  <1>10. \A x \in Components : C[<<NONE, x>>] = NONE
    BY <1>5
  <1> QED BY <1>2, <1>7, <1>8, <1>9, <1>10 DEF C, IsForest

\* What the listed entries of a state are.
LEMMA LinkIs ==
    ASSUME TInv, MarkInv, NEW link \in Links
    PROVE  \E i \in Filled : \E s \in inodes[i].dir_entry_map :
             /\ link = <<i, EntryAt(<<i, s>>)>>
             /\ <<i, s>> \in Named
             /\ EntryAt(<<i, s>>).filename \in Names
             /\ EntryAt(<<i, s>>) = [filename |-> EntryAt(<<i, s>>).filename,
                                     inum     |-> EntryAt(<<i, s>>).inum]
  <1>1. PICK i \in Filled : \E s \in inodes[i].dir_entry_map :
          link = <<i, dents[inodes[i].data_direct][s]>>
    BY LinksAre DEF TInv
  <1>2. PICK s \in inodes[i].dir_entry_map : link = <<i, dents[inodes[i].data_direct][s]>>
    BY <1>1
  <1>3. s \in Slots
    BY FilledLoads
  <1>4. EntryAt(<<i, s>>) = dents[inodes[i].data_direct][s]
    BY DEF EntryAt
  <1>5. EntryAt(<<i, s>>).filename # NoName
    BY <1>3, <1>4 DEF MarkInv, NameIn
  <1>6. <<i, s>> \in Named
    BY <1>3, <1>5 DEF Named
  <1> QED BY <1>2, <1>3, <1>4, <1>5, <1>6, FilledLoads

LEMMA LinkIsNamed ==
    ASSUME TInv, MarkInv, NEW link \in Links
    PROVE  \E at \in Named : link = <<at[1], EntryAt(at)>>
  <1>1. PICK i \in Filled : \E s \in inodes[i].dir_entry_map :
          link = <<i, EntryAt(<<i, s>>)>> /\ <<i, s>> \in Named
    BY LinkIs
  <1>2. PICK s \in inodes[i].dir_entry_map :
          link = <<i, EntryAt(<<i, s>>)>> /\ <<i, s>> \in Named
    BY <1>1
  <1> QED BY <1>2

LEMMA LinksAreGood ==
    ASSUME TInv, MarkInv
    PROVE  /\ GoodLinks(Links)
           /\ \A l \in Links : l[1] \in Filled /\ l[2].inum \in inode_map
  <1>1. NamesAreLinks /\ Filled \subseteq Inums /\ inode_map \subseteq Inums
    BY FilledLoads DEF TInv, IInv, TypeInv
  <1>2. ASSUME NEW l \in Links
        PROVE  /\ l[1] \in Filled /\ l[2].inum \in inode_map \ {Root}
               /\ l \in Inums \X [filename : Names, inum : Inums \ {Root}]
    <2>1. PICK i \in Filled : \E s \in inodes[i].dir_entry_map :
             /\ l = <<i, EntryAt(<<i, s>>)>>
             /\ <<i, s>> \in Named
             /\ EntryAt(<<i, s>>).filename \in Names
             /\ EntryAt(<<i, s>>) = [filename |-> EntryAt(<<i, s>>).filename,
                                     inum     |-> EntryAt(<<i, s>>).inum]
      BY LinkIs
    <2>2. PICK s \in inodes[i].dir_entry_map :
             /\ l = <<i, EntryAt(<<i, s>>)>>
             /\ <<i, s>> \in Named
             /\ EntryAt(<<i, s>>).filename \in Names
             /\ EntryAt(<<i, s>>) = [filename |-> EntryAt(<<i, s>>).filename,
                                     inum     |-> EntryAt(<<i, s>>).inum]
      BY <2>1
    <2>3. EntryAt(<<i, s>>).inum \in inode_map \ {Root}
      BY <1>1, <2>2 DEF NamesAreLinks
    <2> QED BY <1>1, <2>2, <2>3
  <1>3. ASSUME NEW l \in Links, NEW m \in Links,
               l[2].inum = m[2].inum \/ (l[1] = m[1] /\ l[2].filename = m[2].filename)
        PROVE  l = m
    <2>1. PICK at \in Named : l = <<at[1], EntryAt(at)>>
      BY LinkIsNamed
    <2>2. PICK to \in Named : m = <<to[1], EntryAt(to)>>
      BY LinkIsNamed
    <2>3. at = to
      BY <1>1, <1>3, <2>1, <2>2 DEF NamesAreLinks
    <2> QED BY <2>1, <2>2, <2>3
  <1> QED BY <1>2, <1>3 DEF GoodLinks

LEMMA ListsIs ==
    ASSUME TInv, MarkInv, NEW i \in Dirs
    PROVE  /\ \A entry \in Listed(i) : <<i, entry>> \in Links
           /\ \A l \in Links : l[1] = i => l[2] \in Listed(i)
  <1>1. IInv /\ TypeInv /\ InodeInv
    BY DEF TInv, IInv
  <1>2. CASE i \in Filled
    BY <1>2 DEF Links
  <1>3. CASE i \notin Filled
    <2>1. i \in Inums /\ ~(inodes[i].file_size > 0)
      BY <1>1, <1>3 DEF Filled, Dirs, TypeInv
    <2>2. inodes[i].file_size \in Nat
      BY <1>1, <2>1 DEF TypeInv, Inode
    <2>3. inodes[i].dir_entry_map = {}
      BY <1>1, <2>1, <2>2 DEF InodeInv
    <2>4. Listed(i) = {}
      BY <2>3 DEF Listed
    <2> QED BY <1>3, <2>4, LinksAreGood
  <1>4. ASSUME NEW l \in Links, l[1] = i PROVE l[2] \in Listed(i)
    <2>1. PICK j \in Filled : \E entry \in Listed(j) : l = <<j, entry>>
      BY DEF Links
    <2> QED BY <1>4, <2>1
  <1> QED BY <1>2, <1>3, <1>4

LEMMA ListedChildIs ==
    ASSUME TInv, MarkInv, NEW i, NEW name
    PROVE  ListedChild(i, name) = ChildIn(Links, i, name)
  <1>1. GoodLinks(Links)
    BY LinksAreGood
  <1>2. \A l \in Links : l = <<l[1], l[2]>>
    BY <1>1 DEF GoodLinks
  <1>3. Filled \subseteq Dirs
    BY DEF Filled
  <1>4. CASE i \notin Dirs
    <2>1. ListedChild(i, name) = NONE
      BY <1>4 DEF ListedChild
    <2>2. ~ \E l \in Links : l[1] = i
      BY <1>3, <1>4, LinksAreGood
    <2> QED BY <2>1, <2>2 DEF ChildIn
  <1>5. CASE i \in Dirs
    <2>1. CASE \E entry \in Listed(i) : entry.filename = name
      <3> DEFINE c == CHOOSE entry \in Listed(i) : entry.filename = name
      <3>1. c \in Listed(i) /\ c.filename = name
        BY <2>1
      <3>2. ListedChild(i, name) = c.inum
        BY <1>5, <2>1 DEF ListedChild
      <3>3. <<i, c>> \in Links
        BY <1>5, <3>1, ListsIs
      <3> HIDE DEF c
      <3> QED BY <1>1, <3>1, <3>2, <3>3, ChildInIs
    <2>2. CASE ~ \E entry \in Listed(i) : entry.filename = name
      <3>1. ListedChild(i, name) = NONE
        BY <1>5, <2>2 DEF ListedChild
      <3>2. ~ \E l \in Links : l[1] = i /\ l[2].filename = name
        BY <1>5, <2>2, ListsIs
      <3> QED BY <3>1, <3>2 DEF ChildIn
    <2> QED BY <2>1, <2>2
  <1> QED BY <1>4, <1>5

\* The place of the file that has these names on the way to it.
Place(L, names) == Along(TableOf(L), Root, names)

LEMMA PlaceIs ==
    ASSUME NEW L, GoodLinks(L), NEW p \in Seq(Components), NEW x \in Components
    PROVE  /\ Place(L, <<>>) = Root
           /\ Place(L, p) \in Nodes
           /\ Place(L, Append(p, x)) = ChildIn(L, Place(L, p), x)
  <1>1. IsTable(TableOf(L), Nodes, Components) /\ Root \in Nodes
    BY TableIsForest DEF IsForest
  <1>2. Place(L, <<>>) = Root
    BY AlongEmpty DEF Place
  <1>3. Place(L, p) \in Nodes /\ Place(L, Append(p, x)) = TableOf(L)[<<Place(L, p), x>>]
    BY <1>1, AlongAppend DEF Place
  <1> QED BY <1>2, <1>3, TableIs

\* A recursive function along names that goes from node to child by L is its place.
LEMMA PlaceByChildren ==
    ASSUME NEW L, GoodLinks(L), NEW S, S \subseteq Components, NEW names \in Seq(S),
           NEW f, f[0] = Root,
           \A n \in 1 .. Len(names) : f[n - 1] \in Nodes => f[n] = ChildIn(L, f[n - 1], names[n])
    PROVE  f[Len(names)] = Place(L, names)
  <1>1. IsTable(TableOf(L), Nodes, Components) /\ Root \in Nodes
    BY TableIsForest DEF IsForest
  <1>2. names \in Seq(Components)
    OBVIOUS
  <1>3. ASSUME NEW n \in 1 .. Len(names), f[n - 1] \in Nodes
        PROVE  f[n] = TableOf(L)[<<f[n - 1], names[n]>>]
    <2>1. names[n] \in Components
      BY <1>2
    <2> QED BY <1>3, <2>1, TableIs
  <1>4. Follows(TableOf(L), Nodes, Root, names, f)
    BY <1>3 DEF Follows
  <1> QED BY <1>1, <1>2, <1>4, AlongIs DEF Place

LEMMA ListedInumIs ==
    ASSUME TInv, MarkInv, NEW names \in Seq(Components)
    PROVE  ListedInum(names) = Place(Links, names)
  <1> DEFINE N == Len(names)
             Rec(g) == g = [n \in 0 .. N |->
                             IF n = 0 THEN Root ELSE ListedChild(g[n - 1], names[n])]
             F == CHOOSE g : Rec(g)
  <1>1. ListedInum(names) = F[N]
    BY DEF ListedInum
  <1>2. Rec(F)
    <2>1. \E f : Goes(TableOf(Links), Root, names, f)
      BY GoesExists
    <2>2. PICK f : Goes(TableOf(Links), Root, names, f)
      BY <2>1
    <2>3. IsTable(TableOf(Links), Nodes, Components) /\ Root \in Nodes
      BY LinksAreGood, TableIsForest DEF IsForest
    <2>4. \A n \in 0 .. N : f[n] \in Nodes
      BY <2>2, <2>3, GoesInside
    <2>5. N \in Nat
      OBVIOUS
    <2>6. ASSUME NEW n \in 0 .. N, n # 0
          PROVE  TableOf(Links)[<<f[n - 1], names[n]>>] = ListedChild(f[n - 1], names[n])
      <3>1. n \in 1 .. N /\ n - 1 \in 0 .. N
        BY <2>5, <2>6
      <3>2. f[n - 1] \in Nodes /\ names[n] \in Components
        BY <2>4, <3>1
      <3> QED BY <3>2, TableIs, ListedChildIs
    <2>7. f = [n \in 0 .. N |->
                 IF n = 0 THEN Root ELSE TableOf(Links)[<<f[n - 1], names[n]>>]]
      BY <2>2 DEF Goes
    <2>8. Rec(f)
      BY <2>6, <2>7
    <2> QED BY <2>8
  <1>3. N \in Nat
    OBVIOUS
  <1> HIDE DEF F
  <1>4. F[0] = Root
    BY <1>2, <1>3
  <1>5. ASSUME NEW n \in 1 .. N PROVE F[n] = ChildIn(Links, F[n - 1], names[n])
    <2>1. n \in 0 .. N /\ n # 0
      BY <1>3
    <2>2. F[n] = ListedChild(F[n - 1], names[n])
      BY <1>2, <2>1
    <2> QED BY <2>2, ListedChildIs
  <1>6. F[N] = Place(Links, names)
    BY <1>4, <1>5, LinksAreGood, PlaceByChildren
  <1> QED BY <1>1, <1>6

\* The names in the paths that callers pass.
Used == {name \in Names : \E path \in Paths : \E n \in 1 .. Len(path) : path[n] = name}

\* No component of a path is what the inode bitmap spells as a name.
BitmapSpellsNothing == \A n \in 1 .. NumInodes : MapName[n] \notin Used

LEMMA UsedIs ==
    /\ Used \subseteq Names /\ Slash \notin Used /\ NoName \notin Used
    /\ Used \subseteq Components
    /\ \A path \in Paths : path \in Seq(Used \cup {Slash})
  <1>1. ASSUME NEW path \in Paths PROVE path \in Seq(Used \cup {Slash})
    <2>1. path \in Seq(Names \cup {Slash})
      BY NameAssumption
    <2>2. \A n \in 1 .. Len(path) : path[n] \in Used \cup {Slash}
      BY <2>1 DEF Used
    <2> QED BY <2>1, <2>2
  <1> QED BY <1>1, NameAssumption DEF Used, Components

\* Between calls, lookup finds in each directory what the directory lists.
LEMMA LookupIs ==
    ASSUME TInv, MarkInv, call.pc = "idle", BitmapSpellsNothing,
           NEW i \in Nodes, NEW name \in Used
    PROVE  _inum_find_child(i, name) = ChildIn(Links, i, name)
  <1>0. IInv /\ TypeInv /\ InodeInv
    BY DEF TInv, IInv
  <1>1. name \in Names /\ name # NoName
    BY UsedIs
  <1>2. \A l \in Links : l[1] = i => i \in Filled
    BY LinksAreGood
  <1>3. CASE i \notin Filled
    <2>1. ChildIn(Links, i, name) = NONE
      BY <1>2, <1>3 DEF ChildIn
    <2>2. ASSUME IsDir(i) PROVE _inum_find_child(i, name) = NONE
      <3>1. i \in inode_map /\ i \in Inums /\ inodes[i].file_type = "d"
        BY <1>0, <2>2 DEF IsDir, block_store_sub_test, TypeInv
      <3>2. ~(inodes[i].file_size > 0) /\ inodes[i].file_size \in Nat
        BY <1>0, <1>3, <3>1, FilledIs DEF TypeInv, Inode
      <3>3. inodes[i].data_direct = 0
        BY <1>0, <3>1, <3>2 DEF InodeInv
      <3>4. _inode_dir_load(inodes[i]) = BitmapAsEntries
        BY <3>3 DEF _inode_dir_load
      <3>5. MapName[Cardinality(inode_map)] # name
        <4>1. PICK n \in 1 .. NumInodes : inode_map = 0 .. n - 1
          BY DEF TInv, RowInv
        <4>2. n \in Int /\ n >= 1
          BY ShapeAssumption
        <4>3. Cardinality(0 .. n - 1) = IF 0 > n - 1 THEN 0 ELSE (n - 1) - 0 + 1
          BY <4>2, FS_Interval
        <4>4. Cardinality(inode_map) = n
          BY <4>1, <4>2, <4>3
        <4> QED BY <4>1, <4>4 DEF BitmapSpellsNothing
      <3>6. \A s \in Slots : BitmapAsEntries[s].filename # name
        <4>1. BitmapAsEntries[0].filename = MapName[Cardinality(inode_map)]
          BY Shape DEF BitmapAsEntries, NoEntries, ZeroEntry
        <4> QED BY <1>1, <3>5, <4>1, NoEntriesType
      <3>7. _inode_find_child(BitmapAsEntries, name) = NONE
        BY <3>6 DEF _inode_find_child
      <3> QED BY <3>4, <3>7 DEF _inum_find_child
    <2> QED BY <2>1, <2>2 DEF _inum_find_child
  <1>4. CASE i \in Filled
    <2> DEFINE E == dents[inodes[i].data_direct]
    <2>1. _inode_dir_load(inodes[i]) = E /\ IsDir(i)
      BY <1>4, FilledLoads DEF IsDir, block_store_sub_test
    <2>2. _inum_find_child(i, name) = _inode_find_child(E, name)
      BY <2>1 DEF _inum_find_child
    <2>3. \A s \in Slots : E[s].inum # NONE
      BY <1>4, FilledLoads, Shape
    <2>4. CASE _inode_find_child(E, name) # NONE
      <3>1. PICK s \in Slots : E[s].filename = name /\ _inode_find_child(E, name) = E[s].inum
        BY <2>4, FoundAt
      <3>2. s \in inodes[i].dir_entry_map
        BY <1>1, <1>4, <3>1 DEF MarkInv, NameIn, InWindow
      <3>3. <<i, E[s]>> \in Links
        BY <1>0, <1>4, <3>2, LinksAre
      <3> QED BY <2>2, <3>1, <3>3, LinksAreGood, ChildInIs
    <2>5. CASE _inode_find_child(E, name) = NONE
      <3>1. \A s \in Slots : E[s].filename # name
        BY <2>3, <2>5, NotFound
      <3>2. ASSUME NEW l \in Links, l[1] = i, l[2].filename = name PROVE FALSE
        <4>1. PICK j \in Filled : \E s \in inodes[j].dir_entry_map :
                l = <<j, dents[inodes[j].data_direct][s]>>
          BY <1>0, LinksAre
        <4>2. PICK s \in inodes[j].dir_entry_map :
                l = <<j, dents[inodes[j].data_direct][s]>>
          BY <4>1
        <4>3. j = i /\ s \in Slots
          BY <3>2, <4>2, FilledLoads
        <4> QED BY <3>1, <3>2, <4>2, <4>3
      <3>3. ChildIn(Links, i, name) = NONE
        BY <3>2 DEF ChildIn
      <3> QED BY <2>2, <2>5, <3>3
    <2> QED BY <2>4, <2>5
  <1> QED BY <1>3, <1>4

LEMMA SplitUses ==
    ASSUME NEW path \in Seq(Used \cup {Slash})
    PROVE  _split_path(path) \in Seq(Used)
  <1>1. CASE path = <<>>
    BY <1>1, SplitEmpty, EmptySeq
  <1>2. CASE path # <<>>
    <2>1. PICK s \in Seq(Used \cup {Slash}), x \in Used \cup {Slash} : path = Append(s, x)
      BY <1>2, SequenceEmptyOrAppend
    <2>2. _split_path(s) \in Seq(Used)
      BY <2>1, UsedIs, SplitAppend
    <2>3. _split_path(path) =
            IF x = Slash THEN _split_path(s) ELSE Append(_split_path(s), x)
      BY <2>1, UsedIs, SplitAppend
    <2> QED BY <2>1, <2>2, <2>3, AppendProperties
  <1> QED BY <1>1, <1>2

\* Between calls, a path leads to the place of its names.
LEMMA GetInumIs ==
    ASSUME TInv, MarkInv, call.pc = "idle", BitmapSpellsNothing,
           NEW path \in Seq(Used \cup {Slash}), PATH_OK(path)
    PROVE  /\ _get_inum(path) = Place(Links, _split_path(path))
           /\ _split_path(path) \in Seq(Used)
           /\ _get_inum(path) \in Nodes
  <1> DEFINE names == _split_path(path)
             N == Len(names)
             Rec(g) == g = [n \in 0 .. N |->
                             IF n = 0 THEN Root ELSE _inum_find_child(g[n - 1], names[n])]
             F == CHOOSE g : Rec(g)
  <1>1. names \in Seq(Used)
    BY SplitUses
  <1>2. _get_inum(path) = F[N]
    BY DEF _get_inum
  <1> HIDE DEF names
  <1>3. names \in Seq(Components) /\ N \in Nat /\ \A n \in 1 .. N : names[n] \in Used
    BY <1>1, UsedIs
  <1>4. Rec(F)
    <2>1. \E f : Goes(TableOf(Links), Root, names, f)
      BY <1>3, GoesExists
    <2>2. PICK f : Goes(TableOf(Links), Root, names, f)
      BY <2>1
    <2>3. IsTable(TableOf(Links), Nodes, Components) /\ Root \in Nodes
      BY LinksAreGood, TableIsForest DEF IsForest
    <2>4. \A n \in 0 .. N : f[n] \in Nodes
      BY <1>3, <2>2, <2>3, GoesInside
    <2>5. ASSUME NEW n \in 0 .. N, n # 0
          PROVE  TableOf(Links)[<<f[n - 1], names[n]>>] = _inum_find_child(f[n - 1], names[n])
      <3>1. n \in 1 .. N /\ n - 1 \in 0 .. N
        BY <1>3, <2>5
      <3>2. f[n - 1] \in Nodes /\ names[n] \in Components /\ names[n] \in Used
        BY <1>3, <2>4, <3>1, UsedIs
      <3> QED BY <3>2, TableIs, LookupIs
    <2>6. f = [n \in 0 .. N |->
                 IF n = 0 THEN Root ELSE TableOf(Links)[<<f[n - 1], names[n]>>]]
      BY <2>2 DEF Goes
    <2>7. Rec(f)
      BY <2>5, <2>6
    <2> QED BY <2>7
  <1> HIDE DEF F
  <1>5. F[0] = Root
    BY <1>3, <1>4
  <1>6. ASSUME NEW n \in 1 .. N, F[n - 1] \in Nodes
        PROVE  F[n] = ChildIn(Links, F[n - 1], names[n])
    <2>1. n \in 0 .. N /\ n # 0 /\ names[n] \in Used
      BY <1>3
    <2>2. F[n] = _inum_find_child(F[n - 1], names[n])
      BY <1>4, <2>1
    <2> QED BY <1>6, <2>1, <2>2, LookupIs
  <1>7. F[N] = Place(Links, names)
    BY <1>1, <1>5, <1>6, LinksAreGood, PlaceByChildren, UsedIs
  <1>8. Place(Links, names) \in Nodes
    <2>1. NoName \in Components
      BY DEF Components
    <2> QED BY <1>3, <2>1, LinksAreGood, PlaceIs
  <1> QED BY <1>1, <1>2, <1>7, <1>8 DEF names

-----------------------------------------------------------------------------
(* Each step of the name space is one of the tree of named files.          *)

\* The parent is at the place of the path without its last name, and what is
\* listed was created under a path that callers pass.
PlaceInv ==
    call.pc # "idle" => call.parent = Place(Links, _split_path(_dirname(call.path)))

ReachInv == \A p \in Seq(Components) : Place(Links, p) # NONE => p \in TreePaths

NewEntry == [filename |-> _basename(call.path), inum |-> call.inum]

LEMMA InitNewInv == Init => NewInv
  BY IdleIs DEF Init, NewInv, HasInum

LEMMA NewInvNext ==
    ASSUME TInv, MarkInv, NewInv, [Next]_vars PROVE NewInv'
  <1>1. IInv /\ TypeInv /\ CallInv /\ InodeInv /\ ParentInv
    BY DEF TInv, IInv
  <1>2. CASE call'.pc \notin {"inode", "entries", "parent", "free inode"}
    BY <1>2 DEF NewInv, HasInum
  <1>3. CASE AllocInode
    <2>1. /\ _basename(call.path) # NULL
          /\ \E i : call' = [call EXCEPT !.pc = "inode", !.inum = i]
      BY <1>3 DEF AllocInode, MayCreate
    <2>2. call'.pc = "inode" /\ call'.path = call.path
      BY <1>1, <2>1 DEF CallInv
    <2> QED BY <2>1, <2>2 DEF NewInv, HasInum
  <1>4. CASE WriteInode
    <2>1. call.pc = "inode" /\ inodes' = [inodes EXCEPT ![call.inum] = NewInode(call.type)]
      BY <1>4 DEF WriteInode, At, block_store_inode_write
    <2>2. _basename(call.path) # NULL
      BY <2>1 DEF NewInv, HasInum
    <2>3. CASE call' = [call EXCEPT !.pc = "free inode"]
      <3>1. call'.pc = "free inode" /\ call'.path = call.path
        BY <1>1, <2>3 DEF CallInv
      <3> QED BY <2>2, <3>1 DEF NewInv, HasInum
    <2>4. ASSUME NEW s \in MapSlots, EntrySlot(s),
                 call' = [call EXCEPT !.pc = "entries",
                   !.node.dir_entry_map = @ \cup {s},
                   !.node.file_size = @ + 1,
                   !.entries[s] = [filename |-> _basename(call.path), inum |-> call.inum]]
          PROVE  NewInv'
      <3>1. /\ s \notin inodes[call.parent].dir_entry_map
            /\ call'.node.dir_entry_map = inodes[call.parent].dir_entry_map \cup {s}
            /\ call'.entries[s] = [filename |-> _basename(call.path), inum |-> call.inum]
        BY <1>4, <2>4, EntryMarked
      <3>2. /\ call'.path = call.path /\ call'.parent = call.parent
            /\ call'.inum = call.inum /\ call'.type = call.type
        BY <1>1, <2>4 DEF CallInv
      <3>3. call.inum \in Inums /\ call.parent \in Inums /\ call.inum # call.parent
        BY <1>1, <2>1 DEF InodeInv, HasInum, TypeInv, ParentInv
      <3>4. /\ inodes'[call.inum] = NewInode(call.type)
            /\ inodes'[call.parent] = inodes[call.parent]
        BY <1>1, <2>1, <3>3 DEF TypeInv
      <3>5. s \in MapSlots \ inodes'[call'.parent].dir_entry_map
        BY <3>1, <3>2, <3>4
      <3>6. /\ call'.node.dir_entry_map = inodes'[call'.parent].dir_entry_map \cup {s}
            /\ call'.entries[s] = [filename |-> _basename(call'.path), inum |-> call'.inum]
        BY <3>1, <3>2, <3>4
      <3>7. inodes'[call'.inum] = NewInode(call'.type) /\ _basename(call'.path) # NULL
        BY <2>2, <3>2, <3>4
      <3> HIDE <2>4
      <3> QED BY <3>5, <3>6, <3>7 DEF NewInv
    <2> QED BY <1>4, <2>3, <2>4 DEF WriteInode
  <1>5. CASE WriteEntries
    <2>1. call.pc = "entries" /\ call' = [call EXCEPT !.pc = "parent"] /\ inodes' = inodes
      BY <1>5 DEF WriteEntries, At
    <2>2. /\ call'.path = call.path /\ call'.parent = call.parent /\ call'.type = call.type
          /\ call'.inum = call.inum /\ call'.node = call.node
          /\ call'.entries = call.entries
      BY <1>1, <2>1 DEF CallInv
    <2>3. /\ _basename(call.path) # NULL /\ inodes[call.inum] = NewInode(call.type)
          /\ \E s \in MapSlots \ inodes[call.parent].dir_entry_map :
              /\ call.node.dir_entry_map = inodes[call.parent].dir_entry_map \cup {s}
              /\ call.entries[s] = [filename |-> _basename(call.path), inum |-> call.inum]
      BY <2>1 DEF NewInv, HasInum
    <2> QED BY <2>1, <2>2, <2>3 DEF NewInv
  <1>6. CASE UNCHANGED <<call, inodes>>
    BY <1>6 DEF NewInv, HasInum
  <1>7. ASSUME NEW path \in Paths, NEW type \in Types, fs_create(path, type)
        PROVE  call'.pc = "verify"
    BY <1>7 DEF fs_create, Idle
  <1>8. ASSUME NEW path \in Paths, CreateRefused(path) PROVE call'.pc = "idle"
    BY <1>8, IdleIs DEF CreateRefused, Return
  <1>9. CASE Crash \/ Verified_fails \/ WriteParent \/ FreeInode \/ FreeBlock
    <2>1. call'.pc \in {"idle", "free block"}
      BY <1>1, <1>9, IdleIs DEF Crash, Verified_fails, WriteParent, FreeInode, FreeBlock,
         Return, CallInv
    <2> QED BY <1>2, <2>1
  <1>10. CASE \/ file_takes_block \/ file_gives_block \/ fs_unmount \/ fs_mount
              \/ \E path \in Paths : fs_get_dir(path)
    BY <1>6, <1>10 DEF file_takes_block, file_gives_block, fs_unmount, fs_mount,
       fs_get_dir, device
  <1> QED BY <1>2, <1>3, <1>4, <1>5, <1>6, <1>7, <1>8, <1>9, <1>10 DEF Next, CreateStep, vars

\* The step that ends a create adds one link.
LEMMA OneLinkMore ==
    ASSUME TInv, MarkInv, NewInv, TInv', WriteParent
    PROVE  /\ Links' = Links \cup {<<call.parent, NewEntry>>}
           /\ <<call.parent, NewEntry>> \notin Links
           /\ \A l \in Links : l[1] # call.inum
           /\ call.inum # call.parent /\ call.inum \in Inums
           /\ call.parent \in Inums
  <1>1. IInv /\ TypeInv /\ CallInv /\ InodeInv /\ ParentInv /\ EntriesInv /\ IInv'
    BY DEF TInv, IInv
  <1>2. /\ call.pc = "parent" /\ inode_map' = inode_map /\ dents' = dents
        /\ inodes' = [inodes EXCEPT ![call.parent] = call.node]
    BY DEF WriteParent, At, block_store_inode_write
  <1>3. PICK s \in MapSlots \ inodes[call.parent].dir_entry_map :
          /\ call.node.dir_entry_map = inodes[call.parent].dir_entry_map \cup {s}
          /\ call.entries[s] = NewEntry
    BY <1>2 DEF NewInv, NewEntry
  <1>4. call.parent \in inode_map /\ call.parent \in Inums
    BY <1>1, <1>2 DEF ParentInv, TypeInv
  <1>5. /\ call.inum \in Inums /\ call.inum # call.parent
        /\ inodes[call.inum].file_size = 0
    BY <1>1, <1>2 DEF InodeInv, HasInum, TypeInv
  <1>6. /\ inodes'[call.parent] = call.node
        /\ \A i \in inode_map : i # call.parent => inodes'[i] = inodes[i]
    BY <1>1, <1>2, <1>4 DEF TypeInv
  <1>7. dents[call.node.data_direct] = call.entries
    BY <1>1, <1>2 DEF EntriesInv
  <1>8. call.parent \in Filled' /\ \A i : i # call.parent => (i \in Filled' <=> i \in Filled)
    <2>1. TypeInv' /\ InodeInv'
      BY <1>1 DEF IInv
    <2>2. call.node.file_type = "d" /\ call.node.file_size > 0
      BY <1>1, <1>2 DEF ParentInv
    <2> QED BY <1>1, <1>2, <1>4, <1>6, <2>1, <2>2, FilledIs, FilledIsNext
  <1>9. \A i \in Filled : i \in inode_map
    BY <1>1, FilledIs
  <1>10. ASSUME NEW link
         PROVE  link \in Links' <=> link \in Links \/ link = <<call.parent, NewEntry>>
    <2>1. link \in Links' <=>
            \E i \in Filled' : \E t \in inodes'[i].dir_entry_map :
                link = <<i, dents[inodes'[i].data_direct][t]>>
      BY <1>1, <1>2, LinksAreNext
    <2>2. link \in Links <=>
            \E i \in Filled : \E t \in inodes[i].dir_entry_map :
                link = <<i, dents[inodes[i].data_direct][t]>>
      BY <1>1, LinksAre
    <2>3. CASE call.parent \in Filled
      <3>1. inodes[call.parent].data_direct = call.node.data_direct
        BY <1>1, <1>2, <2>3, EntryBlockOf
      <3> QED BY <1>3, <1>6, <1>7, <1>8, <1>9, <2>1, <2>2, <2>3, <3>1
    <2>4. CASE call.parent \notin Filled
      <3>1. inodes[call.parent].dir_entry_map = {}
        BY <1>1, <1>2, <2>4, EntryBlockOf DEF CallInv
      <3> QED BY <1>3, <1>6, <1>7, <1>8, <1>9, <2>1, <2>2, <2>4, <3>1
    <2> QED BY <2>3, <2>4
  <1>11. <<call.parent, NewEntry>> \notin Links
    <2> SUFFICES ASSUME <<call.parent, NewEntry>> \in Links PROVE FALSE
      OBVIOUS
    <2>1. PICK i \in Filled : \E t \in inodes[i].dir_entry_map :
            <<call.parent, NewEntry>> = <<i, dents[inodes[i].data_direct][t]>>
      BY <1>1, LinksAre
    <2>2. PICK t \in inodes[i].dir_entry_map :
            <<call.parent, NewEntry>> = <<i, dents[inodes[i].data_direct][t]>>
      BY <2>1
    <2>3. i = call.parent /\ t \in Slots
      BY <2>2, FilledLoads
    <2>4. inodes[call.parent].data_direct = call.node.data_direct
      BY <1>1, <1>2, <2>3, EntryBlockOf
    <2>5. call.entries[t] = NewEntry
      BY <1>7, <2>2, <2>3, <2>4
    <2>6. call.entries[t].filename # NoName
      BY <1>2, <1>3, <2>2, <2>3 DEF MarkInv, NameIn
    <2>7. GoodEntries(call.entries) /\ s \in Slots
      BY <1>1, <1>2, Shape DEF EntriesInv
    <2>8. s = t
      BY <1>3, <2>3, <2>5, <2>6, <2>7 DEF GoodEntries
    <2> QED BY <2>2, <2>3, <2>8
  <1>12. \A l \in Links : l[1] # call.inum
    <2>1. \A l \in Links : l[1] \in Filled
      BY LinksAreGood
    <2>2. call.inum \notin Filled
      BY <1>1, <1>5, FilledIs
    <2> QED BY <2>1, <2>2
  <1> QED BY <1>4, <1>5, <1>10, <1>11, <1>12

LEMMA OneLinkIsOneMore ==
    ASSUME NEW L, NEW L2, GoodLinks(L), GoodLinks(L2),
           NEW parent \in Inums, NEW base \in Names, NEW inum \in Inums,
           NEW new, new = <<parent, [filename |-> base, inum |-> inum]>>,
           L2 = L \cup {new}, new \notin L,
           \A l \in L : l[1] # inum, inum # parent
    PROVE  HasOneMore(TableOf(L), TableOf(L2), Nodes, Components, parent, base, inum)
  <1>1. parent \in Nodes /\ inum \in Nodes /\ base \in Components /\ NONE \notin Inums
    BY Shape DEF Nodes, Components
  <1>2. \A l \in L : ~(l[1] = parent /\ l[2].filename = base)
    <2>1. new \in L2 /\ new[1] = parent /\ new[2].filename = base
      OBVIOUS
    <2>2. ASSUME NEW l \in L, l[1] = parent, l[2].filename = base PROVE l = new
      BY <2>1, <2>2 DEF GoodLinks
    <2> QED BY <2>2
  <1>3. ASSUME NEW i \in Nodes, NEW x \in Components
        PROVE  ChildIn(L2, i, x) =
                 IF i = parent /\ x = base THEN inum ELSE ChildIn(L, i, x)
    <2>1. CASE i = parent /\ x = base
      <3>1. new \in L2 /\ new[1] = i /\ new[2].filename = x /\ new[2].inum = inum
        BY <2>1
      <3>2. ChildIn(L2, i, x) = inum
        BY <3>1, ChildInIs
      <3> QED BY <2>1, <3>2
    <2>2. CASE ~(i = parent /\ x = base)
      <3>1. \A l : l \in L2 /\ l[1] = i /\ l[2].filename = x
                <=> l \in L /\ l[1] = i /\ l[2].filename = x
        <4>1. ~(new[1] = i /\ new[2].filename = x)
          BY <2>2
        <4> QED BY <4>1
      <3>2. CASE \E l \in L : l[1] = i /\ l[2].filename = x
        <4>1. PICK l \in L : l[1] = i /\ l[2].filename = x
          BY <3>2
        <4>2. ChildIn(L, i, x) = l[2].inum
          BY <4>1, ChildInIs
        <4>3. l \in L2
          OBVIOUS
        <4>4. ChildIn(L2, i, x) = l[2].inum
          BY <4>1, <4>3, ChildInIs
        <4> QED BY <2>2, <4>2, <4>4
      <3>3. CASE ~ \E l \in L : l[1] = i /\ l[2].filename = x
        <4>1. ~ \E l \in L2 : l[1] = i /\ l[2].filename = x
          BY <3>1, <3>3
        <4>2. ChildIn(L2, i, x) = NONE /\ ChildIn(L, i, x) = NONE
          BY <3>3, <4>1 DEF ChildIn
        <4> QED BY <2>2, <4>2
      <3> QED BY <3>2, <3>3
    <2> QED BY <2>1, <2>2
  <1>4. \A i \in Nodes : \A x \in Components :
          TableOf(L2)[<<i, x>>] =
            IF i = parent /\ x = base THEN inum ELSE TableOf(L)[<<i, x>>]
    BY <1>3, TableIs
  <1>5. TableOf(L)[<<parent, base>>] = NONE
    <2>1. ChildIn(L, parent, base) = NONE
      BY <1>2 DEF ChildIn
    <2> QED BY <1>1, <2>1, TableIs
  <1>6. \A x \in Components : TableOf(L)[<<inum, x>>] = NONE
    <2>1. \A x \in Components : ChildIn(L, inum, x) = NONE
      BY DEF ChildIn
    <2> QED BY <1>1, <2>1, TableIs
  <1>7. IsForest(TableOf(L), Nodes, Components) /\ IsTable(TableOf(L2), Nodes, Components)
    BY TableIsForest DEF IsForest
  <1> QED BY <1>1, <1>4, <1>5, <1>6, <1>7 DEF HasOneMore

\* The tree that links make of an inode table.
TreeBy(L, table) ==
    [p \in {q \in TreePaths : Place(L, q) # NONE} |-> table[Place(L, p)].file_type]

LEMMA SplitIsUsed ==
    ASSUME NEW path \in Paths
    PROVE  /\ _split_path(path) \in Seq(Used) /\ _split_path(path) \in Seq(Components)
           /\ TreePath(path) \in Seq(Components)
  <1>1. path \in Seq(Used \cup {Slash})
    BY UsedIs
  <1>2. _split_path(path) \in Seq(Used)
    BY <1>1, SplitUses
  <1>3. <<NoName>> \in Seq(Components)
    BY DEF Components
  <1>4. _split_path(path) \in Seq(Components)
    <2> HIDE DEF _split_path
    <2> QED BY <1>2, UsedIs
  <1> QED BY <1>2, <1>3, <1>4 DEF TreePath

LEMMA TreeIs ==
    ASSUME TInv, MarkInv
    PROVE  ListedTree = TreeBy(Links, inodes)
  <1>1. \A q \in TreePaths : q \in Seq(Components)
    BY SplitIsUsed DEF TreePaths
  <1>2. \A q \in TreePaths : ListedInum(q) = Place(Links, q)
    BY <1>1, ListedInumIs
  <1> QED BY <1>2 DEF ListedTree, TreeBy

LEMMA TreeIsNext == TInv' /\ MarkInv' => ListedTree' = TreeBy(Links', inodes')
  <1>1. TInv /\ MarkInv => ListedTree = TreeBy(Links, inodes)
    BY TreeIs
  <1>2. (TInv /\ MarkInv => ListedTree = TreeBy(Links, inodes))'
    BY <1>1, PTL
  <1> QED BY <1>2

LEMMA LinksAreGoodNext == TInv' /\ MarkInv' => GoodLinks(Links')
  <1>1. TInv /\ MarkInv => GoodLinks(Links)
    BY LinksAreGood
  <1>2. (TInv /\ MarkInv => GoodLinks(Links))'
    BY <1>1, PTL
  <1> QED BY <1>2

\* A place is the root, or some link leads there.
LEMMA PlaceIsLinked ==
    ASSUME NEW L, GoodLinks(L), NEW p \in Seq(Components), Place(L, p) # NONE
    PROVE  /\ Place(L, p) \in Inums
           /\ Place(L, p) = Root \/ \E l \in L : l[2].inum = Place(L, p)
  <1>1. NoName \in Components
    BY DEF Components
  <1>2. Place(L, p) \in Nodes /\ Place(L, <<>>) = Root
    BY <1>1, PlaceIs
  <1>3. CASE p # <<>>
    <2>1. PICK q \in Seq(Components), x \in Components : p = Append(q, x)
      BY <1>3, SequenceEmptyOrAppend
    <2>2. Place(L, p) = ChildIn(L, Place(L, q), x)
      BY <2>1, PlaceIs
    <2> QED BY <1>2, <2>2, ChildInIs DEF Nodes
  <1> QED BY <1>2, <1>3 DEF Nodes

\* Only the step that ends a create changes the tree.
LEMMA TreeSame ==
    ASSUME TInv, MarkInv, TInv', MarkInv', [Next]_vars, ~WriteParent
    PROVE  ListedTree' = ListedTree /\ Links' = Links
  <1>1. Links' = Links /\ GoodLinks(Links)
    BY LinksSame, LinksAreGood DEF TInv
  <1>2. ASSUME NEW q \in TreePaths, Place(Links, q) # NONE
        PROVE  inodes'[Place(Links, q)] = inodes[Place(Links, q)]
    <2>0. q \in Seq(Components)
      BY SplitIsUsed DEF TreePaths
    <2>1. CASE WriteInode
      <3>1. call.pc = "inode" /\ inodes' = [inodes EXCEPT ![call.inum] = NewInode(call.type)]
        BY <2>1 DEF WriteInode, At, block_store_inode_write
      <3>2. call.inum # Root /\ \A at \in Named : EntryAt(at).inum # call.inum
        BY <3>1 DEF TInv, IInv, InodeInv, HasInum, EntriesInv
      <3>3. ASSUME NEW l \in Links PROVE l[2].inum # call.inum
        <4>1. PICK at \in Named : l = <<at[1], EntryAt(at)>>
          BY LinkIsNamed
        <4>2. l[2] = EntryAt(at)
          BY <4>1
        <4> QED BY <3>2, <4>1, <4>2
      <3>4. Place(Links, q) # call.inum /\ Place(Links, q) \in Inums
        BY <1>1, <1>2, <2>0, <3>2, <3>3, PlaceIsLinked
      <3> QED BY <3>1, <3>4 DEF TInv, IInv, TypeInv
    <2>2. CASE inodes' = inodes
      BY <2>2
    <2>3. inodes' = inodes \/ WriteInode
      BY DEF Next, CreateStep, AllocInode, WriteEntries, FreeInode, Verified_fails,
         FreeBlock, device, fs_create, CreateRefused, fs_get_dir, file_takes_block,
         file_gives_block, fs_unmount, fs_mount, Crash, vars
    <2> QED BY <2>1, <2>2, <2>3
  <1>3. TreeBy(Links, inodes') = TreeBy(Links, inodes)
    BY <1>2 DEF TreeBy
  <1> QED BY <1>1, <1>3, TreeIs, TreeIsNext

\* The step that ends a create is the creation of a file in the tree.
LEMMA EndsWithCreate ==
    ASSUME TInv, MarkInv, NewInv, PlaceInv, ReachInv, TInv', MarkInv', WriteParent
    PROVE  Tree!Create(TreePath(call.path), call.type) /\ ReachInv'
           /\ call.path \in Paths /\ call.type \in Types
  <1> DEFINE path == call.path
             dir == _split_path(_dirname(path))
             base == _basename(path)
             new == Append(dir, base)
  <1>1. IInv /\ TypeInv /\ CallInv /\ ParentInv /\ IInv'
    BY DEF TInv, IInv
  <1>2. /\ call.pc = "parent" /\ mounted /\ mounted' = mounted
        /\ inodes' = [inodes EXCEPT ![call.parent] = call.node]
        /\ res' = Result("create", 0, {})
    BY DEF WriteParent, At, block_store_inode_write, Return
  <1>3. path \in Paths /\ MayLookUp(path) /\ call.type \in Types
    BY <1>1, <1>2 DEF TInv, PathInv, CallInv
  <1>4. base # NULL /\ base \in Names
    BY <1>2, <1>3, BasenameIsName DEF NewInv, HasInum
  <1>5. /\ dir \in Seq(Used) /\ _split_path(path) = new
    BY <1>3, <1>4, UsedIs, DirnameIs
  <1>6. TreePath(path) = new
    BY <1>3, <1>5 DEF TreePath, MayLookUp
  <1>7. call.parent = Place(Links, dir)
    BY <1>2 DEF PlaceInv
  <1> HIDE DEF dir, base
  <1>8. dir \in Seq(Components) /\ base \in Components /\ new \in Seq(Components)
    BY <1>4, <1>5, UsedIs, AppendProperties DEF Components
  <1>9. /\ Links' = Links \cup {<<call.parent, NewEntry>>}
        /\ <<call.parent, NewEntry>> \notin Links
        /\ \A l \in Links : l[1] # call.inum
        /\ call.inum # call.parent /\ call.inum \in Inums /\ call.parent \in Inums
    BY OneLinkMore
  <1>10. GoodLinks(Links) /\ GoodLinks(Links')
    BY LinksAreGood, LinksAreGoodNext
  <1>11. HasOneMore(TableOf(Links), TableOf(Links'), Nodes, Components,
                    call.parent, base, call.inum)
    BY <1>4, <1>9, <1>10, OneLinkIsOneMore DEF NewEntry, base
  <1>12. ASSUME NEW p \in Seq(Components)
         PROVE  Place(Links', p) = IF p = new THEN call.inum ELSE Place(Links, p)
    BY <1>7, <1>8, <1>11, OneMore DEF Place
  <1>13. Place(Links, new) = NONE
    <2>1. Place(Links, new) = ChildIn(Links, call.parent, base)
      BY <1>7, <1>8, <1>10, PlaceIs
    <2>2. call.parent \in Nodes
      BY <1>9 DEF Nodes
    <2> QED BY <1>8, <1>11, <2>1, <2>2, TableIs DEF HasOneMore
  <1>14. call.inum # NONE /\ call.parent # NONE
    BY <1>9, Shape
  <1>15. new \in TreePaths
    BY <1>3, <1>6 DEF TreePaths
  <1>16. ReachInv'
    <2>1. ASSUME NEW p \in Seq(Components), Place(Links', p) # NONE PROVE p \in TreePaths
      BY <1>12, <1>15, <2>1 DEF ReachInv
    <2> QED BY <2>1 DEF ReachInv
  <1>17. /\ ListedTree = TreeBy(Links, inodes) /\ ListedTree' = TreeBy(Links', inodes')
         /\ \A q \in TreePaths : q \in Seq(Components)
    BY TreeIs, TreeIsNext, SplitIsUsed DEF TreePaths
  <1>18. /\ inodes[call.parent].file_type = "d"
         /\ inodes'[call.parent].file_type = "d"
         /\ inodes'[call.inum].file_type = call.type
         /\ \A i \in Inums : i # call.parent => inodes'[i] = inodes[i]
    <2>1. inodes[call.parent].file_type = "d" /\ call.node.file_type = "d"
      BY <1>1, <1>2 DEF ParentInv
    <2>2. inodes[call.inum].file_type = call.type
      BY <1>1, <1>2, NewInodeType DEF NewInv, CallInv
    <2> QED BY <1>1, <1>2, <1>9, <2>1, <2>2 DEF TypeInv
  <1> DEFINE old == DOMAIN ListedTree
  <1>19. /\ old = {q \in TreePaths : Place(Links, q) # NONE}
         /\ \A q \in old : ListedTree[q] = inodes[Place(Links, q)].file_type
    BY <1>17 DEF TreeBy
  <1>20. \A q \in old : inodes'[Place(Links, q)].file_type = ListedTree[q]
    <2> SUFFICES ASSUME NEW q \in old
                 PROVE  inodes'[Place(Links, q)].file_type = ListedTree[q]
      OBVIOUS
    <2>1. Place(Links, q) \in Inums
      BY <1>10, <1>17, <1>19, PlaceIsLinked
    <2> QED BY <1>18, <1>19, <2>1
  <1>21. new \notin old /\ dir \in old /\ ListedTree[dir] = "d"
    <2>1. dir \in TreePaths
      BY <1>7, <1>8, <1>14 DEF ReachInv
    <2> QED BY <1>7, <1>13, <1>14, <1>18, <1>19, <2>1
  <1>22. ListedTree' = [p \in old \cup {new} |-> IF p = new THEN call.type ELSE ListedTree[p]]
    <2>1. {q \in TreePaths : Place(Links', q) # NONE} = old \cup {new}
      BY <1>12, <1>14, <1>15, <1>17, <1>19
    <2>2. ListedTree' = [p \in old \cup {new} |-> inodes'[Place(Links', p)].file_type]
      BY <1>17, <2>1 DEF TreeBy
    <2>3. ASSUME NEW p \in old \cup {new}
          PROVE  inodes'[Place(Links', p)].file_type =
                   IF p = new THEN call.type ELSE ListedTree[p]
      <3>1. p \in Seq(Components)
        BY <1>8, <1>17, <1>19
      <3> QED BY <1>12, <1>18, <1>20, <3>1
    <2> QED BY <2>2, <2>3
  <1>23. new # <<>> /\ Front(new) = dir
    BY <1>8, AppendProperties, FrontOfAppend
  <1>24. Tree!Create(new, call.type)
    <2> HIDE DEF new
    <2>1. new # Tree!Root /\ new \notin DOMAIN ListedTree /\ Tree!IsDirectory(Tree!Front(new))
      BY <1>21, <1>23 DEF Tree!Root, Tree!IsDirectory, Tree!Front, Front
    <2>2. res' = Tree!Result("create", 0, {}) /\ mounted /\ UNCHANGED mounted
      BY <1>2 DEF Tree!Result, Result
    <2> QED BY <1>22, <2>1, <2>2 DEF Tree!Create
  <1> QED BY <1>3, <1>6, <1>16, <1>24

\* fs_get_dir lists the children of the path in the tree.
LEMMA ListsTheTree ==
    ASSUME TInv, MarkInv, ReachInv, BitmapSpellsNothing, TInv', MarkInv',
           NEW path \in Paths, fs_get_dir(path)
    PROVE  Tree!List(TreePath(path))
  <1> DEFINE inum == _get_inum(path)
             names == TreePath(path)
             isDir == Tree!IsDirectory(names)
  <1>1. /\ IInv /\ TypeInv /\ GoodLinks(Links)
        /\ \A l \in Links : l[1] \in Filled /\ l[2].inum \in inode_map
    BY LinksAreGood DEF TInv, IInv
  <1>2. /\ mounted /\ call.pc = "idle" /\ mounted' = mounted
        /\ res' = IF IsDir(inum)
                  THEN Result("get_dir", 0, {entry.filename : entry \in Listed(inum)})
                  ELSE Result("get_dir", -1, {})
    BY DEF fs_get_dir, Quiet
  <1>3. ListedTree' = ListedTree
    <2>1. [Next]_vars /\ ~WriteParent
      BY <1>2 DEF Next, WriteParent, At
    <2> QED BY <2>1, TreeSame
  <1>4. /\ names \in Seq(Components) /\ names \in TreePaths
        /\ _split_path(path) \in Seq(Components)
    BY SplitIsUsed DEF TreePaths
  <1>5. /\ DOMAIN ListedTree = {q \in TreePaths : Place(Links, q) # NONE}
        /\ \A q \in DOMAIN ListedTree : ListedTree[q] = inodes[Place(Links, q)].file_type
    BY TreeIs DEF TreeBy
  <1>6. isDir <=> Place(Links, names) # NONE /\ inodes[Place(Links, names)].file_type = "d"
    BY <1>4, <1>5 DEF Tree!IsDirectory
  <1>7. CASE PATH_OK(path)
    <2>1. names = _split_path(path)
      BY <1>7 DEF TreePath
    <2>2. inum = Place(Links, names)
      BY <1>2, <1>7, <2>1, UsedIs, GetInumIs
    <2>3. NONE \notin inode_map /\ Root \in inode_map
      BY <1>1, Shape DEF TypeInv
    <2>4. inum # NONE => inum \in inode_map
      BY <1>1, <1>4, <2>2, <2>3, PlaceIsLinked
    <2> HIDE DEF inum, names
    <2>5. isDir <=> IsDir(inum)
      BY <1>6, <2>2, <2>3, <2>4 DEF IsDir, block_store_sub_test
    <2>6. ASSUME IsDir(inum)
          PROVE  Tree!Children(names) = {entry.filename : entry \in Listed(inum)}
      <3>1. inum \in Dirs
        BY <1>2, <2>6 DEF IsDir, block_store_sub_test, Dirs
      <3>2. ASSUME NEW name \in Names, Append(names, name) \in DOMAIN ListedTree
            PROVE  \E entry \in Listed(inum) : name = entry.filename
        <4>1. Place(Links, Append(names, name)) = ChildIn(Links, inum, name)
          BY <1>1, <1>4, <2>2, PlaceIs DEF Components
        <4>2. ChildIn(Links, inum, name) # NONE
          BY <1>5, <3>2, <4>1
        <4>3. PICK l \in Links : l[1] = inum /\ l[2].filename = name
          BY <1>1, <4>2, ChildInIs
        <4>4. l[2] \in Listed(inum)
          BY <3>1, <4>3, ListsIs
        <4> QED BY <4>3, <4>4
      <3>3. ASSUME NEW entry \in Listed(inum)
            PROVE  entry.filename \in Names /\ Append(names, entry.filename) \in DOMAIN ListedTree
        <4>1. <<inum, entry>> \in Links
          BY <3>1, ListsIs
        <4>2. entry.filename \in Names /\ entry.inum \in Inums
          BY <1>1, <4>1 DEF GoodLinks
        <4>3. ChildIn(Links, inum, entry.filename) = entry.inum
          BY <1>1, <4>1, ChildInIs
        <4>4. entry.filename \in Components
          BY <4>2 DEF Components
        <4>5. Place(Links, Append(names, entry.filename)) = entry.inum
          BY <1>1, <1>4, <2>2, <4>3, <4>4, PlaceIs
        <4>6. Append(names, entry.filename) \in Seq(Components)
          BY <1>4, <4>4, AppendProperties
        <4>7. Append(names, entry.filename) \in TreePaths /\ entry.inum # NONE
          BY <4>2, <4>5, <4>6, Shape DEF ReachInv
        <4> QED BY <1>5, <4>2, <4>5, <4>7
      <3>4. Tree!Children(names) = {name \in Names : Append(names, name) \in DOMAIN ListedTree}
        BY DEF Tree!Children
      <3> QED BY <3>2, <3>3, <3>4
    <2>7. res' = IF isDir THEN Tree!Result("get_dir", 0, Tree!Children(names))
                 ELSE Tree!Result("get_dir", -1, {})
      BY <1>2, <2>5, <2>6 DEF Tree!Result, Result
    <2> QED BY <1>2, <1>3, <2>7 DEF Tree!List, names
  <1>8. CASE ~PATH_OK(path)
    <2>1. inum = NONE /\ names = <<NoName>>
      BY <1>8 DEF _get_inum, TreePath
    <2>2. ~IsDir(NONE)
      BY <1>1, Shape DEF IsDir, block_store_sub_test, TypeInv
    <2>3. Place(Links, <<NoName>>) = NONE
      <3>1. <<>> \in Seq(Components) /\ NoName \in Components
        BY EmptySeq DEF Components
      <3>2. Place(Links, Append(<<>>, NoName)) = ChildIn(Links, Root, NoName)
        BY <1>1, <3>1, PlaceIs
      <3>3. \A l \in Links : l[2].filename # NoName
        BY <1>1, NameAssumption DEF GoodLinks
      <3>4. ChildIn(Links, Root, NoName) = NONE
        BY <3>3 DEF ChildIn
      <3>5. Append(<<>>, NoName) = <<NoName>>
        OBVIOUS
      <3> QED BY <3>2, <3>4, <3>5
    <2>4. ~isDir
      BY <1>6, <2>1, <2>3
    <2>5. res' = Tree!Result("get_dir", -1, {})
      BY <1>2, <2>1, <2>2 DEF Tree!Result, Result
    <2> QED BY <1>2, <1>3, <2>4, <2>5 DEF Tree!List
  <1> QED BY <1>7, <1>8

LEMMA PlaceInvNext ==
    ASSUME TInv, MarkInv, PlaceInv, BitmapSpellsNothing, TInv', [Next]_vars
    PROVE  PlaceInv'
  <1>1. IInv /\ IInv' /\ CallInv
    BY DEF TInv, IInv
  <1>2. CASE call'.pc = "idle"
    BY <1>2 DEF PlaceInv
  <1>3. CASE WriteParent
    <2>1. call'.pc = "idle"
      BY <1>3, IdleIs DEF WriteParent, Return
    <2> QED BY <1>2, <2>1
  <1>4. CASE ~WriteParent
    <2>1. Links' = Links
      BY <1>1, <1>4, LinksSame
    <2>2. CASE call.pc # "idle" /\ call'.path = call.path /\ call'.parent = call.parent
      BY <2>1, <2>2 DEF PlaceInv
    <2>3. CASE UNCHANGED call
      BY <2>1, <2>3 DEF PlaceInv
    <2>4. ASSUME NEW path \in Paths, NEW type \in Types, fs_create(path, type)
          PROVE  PlaceInv'
      <3>1. /\ call.pc = "idle" /\ MayLookUp(path)
            /\ call'.path = path /\ call'.parent = _get_inum(_dirname(path))
        BY <2>4 DEF fs_create, Quiet, Idle
      <3>2. /\ PATH_OK(_dirname(path))
            /\ _dirname(path) \in Seq(Used \cup {Slash})
        BY <3>1, UsedIs, DirnameIs
      <3>3. _get_inum(_dirname(path)) = Place(Links, _split_path(_dirname(path)))
        BY <3>1, <3>2, GetInumIs
      <3> QED BY <2>1, <3>1, <3>3 DEF PlaceInv
    <2>5. CASE Crash \/ \E path \in Paths : CreateRefused(path)
      <3>1. call'.pc = "idle"
        BY <2>5, IdleIs DEF Crash, CreateRefused, Return
      <3> QED BY <1>2, <3>1
    <2>6. CASE CreateStep
      BY <1>1, <1>2, <1>4, <2>2, <2>6, IdleIs DEF CreateStep, AllocInode, Verified_fails,
         WriteInode, WriteEntries, FreeInode, FreeBlock, At, Return, CallInv
    <2> QED BY <2>3, <2>4, <2>5, <2>6 DEF Next, vars, file_takes_block, file_gives_block,
               fs_unmount, fs_mount, fs_get_dir
  <1> QED BY <1>3, <1>4

\* After fs_format there is a root directory with no files.
LEMMA InitIsTree ==
    ASSUME Init, <<Slash>> \in Paths
    PROVE  Tree!Init /\ ReachInv
  <1>1. TInv /\ MarkInv
    BY InitTInv, InitMarkInv
  <1>2. Links = {}
    <2>1. \A i \in Inums : inodes[i].file_size = 0
      BY NewInodeType DEF Init, Types
    <2>2. Filled = {}
      BY <1>1, <2>1, FilledIs DEF TInv, IInv, TypeInv
    <2> QED BY <2>2 DEF Links
  <1>3. GoodLinks({})
    BY DEF GoodLinks
  <1>4. ASSUME NEW p \in Seq(Components), p # <<>> PROVE Place({}, p) = NONE
    <2>1. PICK q \in Seq(Components), x \in Components : p = Append(q, x)
      BY <1>4, SequenceEmptyOrAppend
    <2>2. Place({}, p) = ChildIn({}, Place({}, q), x)
      BY <1>3, <2>1, PlaceIs
    <2> QED BY <2>2 DEF ChildIn
  <1>5. Place({}, <<>>) = Root /\ Root # NONE
    <2>1. NoName \in Components /\ <<>> \in Seq(Components)
      BY EmptySeq DEF Components
    <2> QED BY <1>3, <2>1, PlaceIs, Shape
  <1>6. <<>> \in TreePaths
    <2>1. <<>> \in Seq(Used \cup {Slash}) /\ Append(<<>>, Slash) = <<Slash>>
      BY EmptySeq
    <2>2. _split_path(<<Slash>>) = <<>>
      BY <2>1, UsedIs, SplitAppend, SplitEmpty
    <2>3. PATH_OK(<<Slash>>)
      BY DEF PATH_OK, NULL
    <2>4. TreePath(<<Slash>>) = <<>>
      BY <2>2, <2>3 DEF TreePath
    <2> QED BY <2>4 DEF TreePaths
  <1>7. ReachInv
    BY <1>2, <1>4, <1>6 DEF ReachInv
  <1>8. \A q \in TreePaths : q \in Seq(Components)
    BY SplitIsUsed DEF TreePaths
  <1>9. ListedTree = [p \in {<<>>} |-> "d"]
    <2>1. {q \in TreePaths : Place(Links, q) # NONE} = {<<>>}
      BY <1>2, <1>4, <1>5, <1>6, <1>8
    <2>2. inodes[Root].file_type = "d"
      BY Shape, NewInodeType DEF Init, Types
    <2>3. ListedTree = [p \in {<<>>} |-> inodes[Place(Links, p)].file_type]
      BY <1>1, <2>1, TreeIs DEF TreeBy
    <2> QED BY <1>2, <1>5, <2>2, <2>3
  <1>10. mounted = TRUE /\ res = Result("none", 0, {})
    BY DEF Init
  <1>11. Tree!Init
    BY <1>9, <1>10 DEF Tree!Init, Tree!Root, Tree!Result, Result
  <1> QED BY <1>7, <1>11

LEMMA ReachInvNext ==
    ASSUME TInv, MarkInv, NewInv, PlaceInv, ReachInv, TInv', MarkInv', [Next]_vars
    PROVE  ReachInv'
  <1>1. CASE WriteParent
    BY <1>1, EndsWithCreate
  <1>2. CASE ~WriteParent
    BY <1>2, TreeSame DEF ReachInv
  <1> QED BY <1>1, <1>2

LEMMA NextIsTree ==
    ASSUME TInv, MarkInv, NewInv, PlaceInv, ReachInv, BitmapSpellsNothing,
           TInv', MarkInv', [Next]_vars
    PROVE  [Tree!Next]_(Tree!tvars)
  <1>1. CASE WriteParent
    <2>1. /\ Tree!Create(TreePath(call.path), call.type)
          /\ call.path \in Paths /\ call.type \in Types
      BY <1>1, EndsWithCreate
    <2>2. TreePath(call.path) \in TreePaths /\ call.type \in Tree!Types
      BY <2>1 DEF TreePaths, Tree!Types, Types
    <2> QED BY <2>1, <2>2 DEF Tree!Next
  <1>2. CASE ~WriteParent
    <2>1. ListedTree' = ListedTree
      BY <1>2, TreeSame
    <2>2. CASE UNCHANGED <<mounted, res>>
      BY <2>1, <2>2 DEF Tree!tvars
    <2>3. ASSUME mounted, UNCHANGED mounted, res' = Result("create", -1, {})
          PROVE  Tree!Next
      <3>1. Tree!CreateFails
        BY <2>1, <2>3 DEF Tree!CreateFails, Tree!Result, Result
      <3> QED BY <3>1 DEF Tree!Next
    <2>4. CASE CreateStep
      BY <1>2, <2>2, <2>3, <2>4 DEF CreateStep, AllocInode, Verified_fails, WriteInode,
         WriteEntries, FreeInode, FreeBlock, At, Return, device
    <2>5. CASE \E path \in Paths : CreateRefused(path)
      BY <2>3, <2>5 DEF CreateRefused, Return, Quiet
    <2>6. ASSUME NEW path \in Paths, fs_get_dir(path) PROVE Tree!Next
      <3>1. Tree!List(TreePath(path)) /\ TreePath(path) \in TreePaths
        BY <2>6, ListsTheTree DEF TreePaths
      <3> QED BY <3>1 DEF Tree!Next
    <2>7. CASE fs_unmount \/ Crash
      <3>1. mounted /\ mounted' = FALSE /\ UNCHANGED res
        BY <2>7 DEF fs_unmount, Crash, Quiet
      <3>2. Tree!Detach
        BY <2>1, <3>1 DEF Tree!Detach
      <3> QED BY <3>2 DEF Tree!Next
    <2>8. CASE fs_mount
      <3>1. Tree!Attach
        BY <2>1, <2>8 DEF fs_mount, Tree!Attach
      <3> QED BY <3>1 DEF Tree!Next
    <2>9. CASE \E path \in Paths, type \in Types : fs_create(path, type)
      BY <2>2, <2>9 DEF fs_create
    <2>10. CASE file_takes_block \/ file_gives_block \/ UNCHANGED vars
      BY <2>2, <2>10 DEF file_takes_block, file_gives_block, vars
    <2> QED BY <2>4, <2>5, <2>6, <2>7, <2>8, <2>9, <2>10 DEF Next
  <1> QED BY <1>1, <1>2

(* fs_create and fs_get_dir, with their inodes, entries and maps and with *)
(* deaths at every step but one, are the tree of named files that FS.h    *)
(* promises, provided that the root can be asked for and that no path     *)
(* names a file what the inode bitmap spells (FS.c:255-262).              *)
THEOREM NamesImplementTree ==
    ASSUME Torn = FALSE, BitmapSpellsNothing, <<Slash>> \in Paths
    PROVE  Spec => ImplementsFileTree
  <1> DEFINE Inv == TInv /\ MarkInv /\ NewInv /\ PlaceInv /\ ReachInv
  <1>1. Init => Tree!Init /\ NewInv /\ PlaceInv /\ ReachInv
    <2>1. Init => PlaceInv
      BY IdleIs DEF Init, PlaceInv
    <2> QED BY <2>1, InitIsTree, InitNewInv
  <1>2. Inv /\ TInv' /\ MarkInv' /\ [Next]_vars => NewInv' /\ PlaceInv' /\ ReachInv'
    BY NewInvNext, PlaceInvNext, ReachInvNext
  <1>3. Inv /\ TInv' /\ MarkInv' /\ [Next]_vars => [Tree!Next]_(Tree!tvars)
    BY NextIsTree
  <1>4. Spec => [](TInv /\ MarkInv)
    BY AlwaysTInv, AlwaysMarkInv, PTL
  <1>5. Spec => [](NewInv /\ PlaceInv /\ ReachInv)
    BY <1>1, <1>2, <1>4, PTL DEF Spec
  <1>6. Spec => Tree!Init /\ [][Tree!Next]_(Tree!tvars)
    BY <1>1, <1>3, <1>4, <1>5, PTL DEF Spec
  <1> QED BY <1>6 DEF ImplementsFileTree, Tree!Spec
=============================================================================
