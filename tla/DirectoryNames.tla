----------------------------- MODULE DirectoryNames -----------------------------
(***************************************************************************)
(* How the FAT12 driver of the installer finds a file by its path and      *)
(* lists a directory (src/installer/src/sys/disk/fs/fat12.c): the upper    *)
(* case of a path, its cut at each '/', the name of an entry without its   *)
(* padding, and the search of one directory after the other.               *)
(*                                                                         *)
(* An entry has a name and an extension padded with blanks, a kind and its *)
(* first cluster; a directory is the sequence of the entries before the    *)
(* first that begins with 0; files is what lies at each cluster.  Memory   *)
(* and reads, which may fail, are Fat12Driver's matter.                    *)
(***************************************************************************)
EXTENDS CLibrary

ROOT == 1         \* no cluster: these begin at 2
DOT == -2        \* '.' - '0'
SLASH == -1      \* '/' - '0'
DELETED == -75   \* 0xE5, as the signed char it is read as

UpTo(s, c) == LET i == strchr(s, c) IN IF i = NULL_POINTER THEN s ELSE SubSeq(s, 1, i - 1)

clusterfilename_to_filenameNoPoint(entry) == UpTo(entry.name, BLANK) \o UpTo(entry.extension, BLANK)
clusterfilename_to_filename(entry) ==
  UpTo(entry.name, BLANK) \o (IF entry.extension[1] # BLANK THEN <<DOT>> ELSE <<>>)
                          \o UpTo(entry.extension, BLANK)

regularfilename_to_filename(src) == [i \in DOMAIN src |-> toupper(src[i])]

(* The name up to the next '/', and whether and where there is a next one.  *)
tokenize(filename) ==
  LET slash == strchr(filename, SLASH)
  IN [current |-> UpTo(filename, SLASH),
      isLast  |-> slash = NULL_POINTER,
      next    |-> IF slash = NULL_POINTER THEN <<>> ELSE SubSeq(filename, slash + 1, Len(filename))]

(* 0xE5 is compared with a signed char, and never found: no entry before    *)
(* the free ones is passed over.  An index, or 0.                           *)
find_entry(entries, name) ==
  SelectInSeq(entries, LAMBDA e : strcmp(clusterfilename_to_filename(e), name) = 0)

Failure(err) == [err |-> err]
Found(entry) == [err |-> "NO", entry |-> entry]

get_entry_of_filename(files, filename) ==
  LET from[at \in Seq(Int) \X DOMAIN files] ==  \* what is left of the path, and a cluster
        LET token == tokenize(at[1])
            i  == find_entry(files[at[2]], token.current)
            it == files[at[2]][i]
        IN CASE at[1] = <<>> -> Failure("INVARG")
             [] at[1] # <<>> /\ i = 0 -> Failure("NOTFOUND")
             [] at[1] # <<>> /\ i # 0 /\ token.isLast -> Found(it)
             [] at[1] # <<>> /\ i # 0 /\ ~token.isLast /\ it.kind # "dir" -> Failure("NOTADIR")
             [] OTHER -> from[<<token.next, it.cluster>>]
  IN from[<<IF filename # <<>> /\ Head(filename) = SLASH THEN Tail(filename) ELSE filename, ROOT>>]

create_dir_entry(entry) ==
  [name |-> clusterfilename_to_filename(entry), isDir |-> entry.kind = "dir"]

(* The entries dir_open copies, after each it has looked at; a directory    *)
(* that is to be listed is found as a file is.                              *)
Listed(entries) ==
  LET after[n \in 0 .. Len(entries)] ==
        IF n = 0 THEN <<>>
        ELSE IF entries[n].kind = "label" THEN after[n - 1]
        ELSE Append(after[n - 1], create_dir_entry(entries[n]))
  IN after[Len(entries)]

ListAt(files, found) ==
  IF found.err # "NO" THEN found
  ELSE IF found.entry.kind # "dir" THEN Failure("NOTADIR")
  ELSE Found(Listed(files[found.entry.cluster]))

dir_open(files, dirname) ==
  IF strcmp(dirname, <<SLASH>>) = 0 THEN Found(Listed(files[ROOT]))
  ELSE ListAt(files, get_entry_of_filename(files, regularfilename_to_filename(dirname)))

file_lookup(files, filename) ==
  get_entry_of_filename(files, regularfilename_to_filename(filename))

(***************************************************************************)
(* Properties, of one call each.                                           *)
(***************************************************************************)

(* The name of an entry as a user writes it: without the blanks that pad    *)
(* it, and with a point before an extension that is not empty.              *)
Unpadded(s) == LET n == SelectLastInSeq(s, LAMBDA c : c # BLANK) IN SubSeq(s, 1, n)
DosName(entry) ==
  IF Unpadded(entry.extension) = <<>> THEN Unpadded(entry.name)
  ELSE Unpadded(entry.name) \o <<DOT>> \o Unpadded(entry.extension)

PathOf(names) ==
  LET from[k \in 1 .. Len(names)] ==
        IF k = Len(names) THEN names[k] ELSE names[k] \o <<SLASH>> \o from[k + 1]
  IN from[1]

(* An entry that begins with 0xE5 is deleted: the comments say that it is   *)
(* free and passed over, the code finds and lists it.  What a driver should do *)
(* with one is left open here: nothing below asks for it, and nothing forbids *)
(* it.                                                                      *)
IsDeleted(name) == name # <<>> /\ Head(name) = DELETED

(* The entries a path of names leads through, each the first of its name in *)
(* the directory before it.                                                 *)
Leads(files, names, entries) ==
  LET directory(i) == IF i = 1 THEN files[ROOT] ELSE files[entries[i - 1].cluster]
  IN /\ Len(entries) <= Len(names)
     /\ \A i \in DOMAIN entries :
          /\ i > 1 => entries[i - 1].kind = "dir"
          /\ \E j \in DOMAIN directory(i) :
               /\ directory(i)[j] = entries[i]
               /\ \A k \in 1 .. j : DosName(directory(i)[k]) = names[i] <=> k = j

(* A path, none of whose names is that of a deleted entry, is found if and  *)
(* only if each of its names but the last leads to a directory that has an  *)
(* entry of the next name, in whatever case it is written, and the entry    *)
(* found is the one it leads to.  A path is said to go through a file       *)
(* ("NOTADIR") only if it does.                                             *)
LookupIsRight(files, names, result) ==
  LET upper    == [i \in DOMAIN names |-> regularfilename_to_filename(names[i])]
      all      == UNION {ToSet(files[c]) : c \in DOMAIN files}
      chains   == {es \in SeqOf(all, Len(names)) : es # <<>> /\ Leads(files, upper, es)}
      whole    == {es \in chains : Len(es) = Len(names)}
  IN (\A i \in DOMAIN names : ~IsDeleted(names[i])) =>
       /\ result.err = "NO" <=> whole # {}
       /\ result.err = "NO" => \E es \in whole : Last(es) = result.entry
       /\ result.err = "NOTADIR" => \E es \in chains \ whole : Last(es).kind # "dir"
       /\ result.err = "INVARG" => <<>> \in ToSet(names)

(* A listing has every entry of the directory that is not a label, under the *)
(* name it is found by, in the order of the directory: all but deleted ones, *)
(* of which it may have some, all or none.                                  *)
ListingIsRight(files, names, result) ==
  LET found == file_lookup(files, PathOf(names))
      entries == files[found.entry.cluster]
      numbers == {j \in DOMAIN entries : entries[j].kind # "label"}
      Shows(shown) ==
        /\ Len(result.entry) = Cardinality(shown)
        /\ \A j \in shown :
             result.entry[Cardinality(shown \cap (1 .. j))] =
               [name |-> DosName(entries[j]), isDir |-> entries[j].kind = "dir"]
  IN /\ result.err = "NO" <=> found.err = "NO" /\ found.entry.kind = "dir"
     /\ result.err = "NO" =>
          \E shown \in SUBSET numbers :
            /\ \A j \in numbers \ shown : IsDeleted(entries[j].name)
            /\ Shows(shown)

(***************************************************************************)
(* What the code says of itself, and does not do.                          *)
(***************************************************************************)

(* "If filename = 0xE5, this one is free" (fat12.c:622): no listing shows a *)
(* deleted file.                                                            *)
DeletedAreFree(result) ==
  result.err = "NO" => \A i \in DOMAIN result.entry : ~IsDeleted(result.entry[i].name)
=============================================================================
