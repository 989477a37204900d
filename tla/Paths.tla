------------------------------- MODULE Paths -------------------------------
(* Paths and the file system under them, as ConfigParser, FileScanner and   *)
(* FileCopier see them.  A path is the sequence of its components: /a/b is  *)
(* <<"a", "b">>.  std::filesystem reads the name after a trailing slash as  *)
(* an empty component, and lexically_normal keeps it: /a/b/ is              *)
(* <<"a", "b", "">>.  Links and "." and ".." are left out.                  *)
EXTENDS Naturals, FiniteSets, SequencesExt

CONSTANTS
  Directory,   \* the directories there are
  RegularFile, \* the regular files
  OtherFile    \* sockets, devices

NoName == ""

Existing == Directory \cup RegularFile \cup OtherFile

(* Names are not empty, and what is above something is a directory.        *)
ASSUME PathsAssumption ==
  /\ Existing \subseteq Seq(STRING \ {NoName})
  /\ <<>> \in Directory /\ IsFiniteSet(RegularFile)
  /\ \A p \in Existing : \A n \in 0 .. Len(p) - 1 : SubSeq(p, 1, n) \in Directory
  /\ RegularFile \cap Directory = {} /\ OtherFile \cap (Directory \cup RegularFile) = {}

HasSlash(p) == p # <<>> /\ Last(p) = NoName

Plain(p) == IF HasSlash(p) THEN Front(p) ELSE p

IsDirectory(p) == Plain(p) \in Directory

IsRegularFile(p) == p \in RegularFile

Exists(p) == IsDirectory(p) \/ IsRegularFile(p) \/ p \in OtherFile

(* What directory_iterator yields. *)
Entries(d) ==
  {p \in Existing \ {<<>>} : Front(p) = Plain(d)}

(* The components are compared as far as the shorter path goes: the test   *)
(* is symmetric.                                                           *)
IsParentDirectory(parent, child) ==
  \A i \in DOMAIN parent \cap DOMAIN child : parent[i] = child[i]

(* path::filename *)
FileName(p) == IF p = <<>> THEN NoName ELSE Last(p)

(* Where a file of the source root is copied to.  Without top-folder mode  *)
(* it is its whole path (SanitizePath drops the leading slash); dividing   *)
(* by an empty name adds nothing.                                          *)
FinalDestPath(destination, top, file, root) ==
  Plain(destination) \o
    IF ~top THEN file
    ELSE IF IsRegularFile(root) THEN <<FileName(file)>>
    ELSE (IF FileName(root) = NoName THEN <<>> ELSE <<FileName(root)>>)
           \o SubSeq(file, Len(Plain(root)) + 1, Len(file))
=============================================================================
