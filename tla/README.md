# TLA+ models of fuse-ext2fs (ext2fuse-macOS)

This directory holds TLA+ models of the FUSE ext2 driver in `src/src/`, the
TLC configurations that check them, and `PROJECT.json`, which maps every
modelled definition to the C lines it translates and lists the runs,
mutants, findings and hazards.

## The system

`fuse-ext2fs.c` registers low-level FUSE callbacks (`op_*`). FUSE runs them
one at a time in its single-threaded session loop (`main` calls
`fuse_session_loop`, not the multi-threaded loop), so a request runs to
completion before the next starts. The callbacks delegate to:

| Part | Source | Role |
|---|---|---|
| Namespace handlers | `ext2fs.c` (`do_create`, `do_link`, `do_unlink`, `do_unlink_on_ino`, `kill_file_by_inode`, `do_mkdir`, `do_rmdir`, `do_rmdir_on_ino`), `mkdir.c` (`new_ext2fs_mkdir`), `rename.c` (`do_rename`), the `op_*` wrappers | create, remove, link, rename names; allocate and free inodes and blocks |
| Permission checks | `perms.c` | `check_perms` is off (`do_permissions_checks = 0`); `check_perms_in_inode` is called inside `do_create`, `new_ext2fs_mkdir`, `do_rmdir_on_ino` |
| File handles | `ext2fs.c` (`do_open`, `do_read`, `do_write`, `do_file_close`) | an `ext2_file` handle keeps a copy of the inode (`fh->inode`) |
| Truncate | `truncate.c`, `op_setattr` | `do_truncate`, `do_ftruncate`, `do_shorten` (block release through `ext2fs_block_iterate` and `truncate_blocks_proc`), `do_lengthen` |
| Symlinks | `symlink.c` | `op_symlink`: `do_create`, `do_open`, a `do_write` of the target and its NUL, `do_file_close`; `op_readlink` reads it back; `op_unlink` removes it through `kill_file_by_inode` |
| Listing | `readdir.c`, `op_lookup`, `op_getattr` | `op_readdir` builds the listing and replies a slice of it; lookup and getattr only read |
| Block wiping | `wipe_block.c` | overwrite freed blocks |

All disk state lives in libext2fs (`fs`): the inode table, the inode and
block bitmaps and the directory blocks. The handlers change it through
`ext2fs_*` calls, each of which can fail; the model treats libext2fs as the
external collaborator and injects those failures.

## Modules

**`Ext2Namespace.tla`** models the namespace handlers.

* State: `inode` (mode, `i_links_count`, deletion time, blocks of each
  inode), `imap` and `bmap` (the bitmaps), `ents` (directory entries, a bag
  of `[dir, name, ino]` records, so a duplicate name is visible), `pc` (the
  handler in progress and its locals), `rc` (the last reply) and `faults`.
* Each handler is split into the steps between which its state can differ
  from the disk: one action per step (`RenameStart`, `RenameLink`,
  `RenameTarget`, `RenameOld`, `RenameOldParent`, `RenameCleanup`, ...).
  Sub-routines (`do_unlink_on_ino`, `do_rmdir_on_ino`, `kill_file_by_inode`)
  are called by storing the caller's record as the continuation `k`;
  `Return` resumes it with the result in `sub`.
* Every libext2fs call that can fail is drawn from `Try(site)`: it fails
  only when its site is in `FaultSites` and fewer than `MaxFaults` failures
  have happened. `DoLink` is `do_link`: `ext2fs_link`, and on a full
  directory `ext2fs_expand_dir` and a second `ext2fs_link`, which can fail
  in its turn after the directory has grown.  `KillRelease` draws the
  result of `ext2fs_block_iterate`, which `kill_file_by_inode` ignores: on
  a failure (site `block_iterate`) the inode is freed and its blocks stay
  marked.
* `do_rename` raises a link count with no limit; `LinkBound` is the bound
  the model needs on that counter (a leaked raise repeats for ever):
  `MaxLinks` for a file, one above `MaxDirLinks` for a directory, so that a
  parent holding every other inode can still take a directory renamed into
  it.  `DirEmpty` is `rmdir_proc`'s scan: a directory holding only `.` and
  `..` is empty.
* `check_perms_in_inode` is a free choice `allowed \in BOOLEAN` here; the
  operator itself is checked in `Ext2Perms`.
* `VfsChecks` restricts the inputs to those the kernel VFS passes (the
  source exists, the target type matches, a name to create is absent, and
  the directories were reached by lookup).
  Without it the handlers can be asked to make a duplicate name.

**`Ext2Files.tla`** extends `Ext2Namespace` with the handle table `fh`:
each slot is free (`NoFile`) or holds an inode number and the copy of the
inode that `ext2fs_file_open` read (`fh->inode`), including its block
pointers.

* `Open` is `do_open` (from `op_open`, `opendir` and `op_create`); `Read` is
  `do_read`, which writes the whole copy back with `ext2fs_write_inode`;
  `Write` is `do_write`: `ext2fs_file_write` allocates a data block for a
  file that has none (up to `MaxFileBlocks`) and maps it in the copy and on
  disk, and `set_file_size` writes the copy back when the write extends the
  file; `Release` is `op_release`/`releasedir`.
* `SetattrSize` is the size path of `op_setattr`: `do_truncate` opens a
  handle of its own, `DoFtruncate` shortens (`Shorten`: the kept blocks stay
  mapped, the others are freed in the bitmap) or lengthens (`Lengthen`:
  `do_lengthen` writes the gap, which allocates a block) and the handle is
  closed.  Handles the kernel already holds keep their old copy.
* `op_create` is `FCreateInode` then `FCreateLink`, which opens the new
  inode before the reply, as `op_create` does before `fuse_reply_create`.
* Every other namespace step leaves `fh` unchanged (`NamespaceStep`).
* Byte sizes are abstracted to the set of data blocks; whether a write
  extends the file is an input of the request.

**`Ext2Truncate.tla`** models `do_shorten` in the detail of its block
iterator.  The file is a dense run of `n` data blocks with 12 direct
pointers and single, double and triple indirect blocks of `NInd` pointers.
`VisitData` and `VisitIndirect` are `truncate_blocks_proc` on a data block
and on an indirect block, in the order `ext2fs_block_iterate` visits them
with `BLOCK_FLAG_DEPTH_TRAVERSE` (`Closing`: an indirect block after its
last child).  `DelFlags` is the arithmetic that sets the sticky
`delete_indirect_flags`, `Deletes` the switch that frees an indirect block
under them.  A failed read of an indirect block ends the iteration
(`FirstUnder`); `Reread` is the re-read of the inode and the write of
`i_blocks`.  `Needed(len)` is the reference: the data blocks a length
needs and the indirect blocks above them.

**`PosixNamespace.tla`** is what the namespace requests promise the
kernel, with no steps and no failures: a set `tree` of visible entries
`[dir, name, ino, sub]`, changed by `Make` (create, mkdir), `Link`,
`Remove` (unlink, rmdir of an empty directory) and `Rename` (replacing a
target of the same kind, an empty one for a directory, never moving a
directory below itself), each in one step.

**`Ext2Atomic.tla`** shows that `Ext2Namespace` implements it.  `View` is
the tree of names reachable from the root (what lookup finds).  A handler
changes the disk over several steps, and between them the view is not a
tree of POSIX operations, so a history variable `told` keeps the view of
the last state with no request in progress and takes the new one when the
handler replies: `Namespace == INSTANCE PosixNamespace WITH tree <- told`,
and `ImplementsNamespace == Namespace!ASpec` is checked as a property.  A
failed request must leave the view unchanged or change it as one whole
operation.  `MC_Ext2Atomic.tla` reuses the constants of
`MC_Ext2Namespace`.

**`Ext2Statfs.tla`** models `op_statfs` and `do_statvfs`: the superblock
(`sb`: block count, first data block, `sparse_super`, descriptors per
block, inode table blocks per group, reserved descriptor blocks, free
counts) and whether `op_init`'s `ext2fs_open` succeeded (`opened`).
`TestRootLoop`, `GroupSparse`, `BgHasSuper` and `DoStatvfs` translate
`test_root`, `ext2_group_sparse`, `ext2_bg_has_super` and the overhead
sum; `Statfs` replies `DoStatvfs(sb)`, or with `fs` NULL the uninitialised
buffer (any value).  The reference `DataBlocks` lays the groups out one by
one (the last one shorter), puts a superblock copy, the descriptor table
and its reserve in each group that has a backup (powers of 3, 5 and 7 as
sets), and counts what is left.

**`Ext2Perms.tla`** evaluates `check_perms_in_inode` (a CASE over root,
owner, group, other with the `<< 6`, `<< 3` shifts and the `& 0777` mask,
written as multiplications and `&` from `Bitwise`) on every caller, inode
owner, group, mode and request, and compares it with two reference
definitions: POSIX access by permission class (`PosixAllows`) and the rule
of the specification, where any class granting the request counts
(`SpecAllows`).

**`Ext2Readdir.tla`** models a directory listing paged through
`op_readdir` while other requests change the same directory.

* State: `dir`, the directory as libext2fs lays it out (a sequence of
  blocks, each a sequence of records `[name, cap]` where `cap` is
  `rec_len`; a cleared record has the name `Empty`), and the open listing:
  `state`, the kernel's offset `pos`, how often each name came back (`got`),
  and the names present at `opendir` (`start`) or changed since (`changed`).
* `Link` is `do_link` over `ext2fs_link`: the first record with room takes
  the name, splitting a live record that has slack (`LinkAt`); with none,
  `ext2fs_expand_dir` appends a block.  `Unlink` is `ext2fs_unlink`: the
  record merges into the one before it, or is cleared when first in its
  block (`UnlinkAt`).  `RecLen` is `EXT2_DIR_REC_LEN`.
* `OpenDir` is `opendir` (`op_open`).  `Readdir` is `op_readdir`:
  `do_dir_iterate`/`walk_dir` visit the live records in block order
  (`Listed`), `dirbuf_add` gives each dirent `FUSE_DIRENT_SIZE` bytes and
  stores the buffer size after it as its `off` (`EndOf`), and
  `reply_buf_limited` replies at most `ReplySize` bytes from `pos`.  The
  kernel consumes the whole dirents and continues at the `off` of the last;
  an empty reply ends the listing (`eof`); a `pos` that is not the start of
  a dirent makes the kernel parse from the middle of one (`garbled`).
  `ReaddirFail` is a failed `do_dir_iterate` (EIO).

**`Ext2Symlink.tla`** models `op_symlink`, `op_readlink` and `op_unlink` of
a link.  FUSE's loop runs a request to its reply, so each handler is one
action, and the libext2fs call at which it fails (if any) is drawn from
`SymlinkFaults`, `UnlinkFaults` or `"readlink"`.

* State: one directory `ents`, the inodes' `i_size`, whether blocks are
  mapped (`i_blocks != 0`) and the target in `i_block` (`inode`), the bytes
  of each data block (`data`: a target and whether its NUL is there, or
  `Junk` for bytes never written), per inode the target of the
  `op_symlink` that last took it if that one succeeded (`made`), and the
  last reply.
* `Symlink` is `op_symlink`: `do_create` (`NewInode`), `do_open`, `do_write`
  of `strlen + 1` bytes (`SymlinkBytes`): `ext2fs_file_write` maps a block
  and buffers the bytes, `set_file_size` writes `i_size`,
  `do_file_close` flushes the buffer.  A failure after the link replies
  the error with the name in place; after `do_write` fails the handle is
  never closed and the buffered bytes never reach the block.
* `Readlink` is `op_readlink`; `Fetched` is what its reply can hold: the
  `i_block` string for a link without blocks, otherwise the `i_size` bytes
  `do_read` put in a buffer of `i_size + 1` whose last byte is never set.
* `Unlink` is `op_unlink`: `do_unlink` resolves the name and reads the
  inode, `ext2fs_unlink` removes the name (its error is only logged), and
  `kill_file_by_inode` (`Killed`) writes links 0 and a dtime, then frees
  the blocks and clears the inode's bitmap bit only when
  `ext2fs_inode_has_valid_blocks` (`ValidBlocks`) holds.  Its failure
  points are `UnlinkFaults`.  A freed inode is the one the next
  `op_symlink` takes.
* `Init` can hold links made by the Linux ext2 driver before the mount: a
  fast one (the target and its NUL in `i_block`) and a slow one
  (`i_size = strlen`, written to a block).
* The branch that replies EIO when `bytes != strlen + 1` and then falls
  through to `fuse_reply_entry` (two replies) is not reachable: `do_write`
  itself returns EIO on a short write.

**`Ext2Crash.tla`** extends `Ext2Namespace` with the mount lifecycle
and the device's own copy of the bitmaps (`dimap`, `dbmap`), `mounted` and
a crash count.  libext2fs writes an inode or a directory block to the
device when it is called, but the bitmaps only in memory; they reach the
device in `ext2fs_flush` (`op_fsync`) and `ext2fs_close` (`op_destroy`).

* `Serve` is one step of the namespace model while mounted; `Fsync` is
  `op_fsync` (the flush may fail and the reply is 0 either way);
  `Destroy` is `op_destroy`; `Crash` is the process dying at any point,
  inside a handler included (the `exit(1)` of `release_blocks_proc` is one
  such point); `Mount` is `op_init`, which reads both bitmaps from the
  device.  Nothing in the program marks the file system not clean while it
  is mounted, so no `e2fsck` runs between a crash and the next mount.

**`MC_Ext2Crash.tla`** reuses the constants of `MC_Ext2Namespace`.

**`MC_Ext2Symlink.tla`** has 3 names, 4 inodes, a target of 5 bytes and
one of 70 (it does not fit the 60 bytes of `i_block`), and one fast and
one slow Linux-made link.

**`MC_Ext2Readdir.tla`** gives three names of 4, 4 and 12 characters
(`.` and `..` have 1 and 2).

**`MC_Ext2Files.tla`** adds handle slots `h1`, `h2`, one-slot and
two-slot handle sets and a two-inode set.

**`MC_Ext2Namespace.tla`** gives model values to inodes (`Root`, `i1..i3`),
names (`na`, `nb`) and blocks (`b0..b3`), and a symmetry set over the
non-root inodes and the names. The blocks are not made symmetric (the
root's block is fixed).

## Runs

| Run | Expect | What it shows |
|---|---|---|
| `vfs` | pass | No I/O errors, VFS inputs, 4 inodes, 3 blocks, 3 entries per block: `TypeOK`, `NoDanglingEntry`, `LinksCoverRefs`, `UniqueNames`, `BlocksOwned` hold, and a rename replies OK exactly when it did what it was asked (`RenameReplyTruthful`). |
| `faults` | pass | Up to 2 failures at the checked libext2fs calls, 3 inodes, 4 blocks: names never reach freed inodes, link counts cover names, names stay unique, blocks are never shared. |
| `truncate_stale` | violation | `op_setattr` shrinks a file the kernel holds open through a handle of its own; the open handle's next read writes the old block pointers back, so the inode maps a block the bitmap calls free (`BlocksOwned`; truncate.c:349). This is the `open` then `setattr(size)` the kernel sends for `echo x > file`. |
| `truncate_blocks` | pass | Every dense file of up to 36 blocks (3 pointers per indirect block) and every shorter length, no failures: a successful shorten frees exactly the blocks past the new length, data and indirect, and `i_blocks` counts the rest (`ShortenSuccessFreesTail`). |
| `truncate_faults` | pass | Up to 26 blocks, 2 pointers per indirect block, any libext2fs call may fail: no block the new length needs is ever freed (`NeverFreesNeeded`). |
| `perms` | pass | `check_perms_in_inode` grants exactly what POSIX permission classes grant, for 3 uids, 2 gids, all 512 modes and 8 requests (`MatchesPosix`). |
| `readdir` | pass | A listing during which the directory does not change returns every name exactly once and never resumes inside a dirent (`ListingExactIfUnchanged`); links and unlinks happen at any point, and the property speaks of the listings with none between their requests. |
| `symlink_garbage` | violation | `op_readlink` of a slow link made by the Linux driver (`i_size = strlen`) replies the target followed by the never-set last byte of its buffer and whatever follows (symlink.c:138); a link left with `i_size` 0 by a failed `op_symlink` does the same. |
| `crash` | violation | One `op_create` replies, the process dies before any `op_fsync`, and `op_init` of the next mount reads an inode bitmap in which the new inode was never set: the name leads to a free inode that the next create hands out again (`NoDanglingEntry`; ext2fs.c:317).  The specification promises crash-tolerant operations. |
| `readdir_skip` | violation | The offset the kernel resumes at is a byte position in a buffer `op_readdir` rebuilds per request: a name linked into the slack of an earlier record moves the entries after it, and the next request starts inside a dirent (readdir.c:70).  With names of equal length an unlink before the offset makes the next entry be skipped instead. |
| `rename_dirs` | pass | 4 inodes, 3 blocks of 5 entries, VFS inputs, one I/O error in `rmdir_proc`'s walk, in `ext2fs_expand_dir` or in the block release of a removed target: directories are renamed within a parent, across parents, over empty directories (the target is removed by `do_rmdir_on_ino`) and over non-empty ones (ENOTEMPTY, then the rollback). Names stay unique, a failed rename leaves the entries as they were (`RenameFailureKeepsEntries`), and every reply leaves the visible tree changed by one POSIX operation or not at all (`ImplementsNamespace`). |
| `statfs` | pass | Every file system of 1 to 50 groups of 32 blocks, with and without `sparse_super`, first data block 0 or 1, a full or a shortest last group, 4 or 64 descriptors per block, 1 or 2 inode table blocks per group: `f_blocks` equals the blocks the layout leaves for data (`StatfsMatchesLayout`). |

### Further configurations

All but `files` check one property that the code breaks; TLC reports the
violation and a trace.  They are kept beside the runs of `PROJECT.json`
(which lists the passing runs and the violations recorded as findings) and
are run the same way, e.g. `tlc -workers 2 -config rmdir_reply.cfg
MC_Ext2Namespace` (`rename_target` on `MC_Ext2Namespace`, the `statfs_*`
ones on `Ext2Statfs`).

| Configuration | Expect | What it shows |
|---|---|---|
| `files` | pass | Two inodes, one handle slot, one failure at the handle calls: the handle table and the namespace state stay well formed (`FilesTypeOK`); it exercises every handle action, including writes that allocate a block and `op_setattr` size changes, between namespace requests.  No deeper invariant holds with handles: the stale copy breaks them (`stale_link`, `freed_rewrite`, `truncate_stale`). |
| `rename_linkcount` | violation | A rename whose `do_link` fails leaks the link count it raised (rename.c:169). |
| `rename_eisdir` | violation | File onto directory returns EISDIR without the rollback (rename.c:109); needs `VfsChecks = FALSE`: the Linux VFS rejects this rename before it reaches the mount, so only a caller other than the kernel meets it. |
| `rename_cleanup` | violation | A directory left with two names by a failed rename and failed rollback is freed under one and still named by the other. |
| `mkdir_leak` | violation | `do_mkdir`'s retry allocates a second inode (ext2fs.c:628). |
| `freed_rewrite` | violation | A file unlinked while open is freed at once (the low-level API does not hide it), and the handle's next read writes its copy over the freed inode (ext2fs.c:345). |
| `mkdir_parent` | violation | A failed parent write in `new_ext2fs_mkdir` leaves its link count short (mkdir.c:118). |
| `rename_oldparent` | violation | A directory rename whose read of the old parent fails returns the error after the move, with no rollback (rename.c:151). |
| `rmdir_reply` | violation | `do_rmdir_on_ino` unlinks and frees the directory, then fails to read the parent and replies EPERM for a removal that happened (ext2fs.c:831). |
| `unlink_fault` | violation | An ignored `ext2fs_unlink` failure frees a named inode (ext2fs.c:460). |
| `stale_link` | violation | A read through a handle opened before `op_link` writes the old link count back; unlinking one of the two names then frees an inode the other still names (ext2fs.c:509); the same stale copy as `truncate_stale`. |
| `rename_reply` | violation | A failed and rolled-back file rename replies success (rename.c:178). |
| `truncate_partial` | violation | A failed indirect-block read stops the iterator; `do_shorten` ignores it and replies success with blocks past the new size still mapped (truncate.c:241). |
| `symlink_leak` | violation | `op_unlink` of a fast link (no blocks) writes links 0 and a dtime, and `kill_file_by_inode` returns before clearing the inode's bitmap bit: the inode is never reused (ext2fs.c:366) (`DeletedInodesFreed`).  Only a fast link lacks valid blocks: `ext2fs_inode_has_valid_blocks` is true for every regular file and directory, empty ones included. |
| `symlink_error` | violation | `op_symlink` failing in `do_open`, `do_write` or `do_file_close` replies the error with the new link in place (symlink.c:43). |
| `perms_spec` | violation | The specification's rule lets the world bits grant an owner or group member; the code judges them by their own class alone (perms.c:35). |
| `rename_target` | violation | The `rename_dirs` setting with one I/O error at `ext2fs_link`: a directory renamed over an empty directory fails to link its new `..` after `do_rmdir_on_ino` removed the target; the rollback removes the new name and replies EIO, and the target is gone (`RenameFailureKeepsEntries`; rename.c:134).  Spec section 4.7 describes this rollback, which does not restore the target, so it is recorded here, not as a finding. |
| `statfs_resize` | violation | With `s_reserved_gdt_blocks` = 2 (a `resize_inode` file system) `do_statvfs` leaves the reserve out of the overhead and `f_blocks` exceeds the data blocks (ext2fs.c:703; `StatfsMatchesLayout`).  Linux's `ext2_statfs` counts them. |
| `statfs_unopened` | violation | `op_init`'s `ext2fs_open` failed, so `fs` is NULL; `do_statvfs` returns 1 at once and `op_statfs` ignores it and replies its uninitialised stack buffer (fuse-ext2fs.c:342). |

Every property of a passing run has a mutant in `PROJECT.json`: a plausible
bug in a mapped action (a dropped check, a missing bitmap update, a wrong
parent) that TLC catches under that run's configuration.

## Bounds

* 3 inodes besides the root let a rename replace an existing target while a
  third inode exists; 2 names allow a name to be moved onto another.
* 3 entries per block with a root block holding `.` and `..` means the
  second name in a directory forces `ext2fs_expand_dir`, so the full
  directory paths of `do_link` and `do_mkdir` are reached; 3 or 4 blocks let
  expansion both succeed and run out.
* `MaxLinks = 3` bounds the link count raised by `op_link` and by
  `do_rename` for a file; `MaxDirLinks` (inodes + 1) bounds a parent's
  count raised by `mkdir`, and one more (`LinkBound`) the new parent's
  count raised by a directory rename, where the target's `..` is still
  counted.  Without them a count leaked by a failed rename could be raised
  for ever.  The code has no limit; only counts already leaked by failed
  renames (the `rename_linkcount` defect, reached in `vfs` through a full
  directory) reach the bounds.
* `MaxFaults = 2` lets a failure happen in a step and again in its rollback.
* `faults` uses 3 inodes and 4 blocks (about 275 thousand states); `vfs`
  uses 4 inodes and 3 blocks (about 217 thousand).  Both, and
  `rename_dirs`, fingerprint states by a `VIEW` without `rc`: the reply of
  the last request is sent to the kernel and read by no action, so states
  differing only in it have the same successors; the rename properties
  read `rc'` only in the step that sets it.
* `rename_dirs`: with 3 entries per block a directory holding a
  subdirectory and two names needs a second block, and 4 blocks are out of
  reach in time; blocks of 5 entries let the root hold two directories,
  one of them non-empty, so a directory can be renamed over an empty one
  and over a non-empty one.  The faults are placed where the directory
  path of `do_rename` can fail (the emptiness walk, the growth of the new
  parent); `rename_target` adds `ext2fs_link`.
* `statfs`: 50 groups reach the sparse groups 25, 27 and 49 and every
  smaller power of 3, 5 and 7; 4 descriptors per block make the
  descriptor table several blocks long, 64 keep it at one.  A last group
  of one block more than its own structures is the smallest `mke2fs`
  keeps.
* `files` uses the root and one more inode and one handle slot, with
  `MaxFileBlocks = 1`: a file with two names, a directory made in place of
  a freed file, a block written and then truncated away are all reachable.
  Two slots (`stale_link`, `freed_rewrite`) are used where a second handle
  is the point; with two slots and a fault the full run takes over 3
  minutes.
* `crash`: one crash (`MaxCrashes = 1`) and no I/O failures, over the
  `vfs` constants; one create and one crash are enough, so more crashes
  would only lengthen the search.  With `flush` in `FaultSites` the same
  violation is also reached through an `op_fsync` whose failed flush
  replied 0.
* `truncate_blocks`: with `NInd = 3` a file of 36 blocks has 12 direct
  blocks, 3 under the single indirect block, 9 under the double and 12 under
  the triple, so every flag of `truncate_blocks_proc` is set and the second
  double-indirect group under the triple block (where `ALL_BUT_TRIPLE`
  matters) exists.  `BlockSize = 2` gives lengths inside a block as well as
  at its boundary.  `truncate_faults` uses `NInd = 2`, 26 blocks (again
  two groups under the triple block) to keep every fault placement in time.
* `perms`: uid 0 and two other uids, two gids cover root, owner, group
  member and other for every mode.
* `symlink_garbage` and the symlink configurations: a 5-byte and a 70-byte target give both a fast and a slow
  Linux-made link; 4 inodes leave two for `op_symlink`, so a failed one
  (which can keep its inode) can be followed by a successful one and a
  full inode table is reached; `MaxFaults = 2` lets a failed `op_symlink`
  be followed by a failed `op_readlink`.  Unlinking the slow link frees
  its inode, so a later `op_symlink`, failing or not, reuses it.
* `readdir`: blocks of 48 bytes hold `.`, `..` and one short name, or
  records with slack a later name can split; 2 blocks make
  `ext2fs_expand_dir` happen and `Unlink` clear a block's first record.  A
  reply of 72 bytes (a page scaled to the names) holds two or three
  dirents, so a listing of up to five names takes several requests and a
  change can fall between them.

## Fairness

No run checks a liveness property.  Every handler is straight-line code
whose only loop, `do_mkdir`'s retry after `ext2fs_expand_dir`, ends when
the device runs out of inodes or blocks; each handler therefore replies
once it runs, and no mutant of the code could make a termination property
fail.  A readdir listing ends as soon as the kernel stops asking, which
the code does not control.  `Ext2Truncate`'s `Spec` keeps `WF_vars(Next)`
(`do_shorten` is sequential code that waits on nothing) so that its
behaviours are those that run to the reply; its runs check invariants.

## Not modelled

* `op_lookup`, `op_getattr` and `op_access` only read state.
  The `malloc` failure in `walk_dir` (an entry silently left out) is a
  hazard; memory is not modelled.
* The attributes in `op_symlink`'s entry reply (taken from the inode
  before the write), and the memory of handles leaked on its error paths.
* `wipe_block.c`: it writes a pattern to the device; its failure ends the
  process (`exit(1)`).  Its per-call buffer leak, its write behind the
  unix_io cache and its copy of unix_io's private struct are listed as
  hazards: they concern heap memory, library state and the library's
  version, none of which the models hold.
* The mode, owner and time fields of `op_setattr` and byte sizes within a
  block.
* `fs_size` and the free counts `op_statfs` copies unchanged;
  `parse_options` and `main` only set up the session.
* O_TRUNC opens: `do_open` shortens through the new handle, but FUSE sends
  O_TRUNC to the filesystem only with `atomic_o_trunc`, which `op_init`
  does not request; the kernel sends `setattr(size)` instead, which is
  modelled.
* A crash with the crash model composed with the handles: a handle's
  copy is lost with the process, so it adds nothing a crash of the
  namespace model does not show.  unix_io's write-back cache of inode and
  directory blocks is taken as written through: the program also has
  outcomes where a crash loses such a write, which the model leaves out,
  and the `crash` trace needs the cache to have written the inode and the
  entry (an eviction does).
* The uninitialised read at mkdir.c:64 and the 32-bit `i_blocks` product at
  truncate.c:255 are listed as hazards without a property.

## Plan

1. Done: `Ext2Namespace` with the `vfs` and `faults` runs and its violation
   runs; `Ext2Atomic`, its refinement of `PosixNamespace`, on directory
   renames.
2. Done: `Ext2Files`, the handles and their cached inode copy, data blocks
   and `op_setattr`'s size path.
3. Done: `Ext2Truncate`; `Ext2Perms`; `Ext2Readdir`; `Ext2Symlink`.
4. Done: `Ext2Crash`, the mount lifecycle with a device copy of the
   bitmaps, process death and remount; `Ext2Statfs`.
5. Next: `release_blocks_proc` of `kill_file_by_inode` over the
   block tree, which `Ext2Truncate`'s layout definitions can be reused for,
   and its ignored `ext2fs_block_iterate` result (ext2fs.c:370).
