------------------------------- MODULE LuaIO --------------------------------
(***************************************************************************)
(* File handles of the I/O library (liolib.c): userdata that hold a FILE*, *)
(* or NULL once closed, with the function that closes it in their          *)
(* environment.  A handle may be closed by the program, by the iterator of *)
(* io.lines at the end of the file, and by its finalizer.  Contents of     *)
(* files are left out.                                                     *)
(***************************************************************************)
EXTENDS Integers, FiniteSets, Sequences

CONSTANTS
    MaxHandles,     \* bound of the handles created
    MaxIters        \* bound of the iterators at any time

VARIABLES
    handles,    \* [file, close: the function that closes it]
    fin,        \* the handles that were finalized
    files,      \* the FILEs of the C library: how each was opened, or "closed"
    default,    \* the handles IO_INPUT and IO_OUTPUT
    iters,      \* the iterators: <<handle, whether it closes the file>>
    held,       \* the handles the program refers to
    closing,    \* whether lua_close finalizes the handles
    misuse      \* history: whether a FILE was used after it was closed, or
                \* closed by the wrong function

ioVars == <<handles, fin, files, default, iters, held, closing, misuse>>

NULL == 0
Handle(f, close) == [file |-> f, close |-> close]
Reached == held \cup {default[k] : k \in DOMAIN default} \cup {it[1] : it \in iters}

\* luaopen_io: stdin and stdout, with createstdfile.
ioInit ==
    /\ handles = <<Handle(1, "io_noclose"), Handle(2, "io_noclose")>>
    /\ files = <<"std", "std">> /\ default = [input |-> 1, output |-> 2]
    /\ fin = {} /\ iters = {} /\ held = {1, 2} /\ closing = FALSE /\ misuse = FALSE

\* The function that opens a file gives the handle its own environment.
closeof_shared(how) == "io_fclose"
closeof(how) == IF how = "popen" THEN "io_pclose" ELSE "io_fclose"

\* newfile makes a closed handle, or fails for lack of memory; only then the
\* file is opened, which may fail.
newfile_late(how) ==
    \/ files' = Append(files, how) /\ UNCHANGED handles
    \/ /\ files' = Append(files, how)
       /\ handles' = Append(handles, Handle(Len(files) + 1, closeof(how)))
newfile(how) ==
    \/ /\ files' = files
       /\ handles' = Append(handles, Handle(NULL, closeof(how)))
    \/ /\ files' = Append(files, how)
       /\ handles' = Append(handles, Handle(Len(files) + 1, closeof(how)))
New == Len(handles) + 1
Opened == Len(files') > Len(files) /\ Len(handles') = New

\* The handles, files and misuse after aux_close, which calls the function
\* __close of the environment of the handle h.
Closes(h) == handles[h].close # "io_noclose"
aux_close(h) ==
    LET f == handles[h].file
        wrong == files[f] # (IF handles[h].close = "io_pclose" THEN "popen" ELSE "fopen")
    IN  IF ~Closes(h) THEN UNCHANGED <<handles, files, misuse>>
        ELSE /\ handles' = [handles EXCEPT ![h].file = NULL]
             /\ files' = [files EXCEPT ![f] = "closed"]
             /\ misuse' = (misuse \/ wrong)

tofile(h) == handles[h].file # NULL     \* else an error

\* io_open, io_popen, io_tmpfile
io_open(how) ==
    /\ newfile(how)
    /\ held' = IF Opened THEN held \cup {New} ELSE held
    /\ UNCHANGED <<default, iters, misuse>>

io_close(h) ==
    /\ tofile(h)
    /\ aux_close(h)
    /\ UNCHANGED <<default, iters, held>>

\* io_input and io_output, with the name of a file, or with a handle
g_iofile(k) ==
    \/ /\ newfile("fopen")
       /\ default' = IF Opened THEN [default EXCEPT ![k] = New] ELSE default
       /\ UNCHANGED <<iters, held, misuse>>
    \/ /\ \E h \in held : tofile(h) /\ default' = [default EXCEPT ![k] = h]
       /\ UNCHANGED <<handles, files, iters, held, misuse>>

\* io_lines with the name of a file, or f_lines of a handle
io_lines ==
    \/ /\ newfile("fopen")
       /\ iters' = IF Opened THEN iters \cup {<<New, TRUE>>} ELSE iters
       /\ UNCHANGED <<default, held, misuse>>
    \/ /\ \E h \in held \cup {default.input} : tofile(h) /\ iters' = iters \cup {<<h, FALSE>>}
       /\ UNCHANGED <<handles, files, default, held, misuse>>

\* io_readline at the end of the file
io_readline(it) ==
    /\ tofile(it[1]) /\ it[2]
    /\ aux_close(it[1])
    /\ UNCHANGED <<default, iters, held>>

\* g_read, g_write, f_seek, f_setvbuf, f_flush, of a handle or a default file,
\* and io_readline before the end
Use(h) ==
    /\ tofile(h)
    /\ misuse' = (misuse \/ files[handles[h].file] = "closed")
    /\ UNCHANGED <<handles, files, default, iters, held>>

\* io_gc, called for a handle that is garbage, or by lua_close for all; another
\* finalizer may keep the handle.
io_gc(h) ==
    IF handles[h].file # NULL THEN aux_close(h) ELSE UNCHANGED <<handles, files, misuse>>
Finalize ==
    /\ \E h \in DOMAIN handles \ fin :
         /\ closing \/ h \notin Reached
         /\ io_gc(h)
         /\ fin' = fin \cup {h}
         /\ held' \in {held, held \cup {h}}
    /\ UNCHANGED <<default, iters, closing>>

Forget ==
    /\ \/ \E h \in held : held' = held \ {h} /\ UNCHANGED iters
       \/ \E it \in iters : iters' = iters \ {it} /\ UNCHANGED held
    /\ UNCHANGED <<handles, fin, files, default, closing, misuse>>

Operation ==
    \/ New <= MaxHandles /\ (\/ \E how \in {"fopen", "popen"} : io_open(how)
                             \/ \E k \in {"input", "output"} : g_iofile(k)
                             \/ Cardinality(iters) < MaxIters /\ io_lines)
    \/ \E h \in held \cup {default.output} : io_close(h)
    \/ \E it \in iters : io_readline(it)
    \/ \E h \in Reached : Use(h)
\* lua_close
StartClose ==
    /\ ~closing /\ closing' = TRUE
    /\ UNCHANGED <<handles, fin, files, default, iters, held, misuse>>

ioNext == (Operation /\ UNCHANGED <<fin, closing>>) \/ Finalize \/ Forget \/ StartClose
ioSpec == ioInit /\ [][ioNext]_ioVars

-----------------------------------------------------------------------------
(* Properties.                                                             *)

\* No FILE is used or closed after it was closed, and each is closed by the
\* function for the way it was opened.
NoMisuse == ~misuse

\* Every FILE that is open is held by one handle, which is still to be
\* finalized: no error leaves a file open, and lua_close closes them all but
\* the standard files.
NoLeak ==
    /\ \A f \in DOMAIN files :
         files[f] \in {"fopen", "popen"} =>
           Cardinality({h \in DOMAIN handles : handles[h].file = f /\ h \notin fin}) = 1
    /\ files[1] = "std" /\ files[2] = "std"
\* No FILE is used or closed after fclose or pclose, nor closed by the other one,
\* and every open one has one handle that io_gc will close, whatever failed.
FilesRight == NoMisuse /\ NoLeak
=============================================================================
