---------------------------- MODULE MCUploadHeap ----------------------------
(***************************************************************************)
(* Instances of UploadHeap: MinBlockSize and PoolAlignment are 4 bytes, a  *)
(* buddy allocator has 7 units to hand out, a pool 24 bytes.               *)
(***************************************************************************)
EXTENDS UploadHeap

On(op, b) == [op |-> op, buffer |-> b]

Constants == [op |-> "constants"]

HeapBuffers == {"uniform", "vertex", "mesh", "terrain"}

HeapSize == [b \in HeapBuffers |->
    CASE b = "uniform" -> 3 [] b = "vertex" -> 6 [] b = "mesh" -> 7
      [] b = "terrain" -> 26]

HeapAlignment == [b \in HeapBuffers |-> IF b = "mesh" THEN 2 ELSE 4]

\* Two small buffers of different orders, more than one allocator can serve.
SmallProgram ==
    <<<<On("create", "uniform"), On("draw", "uniform"), On("map", "uniform"),
        On("fill", "vertex")>>,
      <<On("map", "uniform"), On("draw", "uniform")>>,
      <<On("fill", "uniform"), On("fill", "vertex")>>,
      <<>>>>

\* A pool is filled, freed in the middle first, and used again.
BigProgram ==
    <<<<On("create", "mesh"), On("fill", "mesh"), On("draw", "mesh"),
        On("map", "mesh")>>,
      <<On("map", "mesh")>>,
      <<On("fill", "mesh"), On("draw", "mesh")>>,
      <<>>>>

\* A pool of its own, pages that are full, and four frames to trim them.
TrimProgram ==
    <<<<On("fill", "terrain"), On("fill", "vertex"), Constants, Constants, Constants>>,
      <<>>, <<>>, <<>>, <<On("fill", "terrain")>>>>

\* Pages of the fast allocator are returned, taken again and deleted.
LoadProgram ==
    <<<<On("load", "vertex"), On("load", "uniform"), On("load", "vertex")>>,
      <<On("load", "vertex")>>, <<>>, <<>>>>

HeapPrograms == {SmallProgram, BigProgram, TrimProgram, LoadProgram}

-----------------------------------------------------------------------------
(***************************************************************************)
(* A dynamic buffer of elements with three bytes, whose alignment does not *)
(* divide that of the pool, beside one that is aligned to four bytes.      *)
(***************************************************************************)
StrideBuffers == {"strided", "mesh"}

StrideSize == [b \in StrideBuffers |-> 8]

StrideAlignment == [b \in StrideBuffers |-> IF b = "strided" THEN 3 ELSE 4]

StridePrograms ==
    {<<<<On("create", "strided"), On("map", "strided"), On("create", "mesh")>>>>}

=============================================================================
