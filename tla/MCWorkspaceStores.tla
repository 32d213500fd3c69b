--------------------------- MODULE MCWorkspaceStores ---------------------------
(* Model values of the stores of a workspace.                              *)
EXTENDS WorkspaceStores

CONSTANTS c1, c2,            \* refresh candidates
          e1, e2,            \* endpoints of models
          p1, p2, s1,        \* two plans and a steer
          g1, g2, g3,        \* grants of sector mutations
          a, b,              \* names of brains
          db, f1, f2,        \* files of a workspace
          x1, x2, k1, k2,    \* assets and keys of lineage events
          t1, z1, m1,        \* sources of a semantic, a structural and a code lane
          b1, b2,            \* sources of a build, the first of a code lane
          d1, n1,            \* a database and a delta of a portable folder
          q1, r1, u,         \* a chat, a research source and a line of text
          l1, l2,            \* paths of files of a folder
          v1, v2, v3,        \* registered sources of a plain, a research and a chat lane
          o1, o2, w1,        \* origins of rollbacks and the name of a restored brain
          h1, h2, y1,        \* workers that answer queries and the database of an index
          i1, i2, j1, j2,    \* workers that list the brains and roots they are in
          rt1, rt2,          \* records of a worker in the folder of a brain
          mb, rb, ot1,       \* a brain, its restored version and an output of a model
          mt1, ct1           \* kinds of outputs and continuations

\* The second text of a source continues the first.
LaterTexts == {<<1, 2>>}
===============================================================================
