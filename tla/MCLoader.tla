------------------------------ MODULE MCLoader ------------------------------
\* Disks and arguments for Loader, in pages of 16 and sectors of 8 bytes.
EXTENDS Loader

Ph(load, vaddr, offset, filesz, memsz, write) ==
  [load |-> load, vaddr |-> vaddr, offset |-> offset, filesz |-> filesz,
   memsz |-> memsz, write |-> write]

File(name, ext, id, start, size, magic, phdrs) ==
  [name |-> name, ext |-> ext, id |-> id, start |-> start, size |-> size,
   magic |-> magic, entry |-> magic, phdrs |-> phdrs, bmp |-> NoBmp]
Image(name, id, start, size, offset, width, height, bpp) ==
  [File(name, "bmp", id, start, size, FALSE, <<>>) EXCEPT
     !.bmp = [offset |-> offset, width |-> width, height |-> height,
              bpp |-> bpp]]

\* Code in page 1 and data over pages 2 and 3, the end of it zeroed; a header
\* between them that is not loaded.
Apart ==
  File("a", "elf", 1, 10, 30, TRUE,
       <<Ph(TRUE, 17, 3, 9, 9, FALSE), Ph(FALSE, 0, 0, 0, 0, FALSE),
         Ph(TRUE, 37, 14, 10, 25, TRUE)>>)

\* Code and data in page 2.
Shared ==
  File("s", "elf", 2, 14, 17, TRUE,
       <<Ph(TRUE, 32, 0, 6, 6, FALSE), Ph(TRUE, 38, 6, 6, 20, TRUE)>>)

NotElf == File("x", "elf", 3, 17, 8, FALSE, <<>>)
\* A program whose entry point is 0.
NoEntry == [File("z", "elf", 14, 20, 4, TRUE, <<Ph(TRUE, 16, 0, 4, 4, FALSE)>>)
              EXCEPT !.entry = FALSE]
Whole == File("b", "bin", 4, 18, 16, FALSE, <<>>)
Long == File("c", "bin", 5, 20, 33, FALSE, <<>>)
Empty == File("e", "txt", 6, 25, 0, FALSE, <<>>)
Txt == File("t", "txt", 7, 25, 15, FALSE, <<>>)
Other == File("o", "dat", 8, 27, 3, FALSE, <<>>)
Same == File("b", "bin", 9, 28, 7, FALSE, <<>>)

\* Rows with padding, stored upwards; no padding, downwards; neither depth; too
\* wide and too high.
Padded == Image("p", 10, 10, 27, 3, 3, 2, 24)
Down == Image("q", 11, 14, 20, 4, 2, -2, 32)
Deep == Image("r", 12, 17, 8, 4, 1, 1, 8)
Wide == Image("w", 13, 18, 36, 4, 5, -2, 24)

MCDisks ==
  {<<>>, <<Long>>, <<NotElf, Empty, NoEntry>>, <<Apart, Shared>>,
   <<Apart, Txt, Whole>>, <<Whole, Same, Other>>, <<Txt, Long, Apart, Shared>>,
   <<Padded, Down, Txt>>, <<Deep, Wide>>}

MCArgLists == {<<>>, <<<<"x">>>>, <<<<"x", "y", "z">>, <<>>, <<"w">>>>}
MCAutorunArgs == <<<<"a", "u", "t", "o">>, <<"h", "i">>, <<"w">>>>
=============================================================================
