------------------------------- MODULE LeImage ------------------------------
(***************************************************************************)
(* create_image and apply_fixups (le_image.cpp): for each object the pages *)
(* are copied from the file into zeroed bytes, and the targets of the      *)
(* fixups are written over them, in the order of their offsets.            *)
(***************************************************************************)
EXTENDS Loader

VARIABLES
    data,       \* the bytes of the object, from offset 0
    data_off,   \* how many have been copied
    sites,      \* the fixups of the object still to be applied
    image       \* the objects done

ivars == <<file, load, fixups, fixup_addresses, oi, page, record,
           data, data_off, sites, image>>

\* A byte is zero, the k-th byte of a page of the file, or the k-th byte of the
\* word that holds a target.
Zero == <<"zero", 0, 0>>

FileByte(number, k) == <<"file", number, k>>

TargetByte(target, k) == <<"target", target, k>>

ImageInit ==
    /\ LoaderInit
    /\ data = <<>>
    /\ data_off = 0
    /\ sites = {}
    /\ image = <<>>

-----------------------------------------------------------------------------

BeginObject ==
    /\ load = "image" /\ oi \in Objects
    /\ data' = [k \in 0 .. Object.size - 1 |-> Zero]
    /\ data_off' = 0
    /\ page' = StartPage
    /\ load' = "copy"
    /\ UNCHANGED <<file, fixups, fixup_addresses, oi, record, sites, image>>

Smaller(x, y) == IF x <= y THEN x ELSE y

\* page_end: no further than the file has pages.
CopyEnd == Smaller(PageEnd, Len(file.pages) + 1)

\* Fault: the last page of each object counts as the last of the file.
CopySize_LastOfObject ==
    Smaller(Object.size - data_off,
            IF page < PageEnd - 1 THEN file.page_size ELSE file.last_page_size)

\* The file's last page is shorter, and the object may end before the page.
CopySize ==
    Smaller(Object.size - data_off,
            IF page < Len(file.pages) THEN file.page_size ELSE file.last_page_size)

CanRead(number, size) == size = 0 \/ number \notin file.missing_data

\* The type of the page makes no difference.
CopyPage ==
    /\ load = "copy" /\ page < CopyEnd
    /\ LET number == file.pages[page].number
       IN  /\ CanRead(number, CopySize)
           /\ data' = [k \in DOMAIN data |->
                         IF k \in data_off .. data_off + CopySize - 1
                         THEN FileByte(number, k - data_off) ELSE data[k]]
    /\ data_off' = data_off + CopySize
    /\ page' = page + 1
    /\ UNCHANGED <<file, load, fixups, fixup_addresses, oi, record, sites, image>>

\* The image is a null pointer.
ReadError ==
    /\ load = "copy" /\ page < CopyEnd
    /\ ~ CanRead(file.pages[page].number, CopySize)
    /\ load' = "no_image"
    /\ UNCHANGED <<file, fixups, fixup_addresses, oi, page, record, data, data_off, sites, image>>

PagesCopied ==
    /\ load = "copy" /\ page >= CopyEnd
    /\ sites' = DOMAIN fixups[oi]
    /\ load' = "apply"
    /\ UNCHANGED <<file, fixups, fixup_addresses, oi, page, record, data, data_off, image>>

-----------------------------------------------------------------------------
(* apply_fixups *)

NextSite == CHOOSE off \in sites : \A s \in sites : off <= s

\* Fault: only the first byte of the word has to fit.
IsRefused_FirstByte(off) == off >= Object.size

\* The sum has 32 bits, and is refused when it reaches the size.
IsRefused(off) == (off + WordSize) % AddrSpace >= Object.size

WordBytes(off) == off .. off + WordSize - 1

ApplyFixup ==
    /\ load = "apply" /\ sites # {}
    /\ ~ IsRefused(NextSite)
    /\ WordBytes(NextSite) \subseteq DOMAIN data
    /\ data' = [k \in DOMAIN data |->
                  IF k \in WordBytes(NextSite)
                  THEN TargetByte(fixups[oi][NextSite], k - NextSite) ELSE data[k]]
    /\ sites' = sites \ {NextSite}
    /\ UNCHANGED <<file, load, fixups, fixup_addresses, oi, page, record, data_off, image>>

\* The word is not in the object: what the write does is not defined.
WriteOutside ==
    /\ load = "apply" /\ sites # {}
    /\ ~ IsRefused(NextSite)
    /\ ~ WordBytes(NextSite) \subseteq DOMAIN data
    /\ load' = "undefined"
    /\ UNCHANGED <<file, fixups, fixup_addresses, oi, page, record, data, data_off, sites, image>>

RefuseToApply ==
    /\ load = "apply" /\ sites # {}
    /\ IsRefused(NextSite)
    /\ load' = "no_image"
    /\ UNCHANGED <<file, fixups, fixup_addresses, oi, page, record, data, data_off, sites, image>>

FixupsApplied ==
    /\ load = "apply" /\ sites = {}
    /\ image' = Append(image, data)
    /\ oi' = oi + 1
    /\ load' = "image"
    /\ UNCHANGED <<file, fixups, fixup_addresses, page, record, data, data_off, sites>>

ImageDone ==
    /\ load = "image" /\ oi \notin Objects
    /\ load' = "done"
    /\ UNCHANGED <<file, fixups, fixup_addresses, oi, page, record, data, data_off, sites, image>>

apply_fixups == ApplyFixup \/ WriteOutside \/ RefuseToApply

create_image ==
    \/ BeginObject \/ CopyPage \/ ReadError \/ PagesCopied
    \/ apply_fixups \/ FixupsApplied \/ ImageDone

load_executable == LoaderNext /\ UNCHANGED <<data, data_off, sites, image>>

ImageNext == load_executable \/ create_image

ImageSpec == ImageInit /\ [][ImageNext]_ivars /\ WF_ivars(ImageNext)

-----------------------------------------------------------------------------
(* Properties. *)

\* How many bytes the pages of an object have, the last of the file included.
BytesInFile(o) ==
    LET last  == file.objects[o].first_page + file.objects[o].pages - 1
        short == IF last \in PagesOf(o) /\ last = Len(file.pages)
                 THEN file.page_size - file.last_page_size ELSE 0
    IN  Cardinality(PagesOf(o)) * file.page_size - short

\* What byte k of an object is before the fixups.
PageByte(o, k) ==
    LET p == file.objects[o].first_page + k \div file.page_size
    IN  IF k < BytesInFile(o) THEN FileByte(file.pages[p].number, k % file.page_size)
        ELSE Zero

\* Each byte of the image comes from its place in the file, or is zero where
\* the object has no pages, unless a fixup has its word there; of two words
\* that overlap the one that starts later is whole.
ImageExact ==
    \A o \in DOMAIN image :
        /\ DOMAIN image[o] = 0 .. file.objects[o].size - 1
        /\ \A k \in DOMAIN image[o] :
            LET over == {off \in DOMAIN fixups[o] : k \in WordBytes(off)}
            IN  image[o][k] =
                  IF over = {} THEN PageByte(o, k)
                  ELSE LET off == CHOOSE x \in over : \A y \in over : y <= x
                       IN  TargetByte(fixups[o][off], k - off)

\* Relocated words are written into the objects only, and those that are not
\* in them are refused; all but a record in front of the first page of its
\* object, or farther behind it than there are addresses, so that the sum
\* wraps.
WritesInside ==
    /\ load = "undefined" =>
        \E x \in RecordsOf(oi) : PlaceOf(oi, x) \notin 0 .. AddrSpace - WordSize - 1
    /\ \A o \in DOMAIN image : \A off \in DOMAIN fixups[o] :
        WordBytes(off) \subseteq 0 .. file.objects[o].size - 1

\* Loading ends.
LoadEnds == <>(load \in {"done", "failed", "outside", "no_image", "undefined"})

\* "Provide it with LE/LX file [...] and it will dump" (README.md:7): a file
\* with nothing missing or unknown and with all its relocated words inside
\* their objects is loaded.
SoundFilesLoad ==
    load = "no_image" =>
        ~ /\ IsSound /\ file.missing_data = {}
          /\ \A o \in Objects : \A x \in RecordsOf(o) :
                /\ PlaceOf(o, x) >= 0
                /\ PlaceOf(o, x) + WordSize <= file.objects[o].size

=============================================================================
