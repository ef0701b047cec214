# Verification of rawshift

Paths are relative to the repository. `hwdec` is `crates/rawshift-hwdec/src`, `vaapi` is
`hwdec/vaapi`, `ljpeg` is `crates/rawshift-image-ljpeg/src`. `PROJECT.json` gives, for every
definition, the lines it models.

## 1. The system

rawshift decodes still images. `rawshift-image` detects the format, dispatches to one crate
per format and runs the RAW pipeline; the format crates lean on the external *gamut* codecs,
except for what rawshift implements itself: the camera formats, lossless JPEG, and hardware
decoding of HEVC (HEIC) and AV1 (AVIF) tiles through VAAPI, VideoToolbox or MediaCodec.

| component | state it keeps | operations | interacts with |
|---|---|---|---|
| discovery (`hwdec/lib.rs`, `vaapi/mod.rs` 57–245, `vaapi/sys.rs`) | two process-wide `OnceLock`s: the loaded libva, the probed profiles; per display an fd and a `VADisplay` | `decoder`, `backend`, `available_codecs`, probe, open a node | every thread; kernel, libva |
| VAAPI still decoder (`vaapi/mod.rs`) | one `Session` (config, context, surfaces, key), reused while the key fits | `decode_still`, drop | libva, the GPU's queue |
| HEVC parsing (`vaapi/hevc.rs`, `vaapi/bits.rs`) | parameter sets seen so far, slice headers | `decode_hevc` but for its driver calls | VAAPI decoder |
| AV1 parsing (`vaapi/av1.rs`) | sequence header, frame header, tile list | `decode_av1` up to its buffers | VAAPI decoder |
| HEIC and AVIF adapters (`rawshift-image-heic`, `-avif`, `image-core/hw_planes.rs`) | one decoder and the last hardware error per item | `decode_intra`, `decode_still`, records written again, lifting planes | gamut's HEIF pipeline, hwdec |
| lossless JPEG (`ljpeg`) | frame, tables, restart interval, bit register | marker loop, scan | ARW, CR2, NEF and DNG decoders |
| IFD reading (`rawshift-image-ifd`) | the directories reached so far, one visited list | walk the pointers, typed reads of a tag | every TIFF-based decoder |
| camera formats (ARW, CR2, CR3, CRW, NEF, RAF, DNG) | the file's bytes, parsed directories | parse, metadata, preview, raw pixels | lossless JPEG, IFD, gamut-dng |
| RAW pipeline (`rawshift-image/formats/mod.rs`, `processing`, `transforms`) | an image and its levels | `open`, `process`: black, defects, gains, scale, demosaic, crop, colour, tone, orientation | the decoders |
| export (`formats/encode.rs`, `rawshift-image-metadata`, DNG writer) | encoded bytes, boxes spliced into them | `encode`, `export`, EXIF, ICC, XMP | external codecs |
| standard formats (`formats/standard.rs`, codec crates) | none | hand bytes to an external codec | external codecs |

Where this is hard:

* **Resources of a C library.** A decode makes some fifteen driver calls, each may fail, and
  handles live in locals, a `Vec`, a stored session and the driver at once. Tests need a GPU
  and cannot make the fifth call fail.
* **Asynchrony.** The GPU finishes a picture later than it is submitted, and the same surface
  is used for the next tile.
* **Caching for the process.** Threads race through `OnceLock`s over hardware that may change.
* **Bit-exact parsing.** One flag too many shifts everything behind it. Encoders at hand use
  little of the syntax, so fixtures do not reach most of the conditional elements.
* **Layouts.** Rows have pitches, samples sit in the high or the low bits, areas begin at odd
  offsets of the mosaic, tiles end outside the picture: a wrong index shows on one camera in ten.
* **One long pipeline.** `process` hands levels, gains and sizes from stage to stage through
  locals; a level read before a rescale and used behind it is a picture too dark, not a crash.
* **Byte surgery.** A box spliced into an AVIF file moves what follows it, and the offsets to it.
* **Boundaries of the bit reader**: an eight-byte register, a fast path over four to eight
  bytes, byte stuffing, the end of the data.

What makes each component correct is stated by the properties of section 3; `PROJECT.json`
lists under `hazards` what can go wrong and where, with the properties that would notice.

## 2. The modules

```
 StillRequest  <- StillDecoder            what a hardware decoder promises
      ^              ^ refined by
      +------- VaapiDecoder <- VaapiDecoderProofs
 VaapiDiscovery <- VaapiDiscoveryProofs   how a decoder comes to be
 VaapiBits <- HevcHeaders <- HevcStream   against H265Syntax, the encoder's side
 VaapiBits <- Av1Headers <- Av1Stream     against Av1Picture, the encoder's side
 HwFrame, CodecRecords <- HeifDecode <- HeifDecodeProofs   an item of a HEIC or AVIF file
 CodecRecords <- CodecRecordsProofs <- HeifDecodeProofs    what is written is what is read
 LosslessJpeg (encoder's side) <- LjpegDecoder <- LjpegProofs   reads the bits BitPump delivers
 BitPump <- BitPumpProofs
 NatLemmas <- BitPumpProofs, LjpegProofs, CodecRecordsProofs, HeifDecodeProofs, DemosaicProofs   induction, powers of two, division
 SensorImage <- TiffTree <- RawDecoders <- DngFile, RawContainers
 SensorImage <- DemosaicKernels <- RgbTransforms
 DemosaicKernels <- Demosaic <- DemosaicProofs   a scene photographed and developed
 SensorImage <- HeifItems, DngFile <- ImageExport
 RawContainers, RgbTransforms, ImageExport <- RawFile <- RawFileTruth   what the user gets
```

**StillRequest, StillDecoder.** The request as its parsers see it, the order of the checks of
`decode_hevc` and `decode_av1` (`Screen`), the replies, and the contract of `HwStillDecoder`: a
call returns the picture of its own request in the format of its depth, or an error; a request
out of scope gets the error of its first failing check.

**VaapiDecoder.** The backend, one action per driver call. Variables: the driver's live objects
per kind (`config`, `surface`, `context`, `buffer`, `image`, `mapped`), the GPU queue `jobs`,
the decoder's `session`, and the locals of the running call (`work`, `queue`, `img`, `req`,
`outcome`, `pc`). Every driver call has a failing disjunct. The driver chooses any free handle,
so a destroyed one comes back. `GpuFinishes` is the GPU, at any time, in submission order.
`ImplementsContract` maps it to `StillDecoder`: `pc` gives `status`, inner steps stutter.

**VaapiDiscovery.** Several threads in `decoder`, `available_codecs` and `backend`: the
initialisers of the two `OnceLock`s, the walk over the render nodes, and fd and display from
`open` to drop. A node's health may change `MaxChanges` times.

**BitPump.** The register of `bit_pump.rs` with the sizes as parameters, one iteration of
`fill` a step. It is checked against `Payload`, the bits that remain when stuffing and restart
markers are taken out; `Payload`, the powers of two and the numbers that bytes write are recursive functions,
which the prover can unfold.

**LosslessJpeg, LjpegDecoder.** `LosslessJpeg` is ITU-T T.81 as an encoder applies it: code
words, categories, predictors, the bits of a scan, in recursive functions, which the prover can unfold.
`LjpegDecoder` is the decoder: one segment a step, one sample a step; behind its actions it says what a stream
that conforms is: its headers announce what the encoder was given (`Announced`) and its scan carries the encoder's bits
(`Carries`). It reads the bit string that `BitPump` is shown to deliver, and a read
past its end yields any value, which is what the register leaves. So does a precision or a category
above 16 (`Overflows`), for which the shifts of the code are beyond 32 bits.

**VaapiBits.** The bit reader of `bits.rs` with every coding of H.265 and AV1. Both parsers of
the backend are one pass over syntax elements, which is `Parse`: a condition, a coding and a check for
each element of a list.

**H265Syntax, HevcHeaders, HevcStream.** `H265Syntax` writes
parameter sets (H.265 7.3.2, E.2.1) and a slice segment header (7.3.6.1) bit by bit from what an
encoder chose, and escape them (7.4.2). `HevcHeaders` is `parse_sps`, `parse_pps` and
`parse_slice_header`. `HevcStream` is `decode_hevc`: the walk over the NAL units, the headers, the picture and slice
parameters, and the window that is read back. `DriverPicture` unpacks the picture parameters again
as a driver does. `scope` and `headers` of a request in `StillRequest` are the
outcomes of `EndOfStream` and `ParseHeader` here, `params` that of `BuildPicParam`.

**Av1Picture, Av1Headers, Av1Stream.** `Av1Picture` writes sequence header, frame header and tile
groups from the values an encoder chose (AV1 5.5, 5.9, 5.11) and says what they mean;
nothing in it comes from the parser. `Av1Headers` is the three parsers of `av1.rs`, `Av1Stream` the walk over
the OBUs, the completeness test, `build_pic_param` and the slices. `DriverReads` unpacks the driver's
words again, so that a field packed at the wrong bit is seen; `error_resilient_mode` is not compared in reduced headers (section 5).

**HwFrame, CodecRecords, HeifDecode.** `HwFrame` is the way of a sample from the mapped driver
image through `DecodedFrame` to planar 16-bit samples; `CodecRecords` the hvcC and av1C records
as the adapters write and the backend parses them, length prefixes and OBU framing included;
`HeifDecode` is `decode_item`: an adapter, called by the external pipeline once per coded picture, in any order and
again, which remembers the last hardware error, and the error that is reported; constructors that check sizes again (`PlanarFrame::new`, `RgbImage::new`) have nothing to refuse. The module says
itself, as an assumption on its surfaces, what it means that a surface holds a picture: sample by
sample and byte by byte (`Stores`, `ImageByte`, `FrameByte`), without the code's row copies and index arithmetic; and, of its payloads,
what it means that bytes hold units: chunk by chunk as the standards write them (`NalsOK`, `ObusOK`), without the code's positions.

**TiffTree, RawDecoders, RawContainers, DngFile.** A file is its directories (tag to typed value)
and what its byte ranges hold; reading the bytes of a directory is gamut-ifd's. `TiffTree` is the
walk and the typed reads, `RawDecoders` ARW, CR2 and NEF, `RawContainers` CR3, CRW and RAF,
`DngFile` the DNG reader, its gain maps and the writer. An LJPEG stream is the samples it
holds: decoding it is `LjpegDecoder`.

**DemosaicKernels, Demosaic, RgbTransforms.** The seven algorithms as functions on a mosaic and the stages of
the pipeline as functions on images. 32-bit floats are fractions, in the kernels of a common
denominator `Sub`. `Demosaic` is a sensor that photographed a scene of known colours, and what the chosen algorithm makes of
its samples; sizes, origins, scenes and levels are constants. The two tone curves are constants of which only what `RawFileTruth` names is assumed.

**HeifItems, ImageExport, RawFile, RawFileTruth.** `HeifItems` splices EXIF, ICC and XMP into the boxes of
an AVIF file, box by box and not byte by byte; `ImageExport` is `encode_rgb_image_to_vec`; `RawFile` is the API: a file is opened
by the decoder of its format and asked for preview, sensor image, processed picture or exported
file, and an exported DNG is opened again. `RawFileTruth` says of a file whose author is known what each of these
has to be, from the author's side and stage by stage for a pixel, where the code goes stage by
stage for an image.

## 3. What is checked

All runs use the whole next-state relation of their module. "fails" marks a run whose property
restates what the repository says of itself and which TLC refutes; `findings` in `PROJECT.json`
quotes the source.

| run | question | result |
|---|---|---|
| `vaapi_hevc` | Whatever driver call fails: does the driver hold exactly what the decoder knows of (`LedgerExact`), are targets alive under their context (`TargetsOutliveContext`), is a reused session never stale (`SessionServesRequest`), is the surface that is read the finished picture of this request (`ReadsOwnPicture`), is no mapped image destroyed (`MappedImageLives`), is the display terminated last (`DisplayTerminatedLast`), do buffers leave the `Vec` only destroyed once `submit` runs (`SubmitDestroysBuffers`), is the contract kept (`ImplementsContract`)? | holds |
| `vaapi_av1` | The same sessions with a second surface for film grain; the inductive invariant of the proofs (`IInv`); does every call return (`CallReturns`)? | holds |
| `vaapi_buffer_leak` | "each id ... is destroyed exactly once": a failed `vaCreateBuffer` in the middle drops the ids made before it | fails |
| `discovery` | Two threads: do answers agree, is the fd open under every display, is nothing left between calls, does a decoder come exactly for the codecs announced and from a driver that has them, does every call return? | holds |
| `bit_pump` | Is no bit lost, doubled or moved, by any mixture of reads and refills? | holds |
| `ljpeg` | Does the decoder return the image the encoder had, is the table lookup the code of the slow path, does it stay in step with the encoder's bits, sample by sample? | holds |
| `hevc_stream` | Does every conforming still picture get through, and none outside the scope (`AcceptsConforming`), with the picture, segments and window its encoder meant (`HeadersExact`), its slice data where the driver is told (`DataOffsetExact`) and tiles that cover it (`TilesCoverPicture`)? | holds |
| `av1_stream` | Is every still picture an AV1 encoder writes accepted, every value and tile handed to the driver as meant (`StillExact`), and nothing decoded of a stream out of scope, cut off or incomplete (`OutOfScopeRefused`)? | holds |
| `heif` | Do the units of an item get to the decoder through the rewritten record (`UnitsDelivered`), does its visible window come back sample for sample from every surface layout (`LiftedExact`), are exactly the whole surfaces accepted (`SoundSurfacesOnly`), does the caller learn why an item failed (`FailureNamed`)? | holds |
| `demosaic` | Do the seven algorithms leave neutral scenes neutral up to the border (`GreyStaysGrey`) and find the colours of the scenes that suit them (`ColoursFoundInside`), for every mosaic and parity of the active area? | holds |
| `raw` | From the bytes of a RAW file to the exported picture: is every sample, level, tag (`DecodesAsWritten`), directory (`TreeAttachesOnce`), pixel (`RenderedExactly`), written sample and tag (`ExportReadsBack`) and box (`AvifItemsIntact`) what the author of the file put there? | holds |
| `raw_sensor_white` | "sensor white always maps to display white": the samples are scaled to 65535, the white level AMaZE clamps to is not | fails |

### Bounds

* `vaapi_*`: three handles per kind (`Id`). A session needs two surfaces at most; the third makes
  "a handle freed and handed out again while another is live" happen, and running out of them
  is the driver out of memory. Requests: two sizes, two depths, one failing each check, one of
  the other codec; each can follow each, which is all a session key can see. `MaxJobs = 2`: a
  picture of this session and one of an earlier call whose sync failed.
  A picture has one slice (HEVC: three buffers).
* `discovery`: two threads (one initialises, one waits or overtakes), two nodes (one to fail on,
  one to fall back to), every combination of node healths, libva present or not, one change.
* `bit_pump`: bytes of two bits, whose four values are the four `fill` tells apart; a register
  of four bytes, a fast path of two to four. Every input of up to four bytes and 243 of seven:
  two fast refills, each possible place of a prefix byte in them, and the change to the byte path.
* `ljpeg`: codes of up to four bits of which two index the lookup, so that codes are shorter
  than, equal to and longer than the index; samples of two bits; images up to 2 x 3 with every
  predictor, four-component images, every table shape, segments repeated, redefined and out of
  order.
* `hevc_stream`: real bytes, not scaled, parameter sets included. One family per part of the headers and sets, with
  the combinations of the conditions and values of that part: reference picture sets and long-term pictures, filters,
  segments with entry points and tiles, headers ending in zeros; of an SPS sub-layers, crops, formats and depths, PCM, sets and
  VUI; of a PPS flags, offsets and ids. The extra header bits shift what follows through the byte, runs of zero bits bring emulation
  prevention bytes into the header and to its end; sets come out of band, in band, and overridden. `Refused` breaks each limit of
  the scope in turn, `CutOff` cuts sets and a header off at every byte.
* `av1_stream`: real bits, not scaled. One family of pictures per part of the headers (timing and operating
  points, frame kinds, screen content, colour, hidden frames, tiles, superres, quantizer, lossless segments,
  filters, grain), each with the combinations of its elements; `Arranged` splits a picture of
  six tiles into OBUs in five ways, with repeated headers, delimiters and a later frame between and after them; `Refused` cuts a
  frame header off at every byte and the sequence header at its first seven, and leaves tile groups out. Left out by name: monochrome with CDEF, screen content with
  `integer_mv` in the frame header, pictures wider than 4096 samples (section 5).
* `heif`: coded pictures of 4 x 4, windows of every size in them from the corners a 4:2:0 crop can have, four surface formats,
  tight and padded pitches, surfaces that lack a row, a plane or a byte; items of one picture and grids of two;
  records of up to `MaxArrays` = 3 arrays and lengths up to `MaxU16` = 8, so that a record can be too large.
* `demosaic`: active areas of 11 x 10 at four origins (the corner of the sensor and three inside it, of both parities
  in each direction); six scenes (three grey, two uniform ones of other colours, a ramp); all four Bayer patterns and X-Trans. A grey scene must stay
  grey at the borders too; the exact colours are asked for four positions and more from the border (as far as the last smoothing of the planes
  before it reaches), of scenes that suit the algorithm (`Suits`): RCD assumes constant ratios and gets uniform scenes whose ratios to green `1/Sub` is
  fine enough to tell (`RatiosTold`), the X-Trans methods, whose windows are not symmetric, get uniform ones, the other Bayer methods also ramps
  that saturate nowhere (`Unsaturated`). Greyness is asked of the bilinear method where the sensor goes on around the area.
* `raw`: sensors of 5 x 4, tiles and strips that do and do not divide them, both byte orders, the codings the decoders
  know, and refused and damaged variants of each format; 625 directory graphs of three directories (shared, cyclic, missing, repeated
  pointers) and a chain longer than `MAX_SUB_IFD_DEPTH` = 2; six settings of the pipeline, one without any option and one with
  defects to mend; the orientations; every export format; AVIF containers of different box orders, iloc widths and
  versions. A sample is divided in `Sub` = 48 parts, tone curves are tables that stand in for the floating-point ones.

### Fairness

Safety runs use none. `CallReturns` assumes `WF_vars(Step)`: a thread inside `decode_still` or drop keeps
running and driver calls return, possibly with an error. The GPU is not assumed fair: the wait
in `vaSyncSurface` may end in an error. Nobody has to call. `CallsReturn` (discovery) assumes weak fairness of
each thread's steps, which is what an operating system's scheduler gives, and nothing
about nodes.

## 4. What is proved

The proofs hold for every value of the constants that the assumptions of the modules admit; TLC evaluates
the same assumptions on every run. Each component has an inductive invariant, `IInv`, with a theorem `Inductive: Spec => []IInv`, from
which the others follow.

| module | theorems | for every |
|---|---|---|
| `VaapiDecoderProofs` | `TypeCorrect`, `LedgerAlwaysExact`, `ContextsHaveTargets`, `SessionAlwaysServes`, `MappedAlwaysLives`, `DisplayLast`, `SubmitKeepsBuffers`, `AlwaysReadsOwnPicture`, `CallInvariant`, `BackendImplementsContract` | set of handles and requests, queue length, codec, set of profiles, pattern of failing calls |
| `VaapiDiscoveryProofs` | `TypeCorrect`, `AnswersAlwaysAgree`, `DisplayAlwaysHasOpenFile`, `NothingStaysHeld`, `DecoderAlwaysMatches`, `DecoderAlwaysOnCapableDriver` | set of threads, number of nodes, driver and health of each, number of changes |
| `BitPumpProofs` | `StaysInBounds`, `RegisterAlwaysNextBits`, `PeekAlwaysNextBits`, `ShortAlwaysAtEnd` | input, size of byte, register and fast path, sequence of calls |
| `LjpegProofs` | `TypeCorrect`, `FastAlwaysAgrees`, `IndicesAlwaysInside` | stream, tables, size of lookup, code, sample and image |
| | `DecodesInductive`, `AlwaysInStep`, `AlwaysDecodesImage` | image of one or four components, table, predictor, precision, transform, order and repetition of segments, and the sizes above |
| `HeifDecodeProofs` | `TypeCorrect`, `FailureAlwaysNamed`, `AlwaysLiftedExact`, `OnlySoundSurfaces`, `UnitsAlwaysDelivered` | record and payload of any bytes, number, size and depth of pictures, window, pitch, offset, format and padding of a surface, behaviour of the decoder |
| `DemosaicProofs` | `GreyStaysGreyAlways`, `ColoursFoundInsideAlways` | algorithm, mosaic, size of area (from 6 x 6), origin and margin, white level, shades and slope of the scene, precision `Sub` |

### Assumptions

* VAAPI: `RequestAssumption` (requests have the shape the parsers give them), `CapsAssumption`,
  `NoneAssumption` and `DriverAssumption` (`None` is no handle, object or reply). `DiscoveryAssumption`: there is
  a node, each node's driver has profiles of the three the code asks for, and `None` is none of the values it is told from.
* `PumpAssumption`: the four byte values `fill` tells apart differ and are bytes, a register is an even number of
  bytes, the fast path takes at least one byte. The code's 8, 8 and 4 are one instance, the run's sizes another.
* `LjpegAssumption`: the lookup is indexed by no more bits than the longest code has. `StreamAssumption` gives the fields of a
  segment the types their parser reads them with, and nothing more: a stream need not conform to T.81, nor a table be a prefix code.
  `SourceAssumption` says what a stream that has a `source` is: the source is something T.81 can code (`Encodable`) and the decoder's
  types hold (`Supported`: one component, or Sony's four with predictor 1; 16 bits at most), the headers announce it and the scan carries
  it. It restricts no stream, since any may have no source. What the theorems say nothing about are differences of 16 bits, restart
  markers, fill bytes before a marker, and components sampled differently.
* `SurfaceAssumption`: samples fit their depth of 8 to 16 bits; a window of a picture with chroma begins on a chroma sample, as
  the conformance window of 4:2:0 does by its units; a surface is called `sound` if and only if it is in the format of the depth and
  has every byte of the window, and it then holds the samples in those bytes. It does not say what the code makes of them.
  `NoneAssumption`: `None` is no error's name.
* `UnitsAssumption` says what the units of an item are, and excludes no bytes: whatever the bytes, the units that
  stand at their beginning come first, and what is left begins no further one (`rest`). A record's fields are in the range of the bits that hold
  them, and an item is called `whole` if and only if its record fits the form written and nothing is left.
* `AreaAssumption`: the active area has the 6 x 6 samples the algorithms demand and lies on the sensor; `SceneAssumption`: a scene's shades
  are between 0 and the white level, which 16 bits hold; `OutcomeAssumption`: an error, a panic and no sample are told from pictures and numbers.

### The arguments

**The decoder's ledger.** None of the properties is inductive by itself: that the live
objects are those the decoder holds does not say *which* handles are set at which point of the
code, without which a destructor might run on nothing. `IInv` adds to `TypeOK` and
`LedgerExact`: where a request, a session and buffers exist (`ControlInv`), which locals hold a
handle at each point of `session` and `destroy_session` (`WorkInv`), when an image is held and
mapped (`ImageInv`), and that the driver's objects of a stored session are those its key asks
for (`SessionInv`). One lemma per action shows that it is kept.

**The picture read back** needs the queue: `PictureInv` says that from `vaEndPicture` to the
return of `vaSyncSurface` the request's picture is either the last one queued or done, and that the
queue is empty while the surface is read. What the GPU finishes before it may write the same
surface, but not after it.

**The refinement** of `StillDecoder` needs to know at the reply what was decided steps before: `OutcomeInv` ties
the point of the code to the checks passed and the outcome stored (`Screened`, `Replied`). With it and `PictureInv`, `CallInv` is enough to
map each action: the start of a call, its reply, and stutters, among them everything the GPU and the cleanup do.

**Discovery.** `Holds` says for each thread at each point of the walk which fd and display it has; `Cached` that at most one thread, the
`prober`, runs the initialiser of the profiles, and that whoever else walks does so for a codec in the published
ones; `Answered` that every answer follows from what is published. `Quiet` is about a system in which nothing has changed yet: every
node behind a walk was unusable, so that a walk ends at the first usable node, the one the probe ended at, and the profiles are what that node answered.

**The bit pump.** That the register holds the payload's next bits needs to know that the bytes not yet read are
the payload not yet delivered: `Continues`, in `StreamInv`, compares the two as sequences. Past an EOI it fails, since the marker's second
byte is taken for data; the invariant says so (`Genuine` counts the bits that are payload) instead of ruling that out, for the code
does not. `ShortInv` carries "too few bits" from the fill to the value. The fast path's value is
that of the payload's next bytes by induction on their number (`AheadIsPayload`, `NumberPrefix`).

**Lossless JPEG.** The lookup holds the codes of up to `Fast` bits, the slow path takes the first length whose largest code
is not exceeded and whose symbol exists. That they agree does not need a prefix code: in the canonical numbering the codes of a longer length begin
behind all shorter ones (`LongerCodesFollow`), so that bits that begin with a code of length l exceed the largest code of every shorter length;
hence the code the lookup finds is the only one and is the slow path's first fit (`FoundIsFirstFit`). The indices: with rows and columns of
2 x 2 blocks counted by division the place of a sample is inside for odd sizes too, so that `x < out_width && y < out_height`
in `decode_scan` never fails, and so are the neighbours the prediction reads. `ScanInv` adds what a begun scan was checked
for: the number of components and the table slot.

**The image** (the second part of `LjpegProofs`). `InStep` and `DecodesImage` are parts of one invariant, `DecodeInv`, since where the next sample's bits
stand and what they add to depends on every sample before. Before the scan it says that the decoder's frame and tables are
those of the *last* SOF3 and of the last definition of each slot so far (`HeadersInv`), so that a repeated or redefined segment is no
special case; at SOS that they are the encoder's (`Ready`), whichever order the selectors come in; in the scan that the bits
consumed are those of the samples decoded, that these are in their places, and that `prev` and `col0_prev` are the last sample and the last
first-column sample of each component (`Progress`). The step is one sample. Its bits are a code word and the difference's bits, and stand where the
decoder is (`ScanHolds`, by induction on the samples); the code that T.81 C.2 assigns symbol i is `FirstCode` of its length plus its rank
(`HuffCodeIs`, `HuffSizeIs`), so that `FirstFit` finds it, whichever lookup is used, whatever follows it (`CodeWordRead`); `Extend`
undoes the encoder's complement (`ExtendUndoes`, `DifferenceRead`); the prediction reads the encoder's neighbours (`OnePredicted`,
`FourPredicts`), so that the clamp changes nothing (`SampleFits`); and the place is that of the sample (`FourPlaces`).

**The adapters.** `ErrorInv` is the argument for the error a caller sees: `last_error` is written by a failed decoder and by nothing
else, and the pipeline makes no call after a failed one, so that what is stored is never an earlier failure's. `FrameInv`
is the interface between `copy_image_planes` and the lift: a frame that gets through has every byte the lift will read without a check, and
the picture's samples in them. The lemmas go along the code: the rows `copy_plane` copies (`CopyPlaneCopies`) and what its checks
amount to, bytes to samples of `read_plane_8`, `read_plane_16` and the de-interleaving ones, the shift
and mask of P010 and I010 (`StoredIsRead`), and the window row by row. A driver image in which one byte too few is mapped
is the case that makes `OnlySoundSurfaces` hard: both directions of the check's arithmetic are needed.

**The units** (`CodecRecordsProofs`). The parsers are loops over positions, what is written is a list of chunks. Each proof has the
same shape: after k turns the loop stands behind k chunks and has the first k units (`UnitAt` and its like), because a chunk at a position of a
longer sequence is read as it was written; and where the rest begins, the parser refuses (`NoNal`, `NoObu`). Of a number that is written
in leb128, the first byte without the continuation bit is the last one, so that `Leb128` takes the length the writer meant. The record has a
header of 23 bytes, in one of which the length of the prefixes shares its byte with three other fields (`HeaderBytes`), and then a
count for each array and a length for each unit (`ArraysRead`, `UnitsRead`). `SeenInv` carries what was split from the call to the decoder.

**Demosaicing.** What an algorithm returns is determined by the shot (`Developed`), so the argument is about functions on planes, not about steps.
It follows the algorithms through their intermediate planes: of a uniform mosaic, the green of either direction is the sample (a second
difference vanishes), every weighted or plain mean of equal values is that value *provided its weights do not add up to zero*
(`MeanOfEquals`, `SumPositive`, from `SumUnfolds`, the recursive equation of the library's `SumFunction`), colour differences are
zero and ratios one, and so on to the last smoothing. For every mean this needs a neighbour of the colour asked for within its window and
inside what the code looks at, at every parity and at all four borders: that is what `GreyStaysGrey` is about. The means of the X-Trans methods are
taken with `f32` precision `1/Sub` and cut off, so that the result may be one less. For the bilinear method the neighbours are those of the sensor, and
exist when the area does not touch its edge.

The colours of a scene that is not grey (`ColoursFoundInsideAlways`) are found by the same planes, for another reason: each is *exact from some margin on*
(`Exact`), and the margins add up along an algorithm to at most four. Green is exact two positions inside, because the second difference of the samples of a linear
scene vanishes (`DirectionalExact`); the difference of another colour to green is then one number everywhere (`DifferenceExact`), so that its mean over
any window with a site of the colour is that number (`SiteNear` for Bayer; `TileNear` for X-Trans, which has a green in any three neighbours of a row and every colour in
any six); and green plus that number, rounded or cut off, is the colour (`ExactRoundsTo`, `ExactTruncatesTo`). RCD goes through a ratio in steps of
`1/Sub`, and `ProportionBack` is why it gets the colour back: the ratio is exact, or off by so little that the rounding removes it. In a ramp
the mean of two opposite neighbours is the middle (`ToneMiddle`), which is all the bilinear method uses. That an
algorithm looks for each colour where the sensor has it, at every parity of the area's origin, is `SiteAt`.

**Induction.** The library's induction theorems take an operator as a parameter, which the installed provers cannot instantiate.
`NatLemmas` states induction over a *set* of numbers instead (`Induct`, from the least element of the complement) and that a function defined by
recursion satisfies its equation (`Recursion`, `RecursionUpTo`). What the recursive functions
`Pow2`, `Rest`, `Number`, `BytesAhead`, `FirstCode`, `Shorter` and the scan of `LosslessJpeg` compute is proved with these, for every argument.

### Only model-checked

Liveness (`CallReturns`, `CallsReturn`), which the prover does not do. The HEVC and AV1 parsers: `Parse` folds over tables of syntax elements, and a
proof would unfold each table. The RAW files: recursion over images and directories in each step.

## 5. Observations that no run states

Hardware decoding:

* `available_codecs` keeps the answer of the first probe. After a change of hardware `decoder`
  may return `None` for a codec it lists, or a decoder on another driver than the one probed;
  `DecoderMatchesAvailable` and `DecoderOnCapableDriver` say nothing then: that hardware does not
  change is `probe`'s assumption (`vaapi/mod.rs:107–108`).
* A display whose `vaInitialize` failed is dropped without `vaTerminate` (`vaapi/mod.rs:197`).
* A `vaMapBuffer` that succeeds with a null pointer is an error (`vaapi/mod.rs:631`) that destroys the image without unmapping it.
  libva promises a pointer, and the model has no such driver.
* A failed `vaRenderPicture` returns without `vaEndPicture` (`vaapi/mod.rs:494`), though the comment at 463
  speaks of one begin/render/end/sync cycle: the session that is kept has a picture begun.
* Of two PPS with different ids only the later one is known to the slices. Slice segments of two pictures in one payload
  are decoded as one. A dependent slice segment is handed to the driver with slice type 0 (`hevc.rs:618`, against "Always 2 (I)" at 561).
* A slice that leaves the deblocking offsets to the PPS is handed to the driver with 0 and 0 (`hevc.rs:692`), where H.265 7.4.7.1
  infers the PPS's values; `HeadersExact` asks for them only when they are overridden.
* `sps_extension_present_flag` is not read (`hevc.rs:390`, "irrelevant to decoding here"), though the module's doc (14-16) has streams
  with SPS extensions fail.
* `uniform_partition_minus1` wraps for more tile columns than CTBs (`hevc.rs:748`); `hevc_stream` has no such partitions.
* The number of pictures of a predicted reference set counts entries whose POC difference comes out as zero (`hevc.rs:256`).

AV1 (`vaapi/av1.rs`), each left out of `av1_stream`'s pictures by name:

* Chroma CDEF strengths are read for monochrome pictures too (873), where AV1 5.9.19 codes none;
  the scope comment (6–7) includes monochrome.
* `force_integer_mv` is coded whenever screen content tools are on and the sequence leaves it to the frame, in
  intra frames as well (5.9.2); the comment at 510 takes it for inter frames only.
* The tile limits are shifted by the superblock size in 4 x 4 units (646–648) where 5.9.15 shifts by its size in samples: the
  limit of 4096 samples becomes 256 superblocks instead of 64, and wider pictures get no forced split.
* A tile group that comes twice counts twice; a picture can be complete by number with a tile missing (1121, 1137).
* `error_resilient_mode` stays 0 in reduced headers, where 5.9.2 infers 1 for a shown key frame.

Lossless JPEG:

* A stream without SOS is decoded from its first byte as if all of it were the scan.
* A negative sample becomes the maximum in a one-component scan and zero in a four-component one; a table slot above 3 panics
  in the former and is clamped in the latter.
* T.81 H.1.2 takes differences modulo 2^16, and category 16 has no bits behind its code; the code reads 16 more bits for it and adds
  without the modulo (`lib.rs:579–595`, `655–665`). Pictures with such differences are left out of the conforming streams.
* `restart_interval` is read (`lib.rs:293`) and never used, though `bit_pump.rs:8–9` promises restart markers.
* 0xFF fill bytes before a marker (T.81 B.1.1.2) are taken for an unknown marker with a length (`lib.rs:328–333`). The modelled
  encoder writes none. A length or body that ends behind the file panics (`lib.rs:282`, `286–299`, `320`, `325`; `PanicOnLength`).
* A `peek` past the end returns consumed bits above the rest, not "padded with zeros" (`bit_pump.rs:125`). After an EOI marker
  the bit pump goes on with its second byte; the decoder never gives it one.

RAW files:

* `process` applies gains, black level, bad pixels on the 2 x 2 pattern to X-Trans sensors too; `DemosaicMethod::Auto` always takes
  AMaZE, though its doc says it detects the sensor; `XTransPattern::standard` has 19 greens. Areas under 6 x 6 panic.
* The comments of `bayer.rs` speak of mirrored borders, the code repeats the edge. Bilinear darkens at the sensor's border.
* Tiles that are missing or cannot be decoded are black. Of more tiles than the grid has rows for, `height - tile_y` wraps (ARW
  `decoder.rs:671`): a release build ignores them, as the model does, a debug build panics. `ArwFile::validate` rejects tiled files. NEF samples are always read
  little-endian. CR2 slices are not put together. NEF, CR2, CR3 and RAF drop the orientation. An ISO in a LONG is cut to 16 bits.
* Files of several strips have no scalar offset for `read_raw_data`. RAF dimensions in SHORTs of an MM file are read as w·65536.
* DNG: no black level on the linear path; opcode lists 1 and 3 are ignored, list 2 on the mosaic path; a gain map's area and pitches are
  ignored; an exported DNG carries the camera's levels and neutral for pixels already processed.
* The camera lookup takes a part of a name for the name, in both directions (`cameras.rs:300`).
* AVIF: ICC into a file without `colr` puts the new property first and shifts every index of `ipma`; `encode.rs:411` calls XMP an item, it
  is a top-level `xml ` box; `patch_iloc_extents` moves base and extents, and `idat`-relative extents too. Files of these shapes, or with an `index_size`, are not
  what gamut's encoder writes and not among the checked ones.

## 6. Not modelled, and why

* VideoToolbox and MediaCodec have no code beyond the build's feature names.
* `standard.rs` and the codec crates hand bytes to external codecs (gamut, tiff, gif, resvg, zune-ppm); there is no
  state of the repository's in between.
* Lens correction, the bilateral filter's weights, the tone curves' values and the colour temperature tables are floating-point
  arithmetic, of which TLC has none; the stages are modelled where the properties see them (defects, order, fixed points).
* `bridge.rs` and the `metadata` types copy fields one by one.
* Reading the bytes of a TIFF directory (gamut-ifd) and DNG containers (gamut-dng) is external.

What would come next: `RenderedExactly` for X-Trans gains once the code has them; proofs of `TreeAttachesOnce` and `TilesCoverPicture`.
